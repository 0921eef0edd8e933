-------------------------- MODULE BumpChainProofs --------------------------
(***************************************************************************)
(* Proofs about BumpChain, for chains of any length and any number of       *)
(* commits, pull requests and steps of other people.  The invariant says    *)
(* that histories are closed, that what the hop under way has read can      *)
(* still be fetched, and how its working tree follows from what it read;    *)
(* that a branch of the fork only gains history carries it through every    *)
(* push, publication and merge.                                             *)
(***************************************************************************)
EXTENDS BumpChain, SequenceTheorems, TLAPS

(* A commit's history holds its ancestors' histories.                      *)
History ==
  \A r \in Repo : \A i \in 1..Len(commits[r]) :
    /\ i \in Anc(r, i)
    /\ Anc(r, i) \subseteq 1..Len(commits[r])
    /\ \A j \in Anc(r, i) : Anc(r, j) \subseteq Anc(r, i)

(* A recorded branch exists in the checkout.                               *)
Recorded == \A r \in Repo : record[r].pr # 0 => local[r][record[r].branch] # 0

(* A command that may open pull requests has room for them.                *)
PrRoom ==
  /\ pc \notin Ended /\ cmd.pr =>
       \A r \in Hop : r > cmd.h \/ (r = cmd.h /\ pc # "save") => Len(prs[r]) < MaxPrs[length]
  /\ pc = "save" => Len(prs[cmd.h]) <= MaxPrs[length]

(* What the hop under way has read of its dependencies can be fetched, and *)
(* is still what it would read now.                                        *)
Fetched(h) ==
  \A d \in 1..(h - 1) :
    /\ OnOrigin(d, job.shas[d])
    /\ cmd.op = "reconcile" => Reachable(d, job.shas[d])
    /\ cmd.op = "bump" /\ quiet => job.shas[d] = Tip(d)

Written(h) == \A d \in 1..(h - 1) : d \notin todo => tree[h][d] = job.shas[d]

JobRead ==
  pc \in {"pin", "cases", "test"} =>
    /\ todo \subseteq 1..(cmd.h - 1)
    /\ pc # "pin" => todo = {}
    /\ Fetched(cmd.h)
    /\ Written(cmd.h)

(* A tree that was clean when the hop began has only new pins to commit.   *)
TreeKept ==
  pc \in {"pin", "cases"} =>
    /\ job.dirty => job.resuming
    /\ ~changed /\ ~job.dirty => ~Dirty(cmd.h)

(* The hop's branch, tested and committed.                                 *)
Settled(h) ==
  \A d \in 1..(h - 1) :
    /\ cmd.op = "reconcile" => Reachable(d, commits[h][Tip(h)].pins[d])
    /\ cmd.op = "bump" /\ quiet => commits[h][Tip(h)].pins[d] = Tip(d)

HopSettled == pc \in {"push", "record", "save"} => Settled(cmd.h)

(* The hops of a chain that are behind the command.                        *)
Walked ==
  /\ cmd.all /\ pc = "ok" => cmd.h = length
  /\ cmd.op = "bump" /\ cmd.all /\ quiet /\ pc \notin {"idle", "gate", "error"} =>
       \A h \in Hop : h < cmd.h \/ (h = cmd.h /\ pc = "ok") =>
         \A d \in 1..(h - 1) : commits[h][Tip(h)].pins[d] = Tip(d)

-----------------------------------------------------------------------------
(* Git: what the invariant says of checkouts and remotes, and what a step    *)
(* may do to them.                                                           *)

GitTyped ==
  /\ commits \in [Repo -> Seq(Commit)]
  /\ \A r \in Repo : Len(commits[r]) \in Sha
  /\ local \in [Repo -> [Branch -> 0..MaxCommits[length]]]
  /\ origin \in [Repo -> [Branch -> 0..MaxCommits[length]]]
  /\ head \in [Repo -> Branch]
  /\ tree \in [Repo -> Pins]
  /\ \A r \in Repo : local[r][head[r]] # 0
  /\ \A r \in Repo, b \in Branch :
       local[r][b] \in 0..Len(commits[r]) /\ origin[r][b] \in 0..Len(commits[r])

CommandTyped ==
  /\ prs \in [Repo -> Seq([branch : Branch, merged : BOOLEAN])]
  /\ record \in [Repo -> [pr : 0..MaxPrs[length], branch : Branch]]
  /\ cmd \in [op : {"bump", "reconcile"}, all : BOOLEAN, h : Hop, push : BOOLEAN, pr : BOOLEAN]
  /\ pc \in Ended \cup {"resolve", "pin", "cases", "test", "push", "record", "save"}
  /\ job \in Job
  /\ todo \subseteq Repo
  /\ changed \in BOOLEAN
  /\ quiet \in BOOLEAN
  /\ moves \in 0..MaxMoves[length]

(* The fork has a main, and a branch once checked out stays.               *)
Mains == \A r \in Repo : origin[r][0] # 0

(* Commits stay as they were, branches keep a tip, and a branch of the fork *)
(* keeps its history.                                                       *)
Grows ==
  \A r \in Repo :
    /\ Len(commits[r]) <= Len(commits'[r])
    /\ \A i \in 1..Len(commits[r]) : commits'[r][i] = commits[r][i]
    /\ \A b \in Branch :
         /\ local[r][b] # 0 => local'[r][b] # 0
         /\ origin[r][b] # 0 =>
              origin'[r][b] # 0 /\ Anc(r, origin[r][b]) \subseteq commits'[r][origin'[r][b]].anc

GitInv == length \in Lengths /\ GitTyped /\ History /\ Mains

(* A tree of repository h whose pins can be fetched.                       *)
Pinned(h, pins) == \A d \in 1..(h - 1) : pins[d] # 0 => OnOrigin(d, pins[d])

PinsStand ==
  \A h \in Repo :
    /\ Pinned(h, tree[h])
    /\ \A i \in 1..Len(commits[h]) : Pinned(h, commits[h][i].pins)

(* The inductive invariant.                                                *)
ChainInv ==
  /\ GitInv /\ PinsStand /\ CommandTyped /\ Recorded /\ PrRoom
  /\ JobRead /\ TreeKept /\ HopSettled /\ Walked

LEMMA TypeParts == TypeOK <=> length \in Lengths /\ GitTyped /\ CommandTyped
<1>1. (\A r \in Repo, b \in Branch : {local[r][b], origin[r][b]} \subseteq 0..Len(commits[r]))
        <=> \A r \in Repo, b \in Branch :
              local[r][b] \in 0..Len(commits[r]) /\ origin[r][b] \in 0..Len(commits[r])
  OBVIOUS
<1> QED BY <1>1, Zenon DEF TypeOK, GitTyped, CommandTyped

LEMMA Sizes ==
  ASSUME length \in Lengths
  PROVE  /\ length \in Nat /\ length >= 2
         /\ MaxCommits[length] \in Nat /\ MaxCommits[length] >= 1
         /\ MaxPrs[length] \in Nat /\ MaxMoves[length] \in Nat
BY ChainAssumption

LEMMA Update2 ==
  ASSUME NEW R, NEW B, NEW V, NEW f \in [R -> [B -> V]], NEW r \in R, NEW b \in B, NEW v \in V,
         NEW g, g = [f EXCEPT ![r] = [@ EXCEPT ![b] = v]]
  PROVE  /\ g \in [R -> [B -> V]]
         /\ \A q \in R, c \in B : g[q][c] = IF q = r /\ c = b THEN v ELSE f[q][c]
         /\ \A q \in R : q # r => g[q] = f[q]
OBVIOUS

LEMMA NumberPlus ==
  ASSUME NEW n \in Nat, NEW m \in Nat, n < m
  PROVE  /\ n + 1 \in 1..m /\ n + 1 \in 0..m
         /\ n + 1 \notin 1..n
         /\ 1..n \subseteq 1..m
         /\ 1..(n + 1) = 1..n \cup {n + 1}
         /\ 0..n \subseteq 0..(n + 1)
         /\ n <= n + 1
OBVIOUS

(* A commit with the histories of some others.                             *)
LEMMA NewCommitFacts ==
  ASSUME GitInv, length' = length, NEW r \in Repo, NEW anc \in SUBSET (1..Len(commits[r])),
         \A j \in anc : Anc(r, j) \subseteq anc,
         NEW pins \in Pins, NewCommit(r, anc, pins)
  PROVE  /\ commits' \in [Repo -> Seq(Commit)]
         /\ Len(commits[r]) \in Nat /\ Len(commits[r]) < MaxCommits[length]
         /\ Len(commits'[r]) = Len(commits[r]) + 1
         /\ \A q \in Repo : q # r => commits'[q] = commits[q]
         /\ \A q \in Repo : \A i \in 1..Len(commits[q]) : commits'[q][i] = commits[q][i]
         /\ commits'[r][Len(commits[r]) + 1] = [anc |-> anc \cup {Len(commits[r]) + 1}, pins |-> pins]
         /\ \A q \in Repo : Len(commits'[q]) \in Sha /\ Len(commits[q]) <= Len(commits'[q])
         /\ History'
<1> DEFINE n == Len(commits[r])
           x == [anc |-> anc \cup {n + 1}, pins |-> pins]
<1>1. /\ commits \in [Repo -> Seq(Commit)] /\ n \in Sha
      /\ \A q \in Repo : Len(commits[q]) \in Sha
  BY DEF GitInv, GitTyped
<1>2. n \in Nat /\ n < MaxCommits[length] /\ MaxCommits[length] \in Nat
  BY <1>1, Sizes DEF NewCommit, Sha, GitInv
<1>3. x \in Commit
  <2>1. anc \cup {n + 1} \in SUBSET Sha
    <3>1. 1..n \subseteq Sha /\ n + 1 \in Sha  BY <1>2, NumberPlus DEF Sha
    <3> QED BY <3>1
  <2> QED BY <2>1 DEF Commit
<1>4. commits' = [commits EXCEPT ![r] = Append(commits[r], x)]
  BY DEF NewCommit
<1>10. x.anc = anc \cup {n + 1}  OBVIOUS
<1>5. commits[r] \in Seq(Commit)  BY <1>1
<1> HIDE DEF n, x
<1>6. /\ Append(commits[r], x) \in Seq(Commit) /\ Len(Append(commits[r], x)) = n + 1
      /\ \A i \in 1..n : Append(commits[r], x)[i] = commits[r][i]
      /\ Append(commits[r], x)[n + 1] = x
  BY <1>3, <1>5, AppendProperties DEF n
<1>7. /\ commits'[r] = Append(commits[r], x)
      /\ \A q \in Repo : q # r => commits'[q] = commits[q]
      /\ commits' \in [Repo -> Seq(Commit)]
  BY <1>1, <1>4, <1>6
<1>8. \A q \in Repo : \A i \in 1..Len(commits[q]) : commits'[q][i] = commits[q][i]
  BY <1>6, <1>7
<1>9. \A q \in Repo : Len(commits'[q]) \in Sha /\ Len(commits[q]) <= Len(commits'[q])
  <2> SUFFICES ASSUME NEW q \in Repo
               PROVE  Len(commits'[q]) \in Sha /\ Len(commits[q]) <= Len(commits'[q])
    OBVIOUS
  <2>1. CASE q = r  BY <2>1, <1>2, <1>6, <1>7, NumberPlus DEF Sha
  <2>2. CASE q # r
    <3>1. Len(commits[q]) \in Nat  BY <1>1 DEF Sha
    <3> QED BY <2>2, <3>1, <1>1, <1>7
  <2> QED BY <2>1, <2>2
<1>11. ASSUME NEW q \in Repo, NEW i \in 1..Len(commits'[q])
       PROVE  /\ i \in commits'[q][i].anc
              /\ commits'[q][i].anc \subseteq 1..Len(commits'[q])
              /\ \A j \in commits'[q][i].anc : commits'[q][j].anc \subseteq commits'[q][i].anc
  <2>1. CASE q # r
    BY <2>1, <1>7, <1>11 DEF GitInv, History, Anc
  <2>2. CASE q = r /\ i \in 1..n
    <3>1. i \in Anc(r, i) /\ Anc(r, i) \subseteq 1..n /\ \A j \in Anc(r, i) : Anc(r, j) \subseteq Anc(r, i)
      BY <2>2 DEF GitInv, History, n
    <3>2. 1..n \subseteq 1..Len(commits'[q])  BY <2>2, <1>2, <1>6, <1>7, NumberPlus
    <3> QED BY <2>2, <3>1, <3>2, <1>8 DEF Anc, n
  <2>3. CASE q = r /\ i = n + 1
    <3>1. commits'[q][i].anc = anc \cup {n + 1}  BY <2>3, <1>6, <1>7, <1>10
    <3>2. Len(commits'[q]) = n + 1 /\ 1..(n + 1) = 1..n \cup {n + 1}
      BY <2>3, <1>2, <1>6, <1>7, NumberPlus
    <3>3. ASSUME NEW j \in anc PROVE commits'[q][j].anc \subseteq anc
      BY <3>3, <2>3, <1>8 DEF Anc, n
    <3>4. anc \subseteq 1..n  BY DEF n
    <3> QED BY <2>3, <3>1, <3>2, <3>3, <3>4
  <2>4. i \in 1..n \/ i = n + 1 \/ q # r
    BY <1>11, <1>2, <1>6, <1>7, NumberPlus
  <2> QED BY <2>1, <2>2, <2>3, <2>4
<1>12. History'
  BY <1>11 DEF History, Anc, Repo
<1> QED BY <1>2, <1>6, <1>7, <1>8, <1>9, <1>12 DEF n, x

(* What could be fetched, and what was on a main, stays so.                *)
LEMMA Carried ==
  ASSUME GitInv, length' = length, Grows, NEW d \in Repo, NEW c
  PROVE  /\ OnOrigin(d, c) => OnOrigin(d, c)'
         /\ Mains => (Reachable(d, c) => Reachable(d, c)')
<1>1. Branch' = Branch /\ 0 \in Branch  BY Sizes DEF Branch, GitInv
<1>2. ASSUME OnOrigin(d, c) PROVE OnOrigin(d, c)'
  <2>1. PICK b \in Branch : origin[d][b] # 0 /\ c \in Anc(d, origin[d][b])
    BY <1>2 DEF OnOrigin
  <2>2. origin'[d][b] # 0 /\ c \in commits'[d][origin'[d][b]].anc
    BY <2>1 DEF Grows
  <2> QED BY <2>1, <2>2, <1>1 DEF OnOrigin, Anc
<1>3. ASSUME Mains, Reachable(d, c) PROVE Reachable(d, c)'
  <2>1. c # 0 /\ c \in Anc(d, origin[d][0]) /\ origin[d][0] # 0
    BY <1>3 DEF Reachable, Mains
  <2>2. c \in commits'[d][origin'[d][0]].anc
    BY <2>1, <1>1 DEF Grows
  <2> QED BY <2>1, <2>2 DEF Reachable, Anc
<1> QED BY <1>2, <1>3

LEMMA MainsOnOrigin ==
  ASSUME GitInv, NEW d \in Repo
  PROVE  OnOrigin(d, MainTip(d)) /\ Reachable(d, MainTip(d))
<1>1. 0 \in Branch /\ origin[d][0] # 0  BY Sizes DEF Branch, GitInv, Mains
<1>2. origin[d][0] \in 1..Len(commits[d])
  <2>1. origin[d][0] \in 0..Len(commits[d]) /\ Len(commits[d]) \in Sha
    BY <1>1 DEF GitInv, GitTyped
  <2> QED BY <2>1, <1>1 DEF Sha
<1>3. origin[d][0] \in Anc(d, origin[d][0])  BY <1>2 DEF GitInv, History
<1> QED BY <1>1, <1>3 DEF OnOrigin, Reachable, MainTip

LEMMA OriginTips ==
  ASSUME GitInv, NEW r \in Repo, NEW b \in Branch, origin[r][b] # 0
  PROVE  origin[r][b] \in 1..Len(commits[r])
<1>1. origin[r][b] \in 0..Len(commits[r]) /\ Len(commits[r]) \in Sha
  BY DEF GitInv, GitTyped
<1> QED BY <1>1 DEF Sha

LEMMA TipType ==
  ASSUME GitInv, NEW r \in Repo
  PROVE  /\ head[r] \in Branch /\ Tip(r) \in 1..Len(commits[r]) /\ Tip(r) \in 1..MaxCommits[length]
         /\ commits[r][Tip(r)] \in Commit
         /\ Anc(r, Tip(r)) \subseteq 1..Len(commits[r])
         /\ \A j \in Anc(r, Tip(r)) : Anc(r, j) \subseteq Anc(r, Tip(r))
<1>1. /\ head[r] \in Branch /\ Len(commits[r]) \in Sha
      /\ local[r][head[r]] \in 0..Len(commits[r]) /\ local[r][head[r]] # 0
  BY DEF GitInv, GitTyped
<1>2. Tip(r) \in 1..Len(commits[r]) /\ Tip(r) \in 1..MaxCommits[length]
  <2>1. MaxCommits[length] \in Nat  BY Sizes DEF GitInv
  <2> QED BY <1>1, <2>1 DEF Tip, Sha
<1>3. commits[r] \in Seq(Commit)  BY DEF GitInv, GitTyped
<1> QED BY <1>1, <1>2, <1>3, ElementOfSeq DEF GitInv, History

LEMMA PinsParts == ASSUME GitInv PROVE PinsOnOrigin <=> PinsStand
<1>1. \A h \in Repo : DOMAIN commits[h] = 1..Len(commits[h])
  BY LenProperties DEF GitInv, GitTyped
<1> QED BY <1>1 DEF PinsOnOrigin, PinsStand, Pinned

LEMMA Below ==
  ASSUME length \in Lengths, NEW h \in Repo, NEW d \in 1..(h - 1)
  PROVE  d \in Repo /\ d < h /\ d # h
BY Sizes DEF Repo

LEMMA PinsStep ==
  ASSUME GitInv, length' = length, Grows, PinsStand,
         \A h \in Repo : /\ Pinned(h, tree'[h])
                         /\ \A i \in 1..Len(commits'[h]) : Pinned(h, commits'[h][i].pins)
  PROVE  PinsStand'
<1>1. Repo' = Repo /\ length \in Lengths  BY DEF Repo, GitInv
<1>2. \A h \in Repo : \A d, p : d \in 1..(h - 1) /\ OnOrigin(d, p) => OnOrigin(d, p)'
  BY <1>1, Below, Carried
<1>3. ASSUME NEW h \in Repo, NEW pins, Pinned(h, pins)
      PROVE  \A d \in 1..(h - 1) : pins[d] # 0 => OnOrigin(d, pins[d])'
  BY <1>2, <1>3 DEF Pinned
<1>4. ASSUME NEW h \in Repo PROVE Pinned(h, tree[h])'
  BY <1>3 DEF Pinned
<1>5. ASSUME NEW h \in Repo, NEW i \in 1..Len(commits'[h]) PROVE Pinned(h, commits[h][i].pins)'
  BY <1>3 DEF Pinned
<1> QED BY <1>1, <1>4, <1>5 DEF PinsStand

(* A checkout: branches and the tree move, the fork does not.              *)
LEMMA CheckoutStep ==
  ASSUME GitInv, length' = length, UNCHANGED <<commits, origin>>,
         local' \in [Repo -> [Branch -> 0..MaxCommits[length]]],
         head' \in [Repo -> Branch], tree' \in [Repo -> Pins],
         \A r \in Repo : local'[r][head'[r]] # 0,
         \A r \in Repo, b \in Branch : /\ local'[r][b] \in 0..Len(commits[r])
                                       /\ local[r][b] # 0 => local'[r][b] # 0
  PROVE  GitInv' /\ Grows
<1>1. Repo' = Repo /\ Branch' = Branch /\ Sha' = Sha /\ Pins' = Pins /\ Commit' = Commit
  BY DEF Repo, Branch, Sha, Pins, Commit
<1>2. GitTyped'
  BY <1>1 DEF GitInv, GitTyped
<1>3. History' /\ Mains'
  BY <1>1 DEF GitInv, History, Mains, Anc
<1>4. Grows
  <2>1. \A r \in Repo : Len(commits[r]) \in Nat  BY DEF GitInv, GitTyped, Sha
  <2> QED BY <2>1 DEF Grows, Anc
<1> QED BY <1>2, <1>3, <1>4 DEF GitInv

(* A fast-forward push.                                                    *)
LEMMA PushStep ==
  ASSUME GitInv, length' = length, UNCHANGED <<commits, local, head, tree>>,
         NEW r \in Repo, NEW b \in Branch, NEW x \in 1..Len(commits[r]),
         origin[r][b] = 0 \/ origin[r][b] \in Anc(r, x),
         origin' = [origin EXCEPT ![r] = [@ EXCEPT ![b] = x]]
  PROVE  GitInv' /\ Grows
<1>1. Repo' = Repo /\ Branch' = Branch /\ Sha' = Sha /\ Pins' = Pins /\ Commit' = Commit
  BY DEF Repo, Branch, Sha, Pins, Commit
<1>0. \A q \in Repo : Len(commits[q]) \in Sha  BY DEF GitInv, GitTyped
<1>2. x \in 0..MaxCommits[length] /\ x \in 0..Len(commits[r]) /\ x # 0
  <2>1. MaxCommits[length] \in Nat /\ Len(commits[r]) \in 1..MaxCommits[length]
    BY <1>0, Sizes DEF GitInv, Sha
  <2> QED BY <2>1
<1>3. /\ origin' \in [Repo -> [Branch -> 0..MaxCommits[length]]]
      /\ \A q \in Repo, c \in Branch : origin'[q][c] = IF q = r /\ c = b THEN x ELSE origin[q][c]
  <2>1. origin \in [Repo -> [Branch -> 0..MaxCommits[length]]]  BY DEF GitInv, GitTyped
  <2> QED BY <1>2, <2>1, Update2
<1>4. GitTyped'
  <2>1. commits' = commits /\ local' = local /\ head' = head /\ tree' = tree
    BY DEF GitInv
  <2>2. \A q \in Repo, c \in Branch :
          local[q][c] \in 0..Len(commits[q]) /\ origin'[q][c] \in 0..Len(commits[q])
    BY <1>2, <1>3 DEF GitInv, GitTyped
  <2> QED BY <1>1, <1>3, <2>1, <2>2 DEF GitInv, GitTyped
<1>5. 0 \in Branch  BY Sizes DEF Branch, GitInv
<1>6. History' /\ Mains'
  BY <1>1, <1>2, <1>3, <1>5 DEF GitInv, History, Mains, Anc
<1>7. Grows
  <2>1. \A q \in Repo : Len(commits[q]) \in Nat  BY <1>0 DEF Sha
  <2>2. origin[r][b] # 0 => Anc(r, origin[r][b]) \subseteq Anc(r, x)
    BY DEF GitInv, History
  <2> QED BY <1>2, <1>3, <2>1, <2>2 DEF Grows, Anc
<1> QED BY <1>4, <1>6, <1>7 DEF GitInv

(* A commit on a branch of the checkout.                                   *)
CommitsOn(r, b, pins) ==
  /\ NewCommit(r, Anc(r, Tip(r)), pins)
  /\ local' = [local EXCEPT ![r] = [@ EXCEPT ![b] = Len(commits[r]) + 1]]
  /\ head' = [head EXCEPT ![r] = b]
  /\ UNCHANGED <<origin, tree>>

LEMMA CommitStep ==
  ASSUME GitInv, length' = length, NEW r \in Repo, NEW b \in Branch, NEW pins \in Pins,
         CommitsOn(r, b, pins)
  PROVE  /\ GitInv' /\ Grows
         /\ commits'[r][Len(commits[r]) + 1].pins = pins
         /\ \A q \in Repo : \A i \in 1..Len(commits'[q]) :
              i \in 1..Len(commits[q]) \/ (q = r /\ i = Len(commits[r]) + 1)
<1> USE DEF CommitsOn
<1>0. PICK n : n = Len(commits[r]) + 1
  OBVIOUS
<1>1. Repo' = Repo /\ Branch' = Branch /\ Sha' = Sha /\ Pins' = Pins /\ Commit' = Commit
  BY DEF Repo, Branch, Sha, Pins, Commit
<1>2. Anc(r, Tip(r)) \in SUBSET (1..Len(commits[r])) /\ \A j \in Anc(r, Tip(r)) : Anc(r, j) \subseteq Anc(r, Tip(r))
  BY TipType
<1>3. /\ commits' \in [Repo -> Seq(Commit)]
      /\ Len(commits[r]) \in Nat /\ Len(commits[r]) < MaxCommits[length]
      /\ Len(commits'[r]) = n
      /\ \A q \in Repo : q # r => commits'[q] = commits[q]
      /\ \A q \in Repo : \A i \in 1..Len(commits[q]) : commits'[q][i] = commits[q][i]
      /\ commits'[r][n].pins = pins
      /\ \A q \in Repo : Len(commits'[q]) \in Sha /\ Len(commits[q]) <= Len(commits'[q])
      /\ History'
  <2>1. /\ commits' \in [Repo -> Seq(Commit)]
        /\ Len(commits[r]) \in Nat /\ Len(commits[r]) < MaxCommits[length]
        /\ Len(commits'[r]) = Len(commits[r]) + 1
        /\ \A q \in Repo : q # r => commits'[q] = commits[q]
        /\ \A q \in Repo : \A i \in 1..Len(commits[q]) : commits'[q][i] = commits[q][i]
        /\ commits'[r][Len(commits[r]) + 1] = [anc |-> Anc(r, Tip(r)) \cup {Len(commits[r]) + 1}, pins |-> pins]
        /\ \A q \in Repo : Len(commits'[q]) \in Sha /\ Len(commits[q]) <= Len(commits'[q])
        /\ History'
    BY <1>2, NewCommitFacts
  <2>2. commits'[r][n].pins = pins  BY <1>0, <2>1
  <2> QED BY <1>0, <2>1, <2>2
<1>4. n \in 0..MaxCommits[length] /\ n \in 0..n /\ n # 0
      /\ 1..n = 1..Len(commits[r]) \cup {n}
  <2>1. MaxCommits[length] \in Nat  BY Sizes DEF GitInv
  <2> QED BY <1>0, <1>3, <2>1, NumberPlus
<1>5. /\ local' \in [Repo -> [Branch -> 0..MaxCommits[length]]]
      /\ \A q \in Repo, c \in Branch : local'[q][c] = IF q = r /\ c = b THEN n ELSE local[q][c]
  <2>1. local \in [Repo -> [Branch -> 0..MaxCommits[length]]]  BY DEF GitInv, GitTyped
  <2> QED BY <1>0, <1>4, <2>1, Update2
<1>6. /\ head' \in [Repo -> Branch]
      /\ \A q \in Repo : head'[q] = IF q = r THEN b ELSE head[q]
  BY DEF GitInv, GitTyped
<1>7. \A q \in Repo : 0..Len(commits[q]) \subseteq 0..Len(commits'[q])
  <2>1. Sha \subseteq Nat  BY Sizes DEF Sha, GitInv
  <2>2. \A q \in Repo : Len(commits[q]) \in Sha /\ Len(commits'[q]) \in Sha
    BY <1>3 DEF GitInv, GitTyped
  <2>3. \A q \in Repo : Len(commits[q]) \in Nat /\ Len(commits'[q]) \in Nat
    BY <2>1, <2>2
  <2> QED BY <2>3, <1>3
<1>8. \A q \in Repo, c \in Branch :
        local'[q][c] \in 0..Len(commits'[q]) /\ origin'[q][c] \in 0..Len(commits'[q])
  <2>1. \A q \in Repo, c \in Branch :
          local[q][c] \in 0..Len(commits'[q]) /\ origin'[q][c] \in 0..Len(commits'[q])
    BY <1>0, <1>7 DEF GitInv, GitTyped
  <2>2. n \in 0..Len(commits'[r])  BY <1>3, <1>4
  <2> QED BY <1>5, <2>1, <2>2
<1>9. \A q \in Repo : local'[q][head'[q]] # 0
  BY <1>4, <1>5, <1>6 DEF GitInv, GitTyped
<1>10. GitTyped'
  BY <1>1, <1>3, <1>5, <1>6, <1>8, <1>9 DEF GitInv, GitTyped
<1>11. Mains'
  BY <1>1 DEF GitInv, Mains
<1>12. Grows
  <2>1. \A q \in Repo, c \in Branch : origin[q][c] # 0 => origin[q][c] \in 1..Len(commits[q])
    BY OriginTips
  <2> QED BY <1>3, <1>4, <1>5, <2>1 DEF Grows, Anc
<1>13. \A q \in Repo : \A i \in 1..Len(commits'[q]) :
         i \in 1..Len(commits[q]) \/ (q = r /\ i = n)
  BY <1>3, <1>4
<1> QED BY <1>0, <1>3, <1>10, <1>11, <1>12, <1>13 DEF GitInv

(* A merge upstream: main takes its own history and all or none of the     *)
(* branch's.                                                               *)
LEMMA MergeStep ==
  ASSUME GitInv, length' = length, NEW r \in Repo, NEW b \in Branch, NEW squash \in BOOLEAN,
         Merge(r, b, squash)
  PROVE  /\ GitInv' /\ Grows
         /\ UNCHANGED <<local, head, tree>>
         /\ PinsStand => \A h \in Repo : \A i \in 1..Len(commits'[h]) : Pinned(h, commits'[h][i].pins)
<1> DEFINE tip == origin[r][b]
           main == origin[r][0]
           n == Len(commits[r]) + 1
           anc == Anc(r, main) \cup (IF squash THEN {} ELSE Anc(r, tip))
<1>1. Repo' = Repo /\ Branch' = Branch /\ Sha' = Sha /\ Pins' = Pins /\ Commit' = Commit
  BY DEF Repo, Branch, Sha, Pins, Commit
<1>2. /\ tip # 0 /\ UNCHANGED <<local, head, tree>>
      /\ NewCommit(r, anc, commits[r][tip].pins)
      /\ origin' = [origin EXCEPT ![r] = [@ EXCEPT ![0] = n]]
  BY DEF Merge
<1>3. 0 \in Branch /\ \A q \in Repo : Len(commits[q]) \in Nat
  BY Sizes DEF Branch, GitInv, GitTyped, Sha
<1>4. \A q \in Repo, c \in Branch : origin[q][c] # 0 => origin[q][c] \in 1..Len(commits[q])
  BY OriginTips
<1>5. tip \in 1..Len(commits[r]) /\ main \in 1..Len(commits[r])
  BY <1>2, <1>3, <1>4 DEF GitInv, Mains
<1>6. anc \in SUBSET (1..Len(commits[r])) /\ \A j \in anc : Anc(r, j) \subseteq anc
  BY <1>5 DEF GitInv, History
<1>7. commits[r][tip].pins \in Pins
  <2>1. commits[r] \in Seq(Commit)  BY DEF GitInv, GitTyped
  <2>2. commits[r][tip] \in Commit  BY <1>5, <2>1, ElementOfSeq
  <2> QED BY <2>2 DEF Commit
<1> HIDE DEF anc, tip
<1>8. /\ commits' \in [Repo -> Seq(Commit)]
      /\ Len(commits[r]) < MaxCommits[length]
      /\ Len(commits'[r]) = n
      /\ \A q \in Repo : q # r => commits'[q] = commits[q]
      /\ \A q \in Repo : \A i \in 1..Len(commits[q]) : commits'[q][i] = commits[q][i]
      /\ commits'[r][n].anc = anc \cup {n}
      /\ commits'[r][n].pins = commits[r][tip].pins
      /\ \A q \in Repo : Len(commits'[q]) \in Sha /\ Len(commits[q]) <= Len(commits'[q])
      /\ History'
  <2>1. /\ commits' \in [Repo -> Seq(Commit)]
        /\ Len(commits[r]) < MaxCommits[length]
        /\ Len(commits'[r]) = Len(commits[r]) + 1
        /\ \A q \in Repo : q # r => commits'[q] = commits[q]
        /\ \A q \in Repo : \A i \in 1..Len(commits[q]) : commits'[q][i] = commits[q][i]
        /\ commits'[r][Len(commits[r]) + 1]
             = [anc |-> anc \cup {Len(commits[r]) + 1}, pins |-> commits[r][tip].pins]
        /\ \A q \in Repo : Len(commits'[q]) \in Sha /\ Len(commits[q]) <= Len(commits'[q])
        /\ History'
    BY <1>2, <1>6, <1>7, NewCommitFacts
  <2>2. commits'[r][n].anc = anc \cup {n} /\ commits'[r][n].pins = commits[r][tip].pins
    BY <2>1
  <2> QED BY <2>1, <2>2
<1>9. n \in 0..MaxCommits[length] /\ n \in 0..n /\ n # 0 /\ 1..n = 1..Len(commits[r]) \cup {n}
  <2>1. MaxCommits[length] \in Nat  BY Sizes DEF GitInv
  <2> QED BY <1>3, <1>8, <2>1, NumberPlus
<1>10. /\ origin' \in [Repo -> [Branch -> 0..MaxCommits[length]]]
       /\ \A q \in Repo, c \in Branch : origin'[q][c] = IF q = r /\ c = 0 THEN n ELSE origin[q][c]
  <2>1. origin \in [Repo -> [Branch -> 0..MaxCommits[length]]]  BY DEF GitInv, GitTyped
  <2>2. n \in 0..MaxCommits[length] /\ 0 \in Branch  BY <1>3, <1>9
  <2> HIDE DEF n
  <2> QED BY <1>2, <2>1, <2>2, Update2
<1>11. \A q \in Repo : 0..Len(commits[q]) \subseteq 0..Len(commits'[q])
  <2>1. \A q \in Repo : Len(commits'[q]) \in Nat  BY <1>8 DEF Sha
  <2> QED BY <2>1, <1>3, <1>8
<1> HIDE DEF n
<1>12. \A q \in Repo, c \in Branch :
         local'[q][c] \in 0..Len(commits'[q]) /\ origin'[q][c] \in 0..Len(commits'[q])
  <2>1. \A q \in Repo, c \in Branch :
          local'[q][c] \in 0..Len(commits'[q]) /\ origin[q][c] \in 0..Len(commits'[q])
    BY <1>2, <1>11 DEF GitInv, GitTyped
  <2>2. n \in 0..Len(commits'[r])  BY <1>8, <1>9
  <2> QED BY <1>10, <2>1, <2>2
<1>13. GitTyped'
  BY <1>1, <1>2, <1>8, <1>10, <1>12 DEF GitInv, GitTyped
<1>14. Mains'
  BY <1>1, <1>3, <1>9, <1>10 DEF GitInv, Mains
<1>15. Grows
  <2>1. Anc(r, main) \subseteq commits'[r][n].anc  BY <1>8 DEF anc
  <2> QED BY <1>2, <1>4, <1>8, <1>9, <1>10, <2>1 DEF Grows, Anc
<1>16. ASSUME PinsStand, NEW h \in Repo, NEW i \in 1..Len(commits'[h])
       PROVE  Pinned(h, commits'[h][i].pins)
  <2>1. CASE i \in 1..Len(commits[h])
    BY <1>8, <1>16, <2>1 DEF PinsStand
  <2>2. CASE i \notin 1..Len(commits[h])
    <3>1. h = r /\ i = n  BY <1>8, <1>9, <1>16, <2>2
    <3> QED BY <1>5, <1>8, <1>16, <3>1 DEF PinsStand, tip
  <2> QED BY <2>1, <2>2
<1> QED BY <1>2, <1>8, <1>13, <1>14, <1>15, <1>16 DEF GitInv

-----------------------------------------------------------------------------
(* Everybody else.                                                         *)

(* The repository of the hop under way is nobody else's.                   *)
Still ==
  pc \notin Ended =>
    head'[cmd.h] = head[cmd.h] /\ local'[cmd.h] = local[cmd.h] /\ tree'[cmd.h] = tree[cmd.h]

LEMMA GitKept ==
  ASSUME GitInv, length' = length, UNCHANGED git
  PROVE  /\ GitInv' /\ Grows
         /\ PinsStand => PinsStand'
<1>1. GitInv' /\ Grows
  BY CheckoutStep DEF git, GitInv, GitTyped
<1>2. ASSUME PinsStand PROVE PinsStand'
  BY <1>1, <1>2, PinsStep DEF git, PinsStand
<1> QED BY <1>1, <1>2

LEMMA DevelopGit ==
  ASSUME GitInv, PinsStand, length' = length, NEW r \in Repo, Develop(r)
  PROVE  GitInv' /\ Grows /\ PinsStand' /\ Still
<1>0. PICK n : n = Len(commits[r]) + 1
  OBVIOUS
<1>1. PICK b \in {head[r]} \cup {n} : CommitsOn(r, b, tree[r])
  BY <1>0 DEF Develop, CommitsOn
<1>2. tree[r] \in Pins /\ Free(r) /\ tree' = tree
  BY DEF Develop, GitInv, GitTyped
<1>3. b \in Branch
  <2>1. head[r] \in Branch /\ Len(commits[r]) \in Nat /\ MaxCommits[length] \in Nat
    BY Sizes DEF GitInv, GitTyped, Sha
  <2>2. Len(commits[r]) < MaxCommits[length]  BY <1>1 DEF CommitsOn, NewCommit
  <2>3. n \in 0..MaxCommits[length]  BY <1>0, <2>1, <2>2
  <2> QED BY <1>1, <2>1, <2>3 DEF Branch
<1>4. /\ GitInv' /\ Grows
      /\ commits'[r][n].pins = tree[r]
      /\ \A q \in Repo : \A i \in 1..Len(commits'[q]) :
           i \in 1..Len(commits[q]) \/ (q = r /\ i = n)
  BY <1>0, <1>1, <1>2, <1>3, CommitStep
<1>5. \A h \in Repo : \A i \in 1..Len(commits'[h]) : Pinned(h, commits'[h][i].pins)
  BY <1>4 DEF PinsStand, Grows
<1>6. PinsStand'
  BY <1>2, <1>4, <1>5, PinsStep DEF PinsStand
<1>7. Still
  BY <1>1, <1>2 DEF CommitsOn, Still, Free, GitInv, GitTyped
<1> QED BY <1>4, <1>6, <1>7

LEMMA PublishGit ==
  ASSUME GitInv, PinsStand, length' = length, NEW r \in Repo, Publish(r)
  PROVE  GitInv' /\ Grows /\ PinsStand' /\ Still
<1>1. head[r] \in Branch /\ Tip(r) \in 1..Len(commits[r])  BY TipType
<1>2. /\ UNCHANGED <<commits, local, head, tree>>
      /\ origin[r][head[r]] = 0 \/ origin[r][head[r]] \in Anc(r, Tip(r))
      /\ origin' = [origin EXCEPT ![r] = [@ EXCEPT ![head[r]] = Tip(r)]]
  BY DEF Publish
<1>3. GitInv' /\ Grows
  BY <1>1, <1>2, PushStep
<1> QED BY <1>2, <1>3, PinsStep DEF PinsStand, Still

LEMMA SyncGit ==
  ASSUME GitInv, PinsStand, length' = length, NEW r \in Repo, Sync(r)
  PROVE  GitInv' /\ Grows /\ PinsStand' /\ Still
<1> DEFINE x == origin[r][0]
<1>1. /\ UNCHANGED <<commits, origin>> /\ Free(r)
      /\ local' = [local EXCEPT ![r] = [@ EXCEPT ![0] = x]]
      /\ head' = [head EXCEPT ![r] = 0]
      /\ tree' = [tree EXCEPT ![r] = commits[r][x].pins]
  BY DEF Sync
<1>2. /\ local \in [Repo -> [Branch -> 0..MaxCommits[length]]]
      /\ head \in [Repo -> Branch] /\ tree \in [Repo -> Pins] /\ commits[r] \in Seq(Commit)
      /\ 0 \in Branch
  BY Sizes DEF GitInv, GitTyped, Branch
<1>3. x \in 1..Len(commits[r]) /\ x \in 0..MaxCommits[length] /\ x \in 0..Len(commits[r]) /\ x # 0
  BY <1>2, OriginTips DEF GitInv, GitTyped, Mains
<1> HIDE DEF x
<1>4. commits[r][x].pins \in Pins
  <2>1. commits[r][x] \in Commit  BY <1>2, <1>3, ElementOfSeq
  <2> QED BY <2>1 DEF Commit
<1>5. /\ local' \in [Repo -> [Branch -> 0..MaxCommits[length]]]
      /\ \A q \in Repo, c \in Branch : local'[q][c] = IF q = r /\ c = 0 THEN x ELSE local[q][c]
      /\ \A q \in Repo : q # r => local'[q] = local[q]
  BY <1>1, <1>2, <1>3, Update2
<1>6. /\ head' \in [Repo -> Branch] /\ tree' \in [Repo -> Pins]
      /\ \A q \in Repo : q # r => head'[q] = head[q] /\ tree'[q] = tree[q]
      /\ head'[r] = 0 /\ tree'[r] = commits[r][x].pins
  BY <1>1, <1>2, <1>4
<1>7. \A q \in Repo : local'[q][head'[q]] # 0
  BY <1>2, <1>3, <1>5, <1>6 DEF GitInv, GitTyped
<1>8. \A q \in Repo, c \in Branch : /\ local'[q][c] \in 0..Len(commits[q])
                                    /\ local[q][c] # 0 => local'[q][c] # 0
  BY <1>3, <1>5 DEF GitInv, GitTyped
<1>9. GitInv' /\ Grows
  BY <1>1, <1>5, <1>6, <1>7, <1>8, CheckoutStep
<1>10. \A h \in Repo : Pinned(h, tree'[h])
  BY <1>3, <1>6 DEF PinsStand
<1>11. PinsStand'
  BY <1>1, <1>9, <1>10, PinsStep DEF PinsStand
<1>12. Still
  <2>1. cmd.h = r => pc \in Ended  BY <1>1 DEF Free
  <2> QED BY <2>1, <1>1, <1>2 DEF Still
<1> QED BY <1>9, <1>11, <1>12

(* git checkout of a branch: its files become the tree.                    *)
LEMMA BranchCheckout ==
  ASSUME GitInv, PinsStand, length' = length, NEW r \in Repo, NEW b \in Branch,
         local[r][b] # 0, UNCHANGED <<commits, origin, local>>,
         head' = [head EXCEPT ![r] = b],
         tree' = [tree EXCEPT ![r] = commits[r][local[r][b]].pins]
  PROVE  GitInv' /\ Grows /\ PinsStand'
<1> DEFINE x == local[r][b]
<1>1. /\ head \in [Repo -> Branch] /\ tree \in [Repo -> Pins] /\ commits[r] \in Seq(Commit)
  BY DEF GitInv, GitTyped
<1>2. x \in 1..Len(commits[r])
  <2>1. x \in 0..Len(commits[r]) /\ Len(commits[r]) \in Sha  BY DEF GitInv, GitTyped
  <2> QED BY <2>1 DEF Sha
<1>3. commits[r][x].pins \in Pins
  <2>1. commits[r][x] \in Commit  BY <1>1, <1>2, ElementOfSeq
  <2> QED BY <2>1 DEF Commit
<1>4. /\ head' \in [Repo -> Branch] /\ tree' \in [Repo -> Pins]
      /\ \A q \in Repo : q # r => head'[q] = head[q] /\ tree'[q] = tree[q]
      /\ head'[r] = b /\ tree'[r] = commits[r][x].pins
  BY <1>1, <1>3
<1>5. \A q \in Repo : local'[q][head'[q]] # 0
  BY <1>4 DEF GitInv, GitTyped
<1>6. GitInv' /\ Grows
  BY <1>4, <1>5, CheckoutStep DEF GitInv, GitTyped
<1>7. \A h \in Repo : Pinned(h, tree'[h])
  BY <1>2, <1>4 DEF PinsStand
<1>8. PinsStand'
  BY <1>6, <1>7, PinsStep DEF PinsStand
<1> QED BY <1>6, <1>8

LEMMA CheckoutGit ==
  ASSUME GitInv, PinsStand, length' = length, NEW r \in Repo, NEW b \in Branch, Checkout(r, b)
  PROVE  GitInv' /\ Grows /\ PinsStand' /\ Still
<1>1. GitInv' /\ Grows /\ PinsStand'
  BY BranchCheckout DEF Checkout
<1>2. Still
  <2>1. cmd.h = r => pc \in Ended  BY DEF Checkout, Free
  <2> QED BY <2>1 DEF Still, Checkout, GitInv, GitTyped
<1> QED BY <1>1, <1>2

LEMMA MergeGit ==
  ASSUME GitInv, PinsStand, length' = length, NEW r \in Repo, NEW b \in Branch,
         NEW squash \in BOOLEAN, Merge(r, b, squash)
  PROVE  GitInv' /\ Grows /\ PinsStand' /\ Still
<1>1. /\ GitInv' /\ Grows
      /\ UNCHANGED <<local, head, tree>>
      /\ \A h \in Repo : \A i \in 1..Len(commits'[h]) : Pinned(h, commits'[h][i].pins)
  BY MergeStep
<1>2. PinsStand'
  BY <1>1, PinsStep DEF PinsStand
<1> QED BY <1>1, <1>2 DEF Still

LEMMA PrsTyped ==
  ASSUME CommandTyped, length' = length, NEW r \in Repo,
         \/ UNCHANGED prs
         \/ \E b \in Branch : prs' = [prs EXCEPT ![r] = [i \in DOMAIN @ |->
              [branch |-> @[i].branch, merged |-> @[i].merged \/ @[i].branch = b]]]
  PROVE  /\ prs' \in [Repo -> Seq([branch : Branch, merged : BOOLEAN])]
         /\ \A q \in Repo : Len(prs'[q]) = Len(prs[q])
<1> DEFINE P == [branch : Branch, merged : BOOLEAN]
<1>1. prs \in [Repo -> Seq(P)]  BY DEF CommandTyped
<1>2. CASE UNCHANGED prs  BY <1>1, <1>2
<1>3. ASSUME NEW b \in Branch,
             prs' = [prs EXCEPT ![r] = [i \in DOMAIN @ |->
               [branch |-> @[i].branch, merged |-> @[i].merged \/ @[i].branch = b]]]
      PROVE  prs' \in [Repo -> Seq(P)] /\ \A q \in Repo : Len(prs'[q]) = Len(prs[q])
  <2> DEFINE s == prs[r]
             u == [i \in DOMAIN s |->
                    [branch |-> s[i].branch, merged |-> s[i].merged \/ s[i].branch = b]]
  <2>1. s \in Seq(P)  BY <1>1
  <2>2. Len(s) \in Nat /\ DOMAIN s = 1..Len(s)  BY <2>1, LenProperties
  <2>3. ASSUME NEW i \in 1..Len(s)
        PROVE  [branch |-> s[i].branch, merged |-> s[i].merged \/ s[i].branch = b] \in P
    <3>1. s[i] \in P  BY <2>1, ElementOfSeq
    <3>2. s[i].branch \in Branch  BY <3>1
    <3>3. (s[i].merged \/ s[i].branch = b) \in BOOLEAN  OBVIOUS
    <3> QED BY <3>2, <3>3
  <2>4. u \in [1..Len(s) -> P]  BY <2>2, <2>3
  <2>5. u \in Seq(P) /\ Len(u) = Len(s)
    <3> HIDE DEF u, s, P
    <3>1. u \in Seq(P)  BY <2>2, <2>4, SeqDef
    <3>2. DOMAIN u = 1..Len(s)  BY <2>4
    <3>3. Len(u) = Len(s)  BY <2>2, <3>1, <3>2, LenProperties, SMT
    <3> QED BY <3>1, <3>3
  <2>6. prs' = [prs EXCEPT ![r] = u]  BY <1>3
  <2> HIDE DEF u, P
  <2> QED BY <1>1, <2>5, <2>6
<1> QED BY <1>2, <1>3

(* What one of the other people's steps leaves of the command.             *)
LEMMA OthersInv ==
  ASSUME ChainInv, length' = length, GitInv', Grows, PinsStand', Still, Others,
         prs' \in [Repo -> Seq([branch : Branch, merged : BOOLEAN])],
         \A q \in Repo : Len(prs'[q]) = Len(prs[q])
  PROVE  ChainInv' /\ Grows
<1>1. /\ Repo' = Repo /\ Branch' = Branch /\ Hop' = Hop /\ Job' = Job /\ Ended' = Ended
  BY DEF Repo, Branch, Hop, Job, Ended, Sha, Pins
<1>2. /\ quiet' = FALSE /\ moves' = moves + 1 /\ moves < MaxMoves[length]
      /\ record' = record /\ job' = job /\ todo' = todo /\ changed' = changed
      /\ pc \in Ended => pc' = "idle" /\ cmd' = NoCmd
      /\ pc \notin Ended => pc' = pc /\ cmd' = cmd
  BY DEF Others
<1>3. GitInv /\ PinsStand /\ CommandTyped /\ length \in Lengths  BY DEF ChainInv, GitInv
<1>4. /\ cmd \in [op : {"bump", "reconcile"}, all : BOOLEAN, h : Hop, push : BOOLEAN, pr : BOOLEAN]
      /\ cmd.h \in Hop /\ Hop \subseteq Repo /\ 2 \in Hop
  BY <1>3, Sizes DEF CommandTyped, Hop, Repo
<1>5. CommandTyped'
  <2>1. moves' \in 0..MaxMoves[length]
    <3>1. moves \in 0..MaxMoves[length] /\ MaxMoves[length] \in Nat  BY <1>3, Sizes DEF CommandTyped
    <3> QED BY <1>2, <3>1
  <2>2. cmd' \in [op : {"bump", "reconcile"}, all : BOOLEAN, h : Hop, push : BOOLEAN, pr : BOOLEAN]
    <3>1. NoCmd \in [op : {"bump", "reconcile"}, all : BOOLEAN, h : Hop, push : BOOLEAN, pr : BOOLEAN]
      BY <1>4 DEF NoCmd
    <3> QED BY <1>2, <1>4, <3>1
  <2>3. pc' \in Ended \cup {"resolve", "pin", "cases", "test", "push", "record", "save"}
    BY <1>2, <1>3 DEF CommandTyped, Ended
  <2> QED BY <1>1, <1>2, <1>3, <2>1, <2>2, <2>3 DEF CommandTyped
<1>6. Recorded'
  <2>1. \A r \in Repo : record[r].branch \in Branch  BY <1>3 DEF CommandTyped
  <2> QED BY <1>1, <1>2, <2>1 DEF ChainInv, Recorded, Grows
<1>7. PrRoom'
  <2>1. \A r \in Repo : Len(prs'[r]) = Len(prs[r])  OBVIOUS
  <2> QED BY <1>1, <1>2, <1>4, <2>1 DEF ChainInv, PrRoom, Ended
<1>8. ASSUME pc' \notin Ended
      PROVE  /\ pc' = pc /\ cmd' = cmd
             /\ tree'[cmd.h] = tree[cmd.h] /\ Tip(cmd.h)' = Tip(cmd.h)
             /\ commits'[cmd.h][Tip(cmd.h)] = commits[cmd.h][Tip(cmd.h)]
  <2>1. pc' = pc /\ cmd' = cmd /\ pc \notin Ended  BY <1>2, <1>8 DEF Ended
  <2>2. tree'[cmd.h] = tree[cmd.h] /\ Tip(cmd.h)' = Tip(cmd.h)
    BY <2>1 DEF Still, Tip
  <2>3. Tip(cmd.h) \in 1..Len(commits[cmd.h])  BY <1>3, <1>4, TipType
  <2> QED BY <1>4, <2>1, <2>2, <2>3 DEF Grows
<1>9. \A d \in 1..(cmd.h - 1) : \A c : /\ OnOrigin(d, c) => OnOrigin(d, c)'
                                       /\ Reachable(d, c) => Reachable(d, c)'
  BY <1>3, <1>4, Below, Carried DEF GitInv
<1>10. JobRead'
  <2> SUFFICES ASSUME pc' \in {"pin", "cases", "test"} PROVE JobRead'
    BY DEF JobRead
  <2>1. pc' \notin Ended  BY DEF Ended
  <2>2. pc' = pc /\ cmd' = cmd /\ tree'[cmd.h] = tree[cmd.h]  BY <1>8, <2>1
  <2> QED BY <1>2, <1>9, <2>2 DEF ChainInv, JobRead, Fetched, Written
<1>11. TreeKept'
  <2> SUFFICES ASSUME pc' \in {"pin", "cases"} PROVE TreeKept'
    BY DEF TreeKept
  <2>1. pc' \notin Ended  BY DEF Ended
  <2> QED BY <1>2, <1>8, <2>1 DEF ChainInv, TreeKept, Dirty
<1>12. HopSettled'
  <2> SUFFICES ASSUME pc' \in {"push", "record", "save"} PROVE HopSettled'
    BY DEF HopSettled
  <2>1. pc' \notin Ended  BY DEF Ended
  <2>2. Settled(cmd.h)  BY <1>8, <2>1 DEF ChainInv, HopSettled
  <2>3. Settled(cmd.h)'  BY <1>2, <1>8, <1>9, <2>1, <2>2 DEF Settled
  <2> QED BY <2>3 DEF HopSettled
<1>13. Walked'
  BY <1>2 DEF Walked, Ended
<1> QED BY <1>5, <1>6, <1>7, <1>10, <1>11, <1>12, <1>13 DEF ChainInv

LEMMA EnvironmentInv ==
  ASSUME ChainInv, length' = length, Environment PROVE ChainInv' /\ Grows
<1>1. GitInv /\ PinsStand /\ CommandTyped  BY DEF ChainInv
<1>2. PICK r \in Repo :
        \/ Develop(r) \/ Publish(r) \/ Sync(r)
        \/ \E b \in Branch : Checkout(r, b) \/ Merge(r, b, TRUE) \/ Merge(r, b, FALSE)
  BY DEF Environment
<1>3. GitInv' /\ Grows /\ PinsStand' /\ Still
  BY <1>1, <1>2, DevelopGit, PublishGit, SyncGit, CheckoutGit, MergeGit
<1>4. Others
  BY <1>2 DEF Develop, Publish, Sync, Checkout, Merge
<1>5. /\ prs' \in [Repo -> Seq([branch : Branch, merged : BOOLEAN])]
      /\ \A q \in Repo : Len(prs'[q]) = Len(prs[q])
  <2>1. \/ UNCHANGED prs
        \/ \E b \in Branch : prs' = [prs EXCEPT ![r] = [i \in DOMAIN @ |->
             [branch |-> @[i].branch, merged |-> @[i].merged \/ @[i].branch = b]]]
    BY <1>2 DEF Develop, Publish, Sync, Checkout, Merge
  <2> QED BY <1>1, <2>1, PrsTyped
<1> QED BY <1>3, <1>4, <1>5, OthersInv

-----------------------------------------------------------------------------
(* The steps of the commands.                                              *)

(* A command works in the repository of its hop.                           *)
OnlyHop(h) == \A r \in Repo : r # h => head'[r] = head[r] /\ local'[r] = local[r]

LEMMA HopType ==
  ASSUME ChainInv
  PROVE  /\ cmd.h \in Hop /\ cmd.h \in Repo /\ Hop \subseteq Repo /\ length \in Lengths
         /\ GitInv /\ PinsStand /\ CommandTyped /\ length \in Nat
         /\ cmd \in [op : {"bump", "reconcile"}, all : BOOLEAN, h : Hop, push : BOOLEAN, pr : BOOLEAN]
<1>1. GitInv /\ PinsStand /\ CommandTyped /\ length \in Lengths  BY DEF ChainInv, GitInv
<1>2. Hop \subseteq Repo /\ length \in Nat  BY <1>1, Sizes DEF Hop, Repo
<1> QED BY <1>1, <1>2 DEF CommandTyped

LEMMA SetsKept ==
  ASSUME length' = length
  PROVE  /\ Repo' = Repo /\ Branch' = Branch /\ Hop' = Hop /\ Job' = Job /\ Ended' = Ended
         /\ Sha' = Sha /\ Pins' = Pins
BY DEF Repo, Branch, Hop, Job, Ended, Sha, Pins

LEMMA TipKept ==
  ASSUME GitInv, length' = length, Grows, NEW r \in Repo, head'[r] = head[r], local'[r] = local[r]
  PROVE  /\ Tip(r)' = Tip(r)
         /\ commits'[r][Tip(r)] = commits[r][Tip(r)]
<1>1. Tip(r) \in 1..Len(commits[r])  BY TipType
<1> QED BY <1>1 DEF Tip, Grows

(* What has been read stays so under a step on the hop's repository.       *)
LEMMA FetchedStep ==
  ASSUME GitInv, length' = length, Grows, NEW h \in Repo, OnlyHop(h),
         UNCHANGED <<cmd, job, quiet>>, Fetched(h)
  PROVE  Fetched(h)'
<1> SUFFICES ASSUME NEW d \in 1..(h - 1)
             PROVE  /\ OnOrigin(d, job.shas[d])'
                    /\ cmd.op = "reconcile" => Reachable(d, job.shas[d])'
                    /\ cmd.op = "bump" /\ quiet => job.shas[d] = Tip(d)'
  BY DEF Fetched
<1>1. d \in Repo /\ d # h  BY Below DEF GitInv
<1>2. /\ OnOrigin(d, job.shas[d])
      /\ cmd.op = "reconcile" => Reachable(d, job.shas[d])
      /\ cmd.op = "bump" /\ quiet => job.shas[d] = Tip(d)
  BY DEF Fetched
<1>3. PICK c : c = job.shas[d]  OBVIOUS
<1>4. OnOrigin(d, c)' /\ (Reachable(d, c) => Reachable(d, c)')
  BY <1>1, <1>2, <1>3, Carried DEF GitInv
<1>5. Tip(d)' = Tip(d)  BY <1>1, TipKept DEF OnlyHop
<1>6. job' = job  OBVIOUS
<1> QED BY <1>2, <1>3, <1>4, <1>5, <1>6 DEF OnOrigin, Reachable

LEMMA WalkedStep ==
  ASSUME ChainInv, length' = length, Grows, OnlyHop(cmd.h), UNCHANGED <<cmd, quiet>>,
         pc \notin Ended, pc' \notin Ended
  PROVE  Walked'
<1>0. Hop' = Hop /\ pc # "ok" /\ pc' # "ok" /\ pc \notin {"idle", "gate", "error"}
  BY SetsKept DEF Ended
<1> SUFFICES ASSUME cmd.op = "bump", cmd.all, quiet, NEW h \in Hop, h < cmd.h,
                    NEW d \in 1..(h - 1)
             PROVE  commits'[h][Tip(h)'].pins[d] = Tip(d)'
  BY <1>0 DEF Walked
<1>1. commits[h][Tip(h)].pins[d] = Tip(d)
  BY <1>0 DEF ChainInv, Walked
<1>2. h \in Repo /\ h # cmd.h  BY HopType DEF Hop
<1>3. d \in Repo /\ d # cmd.h
  <2>1. d \in Repo /\ d < h  BY <1>2, Below, HopType
  <2> QED BY <2>1, HopType DEF Hop, Repo
<1>4. Tip(h)' = Tip(h) /\ Tip(d)' = Tip(d) /\ commits'[h][Tip(h)] = commits[h][Tip(h)]
  BY <1>2, <1>3, TipKept, HopType DEF OnlyHop
<1> QED BY <1>1, <1>4

(* A step of a command that goes on.                                       *)
LEMMA RunningInv ==
  ASSUME ChainInv, length' = length, GitInv', Grows, PinsStand', OnlyHop(cmd.h),
         UNCHANGED <<cmd, quiet, moves, record>>,
         pc \notin Ended, pc' \in {"pin", "cases", "test", "push", "record", "save"},
         job' \in Job, todo' \subseteq Repo, changed' \in BOOLEAN,
         prs' \in [Repo -> Seq([branch : Branch, merged : BOOLEAN])],
         PrRoom', JobRead', TreeKept', HopSettled'
  PROVE  ChainInv' /\ Grows
<1>1. pc' \notin Ended /\ pc' \in Ended \cup {"resolve", "pin", "cases", "test", "push", "record", "save"}
  BY DEF Ended
<1>2. Walked'  BY <1>1, WalkedStep
<1>3. CommandTyped'
  BY <1>1, SetsKept, HopType DEF CommandTyped
<1>4. Recorded'
  <2>1. \A r \in Repo : record[r].branch \in Branch  BY HopType DEF CommandTyped
  <2> QED BY <2>1, SetsKept DEF ChainInv, Recorded, Grows
<1> QED BY <1>2, <1>3, <1>4 DEF ChainInv

(* A command that stops, at an error or a failed gate.                     *)
LEMMA StopInv ==
  ASSUME ChainInv, length' = length, GitInv', Grows, PinsStand',
         UNCHANGED <<prs, record, quiet, moves>>,
         NEW how \in {"gate", "error"}, Stop(how)
  PROVE  ChainInv' /\ Grows
<1>1. pc' = how /\ job' = NoJob /\ todo' = {} /\ changed' = FALSE /\ cmd' = cmd
  BY DEF Stop, Forget
<1>2. NoJob \in Job
  <2>1. NoPins \in Pins
    <3>1. 0 \in 0..MaxCommits[length]  BY Sizes, HopType
    <3> QED BY <3>1 DEF NoPins, Pins
  <2> QED BY <2>1 DEF NoJob, Job
<1>3. CommandTyped'
  BY <1>1, <1>2, SetsKept, HopType DEF CommandTyped, Ended
<1>4. Recorded'
  <2>1. \A r \in Repo : record[r].branch \in Branch  BY HopType DEF CommandTyped
  <2> QED BY <2>1, SetsKept DEF ChainInv, Recorded, Grows
<1>5. PrRoom' /\ JobRead' /\ TreeKept' /\ HopSettled' /\ Walked'
  BY <1>1 DEF PrRoom, JobRead, TreeKept, HopSettled, Walked, Ended
<1> QED BY <1>3, <1>4, <1>5 DEF ChainInv

LEMMA LastHop ==
  ASSUME length \in Nat, NEW h \in Hop
  PROVE  /\ h \in Int /\ h <= length
         /\ h < length => h + 1 \in Hop
         /\ ~(h < length) => h = length
BY DEF Hop

LEMMA NextCommand ==
  ASSUME NEW c \in [op : {"bump", "reconcile"}, all : BOOLEAN, h : Hop, push : BOOLEAN, pr : BOOLEAN],
         NEW h \in Hop, NEW e,
         e = [op |-> c.op, all |-> TRUE, h |-> h, push |-> c.push, pr |-> c.pr]
  PROVE  /\ e \in [op : {"bump", "reconcile"}, all : BOOLEAN, h : Hop, push : BOOLEAN, pr : BOOLEAN]
         /\ e.op = c.op /\ (e.pr <=> c.pr) /\ e.h = h
<1>1. c.op \in {"bump", "reconcile"} /\ c.push \in BOOLEAN /\ c.pr \in BOOLEAN
  OBVIOUS
<1> QED BY <1>1

(* A hop that is finished, and the next one of a chain.                    *)
LEMMA DoneInv ==
  ASSUME ChainInv, length' = length, UNCHANGED git, UNCHANGED <<prs, quiet, moves>>,
         record' \in [Repo -> [pr : 0..MaxPrs[length], branch : Branch]],
         \A r \in Repo : record'[r].pr # 0 => local[r][record'[r].branch] # 0,
         pc \notin Ended,
         cmd.op = "bump" /\ quiet =>
           \A d \in 1..(cmd.h - 1) : commits[cmd.h][Tip(cmd.h)].pins[d] = Tip(d),
         Done
  PROVE  ChainInv' /\ Grows
<1>1. GitInv' /\ PinsStand' /\ Grows  BY HopType, GitKept
<1>2. job' = NoJob /\ todo' = {} /\ changed' = FALSE
  BY DEF Done, Stop, Forget
<1>3. NoJob \in Job
  <2>1. NoPins \in Pins
    <3>1. 0 \in 0..MaxCommits[length]  BY Sizes, HopType
    <3> QED BY <3>1 DEF NoPins, Pins
  <2> QED BY <2>1 DEF NoJob, Job
<1>4. PICK h \in Hop : h = cmd.h  BY HopType
<1>5. \/ /\ pc' = "resolve" /\ cmd.all /\ h < length
         /\ cmd' = [op |-> cmd.op, all |-> TRUE, h |-> h + 1, push |-> cmd.push, pr |-> cmd.pr]
      \/ /\ pc' = "ok" /\ cmd' = cmd
         /\ cmd.all => h = length
  <2>1. CASE cmd.all /\ h < length  BY <2>1, <1>4 DEF Done
  <2>2. CASE ~(cmd.all /\ h < length)
    <3>1. pc' = "ok" /\ cmd' = cmd  BY <2>2, <1>4 DEF Done, Stop
    <3>2. ~(h < length) => h = length  BY HopType, LastHop
    <3> QED BY <3>1, <3>2, <2>2
  <2> QED BY <2>1, <2>2
<1>6. /\ cmd' \in [op : {"bump", "reconcile"}, all : BOOLEAN, h : Hop, push : BOOLEAN, pr : BOOLEAN]
      /\ cmd'.op = cmd.op /\ (cmd'.pr => cmd.pr) /\ (cmd'.all => cmd.all)
  <2>1. CASE pc' = "resolve"
    <3>1. h + 1 \in Hop  BY <1>5, <2>1, HopType, LastHop
    <3> QED BY <1>5, <2>1, <3>1, HopType, NextCommand
  <2>2. CASE pc' = "ok"
    BY <1>5, <2>2, HopType
  <2> QED BY <1>5, <2>1, <2>2
<1>7. CommandTyped'
  <2>3. pc' \in Ended \cup {"resolve", "pin", "cases", "test", "push", "record", "save"}
    BY <1>5 DEF Ended
  <2> QED BY <1>2, <1>3, <1>6, <2>3, SetsKept, HopType DEF CommandTyped
<1>8. Recorded'
  BY SetsKept DEF Recorded, git
<1>9. PrRoom'
  <2> SUFFICES ASSUME pc' \notin Ended, cmd'.pr, NEW r \in Hop, r > cmd'.h \/ r = cmd'.h
               PROVE  Len(prs[r]) < MaxPrs[length]
    BY <1>5, SetsKept DEF PrRoom
  <2>1. cmd'.h = h + 1 /\ cmd.pr  BY <1>5, <1>6 DEF Ended
  <2>2. r > h  BY <2>1, HopType DEF Hop
  <2> QED BY <1>4, <2>1, <2>2 DEF ChainInv, PrRoom
<1>10. JobRead' /\ TreeKept' /\ HopSettled'
  BY <1>5 DEF JobRead, TreeKept, HopSettled
<1>11. Walked'
  <2>1. cmd'.all /\ pc' = "ok" => cmd'.h = length
    BY <1>4, <1>5
  <2>2. ASSUME cmd'.op = "bump", cmd'.all, quiet', NEW g \in Hop,
               g < cmd'.h \/ (g = cmd'.h /\ pc' = "ok"), NEW d \in 1..(g - 1)
        PROVE  commits[g][Tip(g)].pins[d] = Tip(d)
    <3>1. cmd.op = "bump" /\ cmd.all /\ quiet  BY <1>6, <2>2
    <3>2. g < h \/ g = h
      <4>1. cmd'.h = h \/ cmd'.h = h + 1  BY <1>4, <1>5
      <4>2. g \in Int /\ h \in Int /\ (g < h + 1 => g < h \/ g = h)  BY HopType DEF Hop
      <4> QED BY <1>4, <1>5, <2>2, <4>1, <4>2
    <3>3. CASE g < h
      BY <1>4, <3>1, <3>3 DEF ChainInv, Walked, Ended
    <3>4. CASE g = h
      BY <1>4, <2>2, <3>1, <3>4
    <3> QED BY <3>2, <3>3, <3>4
  <2>3. \A g \in Repo : commits'[g] = commits[g] /\ Tip(g)' = Tip(g)
    BY DEF git, Tip
  <2>4. ASSUME NEW g \in Hop, NEW d \in 1..(g - 1) PROVE g \in Repo /\ d \in Repo
    BY <2>4, HopType, Below
  <2>5. \A g \in Hop : \A d \in 1..(g - 1) :
           commits[g][Tip(g)].pins[d] = Tip(d) => (commits[g][Tip(g)].pins[d] = Tip(d))'
    BY <2>3, <2>4
  <2> QED BY <2>1, <2>2, <2>5, SetsKept DEF Walked
<1> QED BY <1>1, <1>7, <1>8, <1>9, <1>10, <1>11 DEF ChainInv

LEMMA SettledStep ==
  ASSUME GitInv, length' = length, Grows, NEW h \in Repo, UNCHANGED <<head, local, cmd, quiet>>,
         Settled(h)
  PROVE  Settled(h)'
<1> SUFFICES ASSUME NEW d \in 1..(h - 1)
             PROVE  /\ cmd.op = "reconcile" => Reachable(d, commits[h][Tip(h)].pins[d])'
                    /\ cmd.op = "bump" /\ quiet => (commits[h][Tip(h)].pins[d] = Tip(d))'
  BY DEF Settled
<1>1. d \in Repo  BY Below DEF GitInv
<1>2. PICK p : p = commits[h][Tip(h)].pins[d]  OBVIOUS
<1>3. /\ Tip(h)' = Tip(h) /\ Tip(d)' = Tip(d)
      /\ commits'[h][Tip(h)] = commits[h][Tip(h)]
  BY <1>1, TipKept
<1>4. Reachable(d, p) => Reachable(d, p)'
  BY <1>1, Carried DEF GitInv
<1>5. /\ cmd.op = "reconcile" => Reachable(d, p)
      /\ cmd.op = "bump" /\ quiet => p = Tip(d)
  BY <1>2 DEF Settled
<1> QED BY <1>2, <1>3, <1>4, <1>5 DEF Reachable

(* A new branch starts at the commit checked out and leaves the tree alone. *)
LEMMA NewBranch ==
  ASSUME GitInv, PinsStand, length' = length, NEW h \in Repo, NEW b \in Branch,
         CheckoutNew(h, b), UNCHANGED <<commits, origin, tree>>
  PROVE  /\ GitInv' /\ Grows /\ PinsStand' /\ OnlyHop(h)
         /\ Tip(h)' = Tip(h)
<1>1. /\ Tip(h) \in 1..Len(commits[h]) /\ Tip(h) \in 1..MaxCommits[length]
  BY TipType
<1>2. PICK x : x = Tip(h)  OBVIOUS
<1>3. x \in 0..MaxCommits[length] /\ x \in 0..Len(commits[h]) /\ x # 0
  <2>1. Len(commits[h]) \in Nat /\ MaxCommits[length] \in Nat
    BY Sizes DEF GitInv, GitTyped, Sha
  <2> QED BY <1>1, <1>2, <2>1
<1>4. /\ local \in [Repo -> [Branch -> 0..MaxCommits[length]]] /\ head \in [Repo -> Branch]
      /\ local' = [local EXCEPT ![h] = [@ EXCEPT ![b] = x]]
      /\ head' = [head EXCEPT ![h] = b]
  BY <1>2 DEF CheckoutNew, GitInv, GitTyped
<1>5. /\ local' \in [Repo -> [Branch -> 0..MaxCommits[length]]]
      /\ \A q \in Repo, c \in Branch : local'[q][c] = IF q = h /\ c = b THEN x ELSE local[q][c]
      /\ \A q \in Repo : q # h => local'[q] = local[q]
  BY <1>3, <1>4, Update2
<1>6. /\ head' \in [Repo -> Branch] /\ head'[h] = b
      /\ \A q \in Repo : q # h => head'[q] = head[q]
  BY <1>4
<1>7. \A q \in Repo : local'[q][head'[q]] # 0
  BY <1>3, <1>5, <1>6 DEF GitInv, GitTyped
<1>8. \A q \in Repo, c \in Branch : /\ local'[q][c] \in 0..Len(commits[q])
                                    /\ local[q][c] # 0 => local'[q][c] # 0
  BY <1>3, <1>5 DEF GitInv, GitTyped
<1>9. tree' \in [Repo -> Pins]  BY DEF GitInv, GitTyped
<1>10. GitInv' /\ Grows
  BY <1>5, <1>6, <1>7, <1>8, <1>9, CheckoutStep
<1>11. PinsStand'
  BY <1>10, PinsStep DEF PinsStand
<1>12. OnlyHop(h)
  BY <1>5, <1>6 DEF OnlyHop
<1>13. Tip(h)' = Tip(h)
  BY <1>2, <1>5, <1>6 DEF Tip
<1> QED BY <1>10, <1>11, <1>12, <1>13

LEMMA StartInv ==
  ASSUME ChainInv, length' = length, NEW op \in {"bump", "reconcile"}, NEW all \in BOOLEAN,
         NEW h \in Hop, NEW push \in BOOLEAN, NEW pr \in BOOLEAN, Start(op, all, h, push, pr)
  PROVE  ChainInv' /\ Grows
<1>1. /\ UNCHANGED <<git, prs, record, job, todo, changed, moves>>
      /\ cmd' = [op |-> op, all |-> all, h |-> h, push |-> push, pr |-> pr]
      /\ pc' = "resolve" /\ quiet' = TRUE
      /\ all => h = 2
      /\ pr => \A r \in Hop : Len(prs[r]) < MaxPrs[length]
  BY DEF Start
<1>2. cmd'.h = h /\ (cmd'.pr <=> pr) /\ (cmd'.all <=> all)
  BY <1>1
<1>3. cmd' \in [op : {"bump", "reconcile"}, all : BOOLEAN, h : Hop, push : BOOLEAN, pr : BOOLEAN]
  BY <1>1
<1>4. GitInv' /\ Grows /\ PinsStand'  BY <1>1, HopType, GitKept
<1>5. CommandTyped'
  BY <1>1, <1>3, SetsKept, HopType DEF CommandTyped, Ended
<1>6. Recorded'
  BY <1>1, SetsKept DEF ChainInv, Recorded, git
<1>7. PrRoom'
  BY <1>1, <1>2, SetsKept DEF PrRoom, Ended
<1>8. JobRead' /\ TreeKept' /\ HopSettled'
  BY <1>1 DEF JobRead, TreeKept, HopSettled
<1>9. Walked'
  <2>1. \A g \in Hop : ~(g < 2)  BY DEF Hop
  <2>2. pc' # "ok"  BY <1>1
  <2> QED BY <1>1, <1>2, <2>1, <2>2, SetsKept DEF Walked
<1> QED BY <1>4, <1>5, <1>6, <1>7, <1>8, <1>9 DEF ChainInv

LEMMA ResolveInv == ASSUME ChainInv, length' = length, Resolve PROVE ChainInv' /\ Grows
<1>1. GitInv' /\ Grows /\ PinsStand' /\ UNCHANGED <<git, prs, record, quiet, moves>>
  BY HopType, GitKept DEF Resolve
<1>2. CASE pc' = "error"
  <2>1. Stop("error")  BY <1>2 DEF Resolve
  <2> QED BY <1>1, <2>1, StopInv
<1>3. CASE pc' # "error"
  <2>1. PICK h \in Hop : h = cmd.h  BY HopType
  <2> DEFINE shas == [d \in Repo |-> IF d < h THEN HeadSha(d) ELSE 0]
             resuming == head[h] = shas[Trigger(h)]
  <2>2. /\ pc = "resolve" /\ cmd.op = "bump" /\ cmd' = cmd
        /\ \A d \in 1..(h - 1) : Trusted(d)
        /\ Dirty(h) => resuming
        /\ job' = [shas |-> shas, resuming |-> resuming, dirty |-> Dirty(h)]
        /\ todo' = 1..(h - 1) /\ changed' = FALSE /\ pc' = "pin"
    BY <1>3, <2>1 DEF Resolve, Stop
  <2>3. job'.shas = shas /\ (job'.resuming <=> resuming) /\ (job'.dirty <=> Dirty(h))
    BY <2>2
  <2>4. \A d \in 1..(h - 1) : d \in Repo /\ d < h
    BY <2>1, HopType, Below
  <2>5. shas \in Pins
    <3>1. \A d \in Repo : HeadSha(d) \in 0..MaxCommits[length]
      <4>1. \A d \in Repo : Tip(d) \in 1..MaxCommits[length]  BY HopType, TipType
      <4> QED BY <4>1 DEF HeadSha
    <3>2. 0 \in 0..MaxCommits[length]  BY HopType, Sizes
    <3> QED BY <3>1, <3>2 DEF Pins
  <2>6. \A d \in 1..(h - 1) : shas[d] = Tip(d)
    BY <2>4 DEF HeadSha
  <2> HIDE DEF shas
  <2>7. resuming \in BOOLEAN /\ Dirty(h) \in BOOLEAN  BY DEF Dirty
  <2>8. job' \in Job  BY <2>2, <2>5, <2>7 DEF Job
  <2> HIDE DEF resuming
  <2>9. \A r \in Repo : commits'[r] = commits[r] /\ Tip(r)' = Tip(r) /\ tree'[r] = tree[r]
    BY <1>1 DEF git, Tip
  <2>10. h \in Repo  BY <2>1, HopType
  <2>11. Fetched(h)'
    <3> SUFFICES ASSUME NEW d \in 1..(h - 1)
                 PROVE OnOrigin(d, job.shas[d])' /\ (job.shas[d] = Tip(d))'
      BY <2>2 DEF Fetched
    <3>1. OnOrigin(d, Tip(d))  BY <2>2 DEF Trusted, HeadSha
    <3>2. job'.shas[d] = Tip(d)  BY <2>3, <2>6
    <3> QED BY <1>1, <2>4, <2>9, <3>1, <3>2, SetsKept DEF OnOrigin, Anc, git
  <2>12. JobRead'
    BY <2>1, <2>2, <2>11 DEF JobRead, Written
  <2>13. TreeKept'
    BY <2>1, <2>2, <2>3, <2>9, <2>10 DEF TreeKept, Dirty
  <2>14. PrRoom'
    BY <1>1, <2>2, SetsKept DEF ChainInv, PrRoom, Ended
  <2>15. HopSettled'
    BY <2>2 DEF HopSettled
  <2>16. OnlyHop(cmd.h) /\ todo' \subseteq Repo
    BY <1>1, <2>2, <2>4 DEF OnlyHop, git
  <2>17. pc \notin Ended  BY <2>2 DEF Ended
  <2>18. prs' \in [Repo -> Seq([branch : Branch, merged : BOOLEAN])]
    BY <1>1, HopType DEF CommandTyped
  <2> QED BY <1>1, <2>2, <2>8, <2>12, <2>13, <2>14, <2>15, <2>16, <2>17, <2>18, RunningInv
<1> QED BY <1>2, <1>3

(* Room for pull requests is used up by CreatePr alone.                    *)
LEMMA PrRoomStep ==
  ASSUME ChainInv, length' = length, UNCHANGED <<prs, cmd>>, pc \notin Ended, pc # "save",
         pc' \notin Ended, pc' # "save"
  PROVE  PrRoom' /\ prs' \in [Repo -> Seq([branch : Branch, merged : BOOLEAN])]
BY SetsKept, HopType DEF ChainInv, PrRoom, CommandTyped

LEMMA PinInv == ASSUME ChainInv, length' = length, NEW d \in Repo, Pin(d) PROVE ChainInv' /\ Grows
<1>1. PICK h \in Hop : h = cmd.h  BY HopType
<1>2. /\ pc = "pin" /\ d \in todo
      /\ tree' = [tree EXCEPT ![h] = [@ EXCEPT ![d] = job.shas[d]]]
      /\ changed' = (changed \/ tree[h][d] # job.shas[d])
      /\ todo' = todo \ {d}
      /\ pc' = IF todo = {d} THEN "cases" ELSE "pin"
      /\ UNCHANGED <<commits, local, origin, head, prs, record, cmd, job, quiet, moves>>
  BY <1>1 DEF Pin
<1>3. h \in Repo /\ tree \in [Repo -> Pins]  BY HopType DEF GitInv, GitTyped
<1>4. job.shas \in [Repo -> 0..MaxCommits[length]] /\ tree[h] \in [Repo -> 0..MaxCommits[length]]
  BY <1>3, HopType DEF CommandTyped, Job, Pins
<1>5. /\ tree' \in [Repo -> Pins]
      /\ \A q \in Repo : q # h => tree'[q] = tree[q]
      /\ \A e \in Repo : tree'[h][e] = IF e = d THEN job.shas[d] ELSE tree[h][e]
  <2>1. PICK p : p = job.shas[d]  OBVIOUS
  <2>2. p \in 0..MaxCommits[length]  BY <1>4, <2>1
  <2>3. tree \in [Repo -> [Repo -> 0..MaxCommits[length]]]  BY <1>3 DEF Pins
  <2> QED BY <1>2, <1>3, <2>1, <2>2, <2>3, Update2 DEF Pins
<1>6. GitInv' /\ Grows
  BY <1>2, <1>5, HopType, CheckoutStep DEF GitInv, GitTyped
<1>7. /\ todo \subseteq 1..(h - 1) /\ Fetched(h) /\ Written(h)
  BY <1>1, <1>2 DEF ChainInv, JobRead
<1>8. \A e \in 1..(h - 1) : e \in Repo  BY <1>3, HopType, Below
<1>9. PinsStand'
  <2>1. Pinned(h, tree'[h])
    BY <1>3, <1>5, <1>7, <1>8, HopType DEF Pinned, PinsStand, Fetched
  <2>2. \A q \in Repo : Pinned(q, tree'[q])
    BY <1>5, <2>1, HopType DEF PinsStand
  <2> QED BY <1>2, <1>6, <2>2, HopType, PinsStep DEF PinsStand
<1>10. OnlyHop(h)  BY <1>2 DEF OnlyHop
<1>11. Fetched(h)'
  BY <1>2, <1>3, <1>6, <1>7, <1>10, HopType, FetchedStep
<1>12. Written(h)'
  BY <1>2, <1>5, <1>7, <1>8 DEF Written
<1>13. JobRead'
  BY <1>1, <1>2, <1>7, <1>11, <1>12 DEF JobRead
<1>14. TreeKept'
  <2>1. ASSUME ~changed', ~job.dirty PROVE ~Dirty(h)'
    <3>1. ~changed /\ tree[h][d] = job.shas[d]  BY <1>2, <2>1
    <3>2. ~Dirty(h)  BY <1>1, <1>2, <2>1, <3>1 DEF ChainInv, TreeKept
    <3>3. tree'[h] = tree[h]
      <4>1. tree'[h] \in [Repo -> 0..MaxCommits[length]]  BY <1>3, <1>5 DEF Pins
      <4> QED BY <1>4, <1>5, <3>1, <4>1
    <3> QED BY <1>2, <3>2, <3>3 DEF Dirty, Tip
  <2> QED BY <1>1, <1>2, <2>1 DEF ChainInv, TreeKept
<1>15. pc \notin Ended /\ pc' \in {"pin", "cases"} /\ pc' \notin Ended /\ pc # "save" /\ pc' # "save"
  BY <1>2 DEF Ended
<1>16. PrRoom' /\ prs' \in [Repo -> Seq([branch : Branch, merged : BOOLEAN])]
  BY <1>2, <1>15, PrRoomStep
<1>17. HopSettled'  BY <1>15 DEF HopSettled
<1>18. job' \in Job /\ todo' \subseteq Repo /\ changed' \in BOOLEAN
  BY <1>2, HopType DEF CommandTyped
<1> QED BY <1>1, <1>2, <1>6, <1>9, <1>10, <1>13, <1>14, <1>15, <1>16, <1>17, <1>18, RunningInv

(* With every pin written, the tree holds what was read.                   *)
LEMMA TreeHolds ==
  ASSUME ChainInv, pc \in {"cases", "test"}
  PROVE  /\ todo = {} /\ Fetched(cmd.h)
         /\ \A d \in 1..(cmd.h - 1) : tree[cmd.h][d] = job.shas[d]
BY DEF ChainInv, JobRead, Written

(* A clean tree is its commit.                                             *)
LEMMA CleanSettles ==
  ASSUME ChainInv, pc = "cases", cmd.op = "bump", ~changed, ~job.dirty
  PROVE  Settled(cmd.h)
<1>1. tree[cmd.h] = commits[cmd.h][Tip(cmd.h)].pins
  BY DEF ChainInv, TreeKept, Dirty
<1> QED BY <1>1, TreeHolds DEF Settled, Fetched

LEMMA AlreadyCurrentInv == ASSUME ChainInv, length' = length, AlreadyCurrent PROVE ChainInv' /\ Grows
<1>1. /\ pc = "cases" /\ cmd.op = "bump" /\ ~job.resuming /\ ~changed /\ Done
      /\ UNCHANGED <<git, prs, record, quiet, moves>>
  BY DEF AlreadyCurrent
<1>2. Settled(cmd.h)  BY <1>1, CleanSettles DEF ChainInv, TreeKept
<1>3. record' \in [Repo -> [pr : 0..MaxPrs[length], branch : Branch]]
  BY <1>1, HopType DEF CommandTyped
<1>4. \A r \in Repo : record'[r].pr # 0 => local[r][record'[r].branch] # 0
  BY <1>1 DEF ChainInv, Recorded
<1>5. pc \notin Ended  BY <1>1 DEF Ended
<1> QED BY <1>1, <1>2, <1>3, <1>4, <1>5, DoneInv DEF Settled

LEMMA FreshBranchInv == ASSUME ChainInv, length' = length, FreshBranch PROVE ChainInv' /\ Grows
<1>1. PICK h \in Hop : h = cmd.h  BY HopType
<1>2. /\ pc = "cases" /\ cmd.op = "bump"
      /\ UNCHANGED <<commits, origin, tree, prs, record, quiet, moves>>
  BY DEF FreshBranch
<1>3. CASE local[cmd.h][BranchName] = 0
  <2>1. CheckoutNew(h, BranchName) /\ Continue("test")
    BY <1>1, <1>3 DEF FreshBranch
  <2>2. PICK b : b = BranchName  OBVIOUS
  <2>3. b \in Branch
    <3>1. Trigger(h) \in Repo  BY HopType DEF Trigger, Hop, Repo
    <3>2. job.shas \in Pins  BY HopType DEF CommandTyped, Job
    <3> QED BY <1>1, <2>2, <3>1, <3>2 DEF BranchName, Pins, Branch
  <2>4. GitInv' /\ Grows /\ PinsStand' /\ OnlyHop(h) /\ Tip(h)' = Tip(h)
    BY <1>1, <1>2, <2>1, <2>2, <2>3, HopType, NewBranch
  <2>5. pc' = "test" /\ UNCHANGED <<cmd, job, todo, changed>>  BY <2>1 DEF Continue
  <2>6. JobRead'
    <3>1. Fetched(h)'
      BY <1>1, <1>2, <2>4, <2>5, TreeHolds, HopType, FetchedStep
    <3>2. Written(h)'
      BY <1>1, <1>2, <2>5, TreeHolds DEF Written
    <3> QED BY <1>1, <1>2, <2>5, <3>1, <3>2, TreeHolds DEF JobRead
  <2>7. TreeKept' /\ HopSettled'  BY <2>5 DEF TreeKept, HopSettled
  <2>8. pc \notin Ended /\ pc' \notin Ended /\ pc # "save" /\ pc' # "save"
    BY <1>2, <2>5 DEF Ended
  <2>9. PrRoom' /\ prs' \in [Repo -> Seq([branch : Branch, merged : BOOLEAN])]
    BY <1>2, <2>5, <2>8, PrRoomStep
  <2>10. job' \in Job /\ todo' \subseteq Repo /\ changed' \in BOOLEAN
    BY <2>5, HopType DEF CommandTyped
  <2> QED BY <1>1, <1>2, <2>4, <2>5, <2>6, <2>7, <2>8, <2>9, <2>10, RunningInv
<1>4. CASE local[cmd.h][BranchName] # 0
  <2>1. Stop("error") /\ UNCHANGED git
    BY <1>2, <1>4 DEF FreshBranch, git
  <2> QED BY <1>2, <2>1, HopType, GitKept, StopInv
<1> QED BY <1>3, <1>4

LEMMA ResumeInv == ASSUME ChainInv, length' = length, Resume PROVE ChainInv' /\ Grows
<1>1. PICK h \in Hop : h = cmd.h  BY HopType
<1>2. /\ pc = "cases" /\ cmd.op = "bump"
      /\ UNCHANGED <<git, prs, record, quiet, moves, cmd, job, todo, changed>>
      /\ pc' = IF job.dirty \/ changed THEN "test" ELSE "push"
  BY DEF Resume, Continue
<1>3. GitInv' /\ Grows /\ PinsStand' /\ OnlyHop(h)
  BY <1>2, HopType, GitKept DEF OnlyHop, git
<1>4. JobRead'
  <2>1. Fetched(h)'
    BY <1>1, <1>2, <1>3, TreeHolds, HopType, FetchedStep
  <2>2. Written(h)'
    BY <1>1, <1>2, TreeHolds DEF Written, git
  <2> QED BY <1>1, <1>2, <2>1, <2>2, TreeHolds DEF JobRead
<1>5. HopSettled'
  <2> SUFFICES ASSUME pc' = "push" PROVE Settled(h)'
    BY <1>1, <1>2 DEF HopSettled
  <2>1. Settled(h)  BY <1>1, <1>2, CleanSettles
  <2> QED BY <1>1, <1>2, <1>3, <2>1, HopType, SettledStep DEF git
<1>6. TreeKept'  BY <1>2 DEF TreeKept
<1>7. pc \notin Ended /\ pc' \notin Ended /\ pc # "save" /\ pc' # "save" /\ pc' \in {"test", "push"}
  BY <1>2 DEF Ended
<1>8. PrRoom' /\ prs' \in [Repo -> Seq([branch : Branch, merged : BOOLEAN])]
  BY <1>2, <1>7, PrRoomStep
<1>9. job' \in Job /\ todo' \subseteq Repo /\ changed' \in BOOLEAN
  BY <1>2, HopType DEF CommandTyped
<1> QED BY <1>1, <1>2, <1>3, <1>4, <1>5, <1>6, <1>7, <1>8, <1>9, RunningInv

LEMMA FailInv == ASSUME ChainInv, length' = length, GateFails \/ Die PROVE ChainInv' /\ Grows
<1>1. /\ UNCHANGED <<git, prs, record, quiet, moves>>
      /\ Stop("error") \/ Stop("gate")
  BY DEF GateFails, Die
<1> QED BY <1>1, HopType, GitKept, StopInv

LEMMA GatePassesInv == ASSUME ChainInv, length' = length, GatePasses PROVE ChainInv' /\ Grows
<1>1. PICK h \in Hop : h = cmd.h  BY HopType
<1>2. /\ pc = "test" /\ pc' = "push"
      /\ NewCommit(h, Anc(h, Tip(h)), tree[h])
      /\ local' = [local EXCEPT ![h] = [@ EXCEPT ![head[h]] = Len(commits[h]) + 1]]
      /\ UNCHANGED <<cmd, job, todo, changed, origin, head, tree, prs, record, quiet, moves>>
  BY <1>1 DEF GatePasses, Continue
<1>3. h \in Repo /\ head \in [Repo -> Branch] /\ tree[h] \in Pins /\ head[h] \in Branch
      /\ local \in [Repo -> [Branch -> 0..MaxCommits[length]]]
  BY HopType DEF GitInv, GitTyped
<1>4. PICK n : n = Len(commits[h]) + 1  OBVIOUS
<1>5. CommitsOn(h, head[h], tree[h])
  <2>1. head' = [head EXCEPT ![h] = head[h]]  BY <1>2, <1>3
  <2> QED BY <1>2, <2>1 DEF CommitsOn
<1>6. /\ GitInv' /\ Grows
      /\ commits'[h][n].pins = tree[h]
      /\ \A q \in Repo : \A i \in 1..Len(commits'[q]) :
           i \in 1..Len(commits[q]) \/ (q = h /\ i = n)
  BY <1>3, <1>4, <1>5, HopType, CommitStep
<1>7. PinsStand'
  <2>1. \A q \in Repo : \A i \in 1..Len(commits'[q]) : Pinned(q, commits'[q][i].pins)
    BY <1>6, HopType DEF PinsStand, Grows
  <2> QED BY <1>2, <1>6, <2>1, HopType, PinsStep DEF PinsStand
<1>8. OnlyHop(h)  BY <1>2, <1>3 DEF OnlyHop
<1>9. Tip(h)' = n  BY <1>2, <1>3, <1>4 DEF Tip
<1>10. Fetched(h)'
  BY <1>1, <1>2, <1>3, <1>6, <1>8, TreeHolds, HopType, FetchedStep
<1>11. HopSettled'
  <2>1. \A d \in 1..(h - 1) : commits'[h][Tip(h)'].pins[d] = job'.shas[d]
    BY <1>1, <1>2, <1>6, <1>9, TreeHolds
  <2>2. Settled(h)'  BY <1>10, <2>1 DEF Fetched, Settled
  <2> QED BY <1>1, <1>2, <2>2 DEF HopSettled
<1>12. JobRead' /\ TreeKept'  BY <1>2 DEF JobRead, TreeKept
<1>13. pc \notin Ended /\ pc' \notin Ended /\ pc # "save" /\ pc' # "save"
  BY <1>2 DEF Ended
<1>14. PrRoom' /\ prs' \in [Repo -> Seq([branch : Branch, merged : BOOLEAN])]
  BY <1>2, <1>13, PrRoomStep
<1>15. job' \in Job /\ todo' \subseteq Repo /\ changed' \in BOOLEAN
  BY <1>2, HopType DEF CommandTyped
<1> QED BY <1>1, <1>2, <1>6, <1>7, <1>8, <1>11, <1>12, <1>13, <1>14, <1>15, RunningInv

LEMMA PushInv == ASSUME ChainInv, length' = length, Push PROVE ChainInv' /\ Grows
<1>1. PICK h \in Hop : h = cmd.h  BY HopType
<1>2. /\ pc = "push" /\ pc \notin Ended /\ Settled(h)
      /\ UNCHANGED <<commits, local, head, tree, prs, record, quiet, moves>>
  BY <1>1 DEF Push, Ended, ChainInv, HopSettled
<1>3. CASE Done /\ UNCHANGED origin
  <2>1. record' \in [Repo -> [pr : 0..MaxPrs[length], branch : Branch]]
    BY <1>2, HopType DEF CommandTyped
  <2>2. \A r \in Repo : record'[r].pr # 0 => local[r][record'[r].branch] # 0
    BY <1>2 DEF ChainInv, Recorded
  <2>3. UNCHANGED git /\ UNCHANGED <<prs, quiet, moves>>
    BY <1>2, <1>3 DEF git
  <2> QED BY <1>1, <1>2, <1>3, <2>1, <2>2, <2>3, DoneInv DEF Settled
<1>4. CASE Stop("error") /\ UNCHANGED origin
  BY <1>2, <1>4, HopType, GitKept, StopInv DEF git
<1>5. CASE /\ origin[h][head[h]] = 0 \/ origin[h][head[h]] \in Anc(h, Tip(h))
           /\ origin' = [origin EXCEPT ![h] = [@ EXCEPT ![head[h]] = Tip(h)]]
           /\ Continue("record")
  <2>1. h \in Repo /\ head[h] \in Branch /\ Tip(h) \in 1..Len(commits[h])
    BY HopType, TipType
  <2>2. PICK x, b : x = Tip(h) /\ b = head[h]  OBVIOUS
  <2>3. GitInv' /\ Grows
    BY <1>2, <1>5, <2>1, <2>2, HopType, PushStep
  <2>4. PinsStand'
    BY <1>2, <2>3, HopType, PinsStep DEF PinsStand
  <2>5. pc' = "record" /\ UNCHANGED <<cmd, job, todo, changed>>  BY <1>5 DEF Continue
  <2>6. Settled(h)'
    BY <1>2, <2>1, <2>3, <2>5, HopType, SettledStep
  <2>7. HopSettled' /\ JobRead' /\ TreeKept' /\ OnlyHop(h)
    BY <1>1, <1>2, <2>5, <2>6 DEF HopSettled, JobRead, TreeKept, OnlyHop
  <2>8. pc' \notin Ended /\ pc # "save" /\ pc' # "save"  BY <1>2, <2>5 DEF Ended
  <2>9. PrRoom' /\ prs' \in [Repo -> Seq([branch : Branch, merged : BOOLEAN])]
    BY <1>2, <2>5, <2>8, PrRoomStep
  <2>10. job' \in Job /\ todo' \subseteq Repo /\ changed' \in BOOLEAN
    BY <2>5, HopType DEF CommandTyped
  <2> QED BY <1>1, <1>2, <2>3, <2>4, <2>5, <2>7, <2>8, <2>9, <2>10, RunningInv
<1> QED BY <1>1, <1>3, <1>4, <1>5 DEF Push

(* The record of the hop: its branch is the one checked out.               *)
LEMMA RecordStep ==
  ASSUME ChainInv, NEW h \in Hop, h = cmd.h, NEW p \in 0..MaxPrs[length], SaveRecord(p)
  PROVE  /\ record' \in [Repo -> [pr : 0..MaxPrs[length], branch : Branch]]
         /\ \A r \in Repo : record'[r].pr # 0 => local[r][record'[r].branch] # 0
<1>1. /\ record \in [Repo -> [pr : 0..MaxPrs[length], branch : Branch]]
      /\ h \in Repo /\ head[h] \in Branch /\ local[h][head[h]] # 0
  BY HopType DEF CommandTyped, GitInv, GitTyped
<1>2. PICK x : x = [pr |-> p, branch |-> head[h]]  OBVIOUS
<1>3. x \in [pr : 0..MaxPrs[length], branch : Branch] /\ x.branch = head[h]
  BY <1>1, <1>2
<1>4. record' = [record EXCEPT ![h] = x]  BY <1>2 DEF SaveRecord
<1>5. record' \in [Repo -> [pr : 0..MaxPrs[length], branch : Branch]]
  BY <1>1, <1>3, <1>4
<1>6. \A r \in Repo : record'[r] = IF r = h THEN x ELSE record[r]
  BY <1>1, <1>4
<1> QED BY <1>1, <1>3, <1>5, <1>6 DEF ChainInv, Recorded

LEMMA SaveInv == ASSUME ChainInv, length' = length, SkipPr \/ Save PROVE ChainInv' /\ Grows
<1>1. PICK h \in Hop : h = cmd.h  BY HopType
<1>2. /\ pc \in {"record", "save"} /\ pc \notin Ended /\ Settled(h)
      /\ UNCHANGED <<git, prs, quiet, moves>> /\ Done
  BY <1>1 DEF SkipPr, Save, Ended, ChainInv, HopSettled
<1>3. PICK p \in 0..MaxPrs[length] : SaveRecord(p)
  <2>1. CASE SkipPr
    <3>1. record[h].pr \in 0..MaxPrs[length]  BY HopType DEF CommandTyped
    <3> QED BY <1>1, <2>1, <3>1 DEF SkipPr
  <2>2. CASE Save
    <3>1. Len(prs[h]) <= MaxPrs[length]  BY <1>1, <2>2 DEF Save, ChainInv, PrRoom
    <3>2. prs[h] \in Seq([branch : Branch, merged : BOOLEAN])  BY HopType DEF CommandTyped
    <3>3. Len(prs[h]) \in Nat /\ MaxPrs[length] \in Nat  BY <3>2, LenProperties, HopType, Sizes
    <3>4. Len(prs[h]) \in 0..MaxPrs[length]  BY <3>1, <3>3
    <3> QED BY <1>1, <2>2, <3>4 DEF Save
  <2> QED BY <2>1, <2>2
<1>4. /\ record' \in [Repo -> [pr : 0..MaxPrs[length], branch : Branch]]
      /\ \A r \in Repo : record'[r].pr # 0 => local[r][record'[r].branch] # 0
  BY <1>1, <1>3, RecordStep
<1> QED BY <1>1, <1>2, <1>4, DoneInv DEF Settled

LEMMA CreatePrInv == ASSUME ChainInv, length' = length, CreatePr PROVE ChainInv' /\ Grows
<1>1. PICK h \in Hop : h = cmd.h  BY HopType
<1>2. /\ pc = "record" /\ pc \notin Ended /\ cmd.pr /\ Settled(h)
      /\ UNCHANGED <<git, record, quiet, moves>>
  BY <1>1 DEF CreatePr, Ended, ChainInv, HopSettled
<1>3. GitInv' /\ Grows /\ PinsStand' /\ OnlyHop(h)
  BY <1>2, HopType, GitKept DEF OnlyHop, git
<1>4. CASE Stop("error") /\ UNCHANGED prs
  BY <1>2, <1>3, <1>4, StopInv
<1>5. CASE /\ prs' = [prs EXCEPT ![h] = Append(@, [branch |-> head[h], merged |-> FALSE])]
           /\ Continue("save")
  <2> DEFINE P == [branch : Branch, merged : BOOLEAN]
             x == [branch |-> head[h], merged |-> FALSE]
  <2>1. x \in P /\ prs \in [Repo -> Seq(P)] /\ h \in Repo
    BY HopType, TipType DEF CommandTyped
  <2> HIDE DEF P, x
  <2>2. Append(prs[h], x) \in Seq(P) /\ Len(Append(prs[h], x)) = Len(prs[h]) + 1 /\ Len(prs[h]) \in Nat
    <3>1. prs[h] \in Seq(P)  BY <2>1
    <3> QED BY <2>1, <3>1, AppendProperties, LenProperties
  <2>3. prs' = [prs EXCEPT ![h] = Append(prs[h], x)]  BY <1>5 DEF x
  <2>4. /\ prs' \in [Repo -> Seq(P)] /\ Len(prs'[h]) = Len(prs[h]) + 1
        /\ \A r \in Repo : r # h => prs'[r] = prs[r]
    BY <2>1, <2>2, <2>3
  <2>5. pc' = "save" /\ UNCHANGED <<cmd, job, todo, changed>>  BY <1>5 DEF Continue
  <2>6. \A r \in Hop : r > h \/ r = h => Len(prs[r]) < MaxPrs[length]
    BY <1>1, <1>2 DEF ChainInv, PrRoom
  <2>7. Len(prs'[h]) <= MaxPrs[length]
    <3>1. Len(prs[h]) < MaxPrs[length] /\ MaxPrs[length] \in Nat  BY <2>6, HopType, Sizes
    <3> QED BY <2>2, <2>4, <3>1
  <2>8. PrRoom'
    <3>1. ASSUME NEW r \in Hop, r > h PROVE Len(prs'[r]) < MaxPrs[length]
      <4>1. r # h /\ r \in Repo  BY <3>1, HopType DEF Hop
      <4> QED BY <2>4, <2>6, <3>1, <4>1
    <3> QED BY <1>1, <2>5, <2>7, <3>1, SetsKept DEF PrRoom
  <2>9. Settled(h)'
    BY <1>2, <1>3, <2>1, <2>5, HopType, SettledStep DEF git
  <2>10. HopSettled' /\ JobRead' /\ TreeKept'
    BY <1>1, <2>5, <2>9 DEF HopSettled, JobRead, TreeKept
  <2>11. job' \in Job /\ todo' \subseteq Repo /\ changed' \in BOOLEAN
    BY <2>5, HopType DEF CommandTyped
  <2> QED BY <1>1, <1>2, <1>3, <2>4, <2>5, <2>8, <2>10, <2>11, RunningInv DEF P
<1> QED BY <1>1, <1>4, <1>5 DEF CreatePr

LEMMA ReconciledInv == ASSUME ChainInv, length' = length, Reconciled PROVE ChainInv' /\ Grows
<1>1. PICK h \in Hop : h = cmd.h  BY HopType
<1>2. /\ pc = "cases" /\ cmd.op = "reconcile" /\ pc \notin Ended
      /\ UNCHANGED <<git, prs, record, quiet, moves>>
  BY DEF Reconciled, Ended
<1>3. GitInv' /\ Grows /\ PinsStand' /\ OnlyHop(h)
  BY <1>2, HopType, GitKept DEF OnlyHop, git
<1>4. CASE Done
  <2>1. record' \in [Repo -> [pr : 0..MaxPrs[length], branch : Branch]]
    BY <1>2, HopType DEF CommandTyped
  <2>2. \A r \in Repo : record'[r].pr # 0 => local[r][record'[r].branch] # 0
    BY <1>2 DEF ChainInv, Recorded
  <2> QED BY <1>2, <1>4, <2>1, <2>2, DoneInv
<1>5. CASE Continue("test")
  <2>1. pc' = "test" /\ UNCHANGED <<cmd, job, todo, changed>>  BY <1>5 DEF Continue
  <2>2. JobRead'
    <3>1. Fetched(h)'
      BY <1>1, <1>2, <1>3, <2>1, TreeHolds, HopType, FetchedStep
    <3>2. Written(h)'
      BY <1>1, <1>2, <2>1, TreeHolds DEF Written, git
    <3> QED BY <1>1, <1>2, <2>1, <3>1, <3>2, TreeHolds DEF JobRead
  <2>3. TreeKept' /\ HopSettled'  BY <2>1 DEF TreeKept, HopSettled
  <2>4. pc' \notin Ended /\ pc # "save" /\ pc' # "save"  BY <1>2, <2>1 DEF Ended
  <2>5. PrRoom' /\ prs' \in [Repo -> Seq([branch : Branch, merged : BOOLEAN])]
    BY <1>2, <2>1, <2>4, PrRoomStep
  <2>6. job' \in Job /\ todo' \subseteq Repo /\ changed' \in BOOLEAN
    BY <2>1, HopType DEF CommandTyped
  <2> QED BY <1>1, <1>2, <1>3, <2>1, <2>2, <2>3, <2>4, <2>5, <2>6, RunningInv
<1> QED BY <1>4, <1>5 DEF Reconciled

LEMMA ScanInv == ASSUME ChainInv, length' = length, Scan PROVE ChainInv' /\ Grows
<1>1. PICK h \in Hop : h = cmd.h  BY HopType
<1>2. /\ pc = "resolve" /\ cmd.op = "reconcile" /\ pc \notin Ended
      /\ UNCHANGED <<commits, origin, prs, record, quiet, moves>>
  BY DEF Scan, Ended
<1>3. CASE Done /\ UNCHANGED <<local, head, tree>>
  <2>1. record' \in [Repo -> [pr : 0..MaxPrs[length], branch : Branch]]
    BY <1>2, HopType DEF CommandTyped
  <2>2. \A r \in Repo : record'[r].pr # 0 => local[r][record'[r].branch] # 0
    BY <1>2 DEF ChainInv, Recorded
  <2>3. UNCHANGED git  BY <1>2, <1>3 DEF git
  <2> QED BY <1>2, <1>3, <2>1, <2>2, <2>3, DoneInv
<1>4. CASE Stop("error") /\ UNCHANGED <<local, head, tree>>
  BY <1>2, <1>4, HopType, GitKept, StopInv DEF git
<1>5. CASE ~(Done /\ UNCHANGED <<local, head, tree>>) /\ ~(Stop("error") /\ UNCHANGED <<local, head, tree>>)
  <2> DEFINE shas == [d \in Repo |-> IF d < h THEN MainTip(d) ELSE 0]
             b == IF record[h].pr = 0 THEN shas[Trigger(h)] ELSE record[h].branch
  <2>1. /\ ~Dirty(h)
        /\ IF record[h].pr = 0
             THEN CheckoutNew(h, b) /\ UNCHANGED tree
             ELSE /\ head' = [head EXCEPT ![h] = b]
                  /\ tree' = [tree EXCEPT ![h] = commits[h][local[h][b]].pins]
                  /\ UNCHANGED local
        /\ job' = [shas |-> shas, resuming |-> FALSE, dirty |-> FALSE]
        /\ todo' = 1..(h - 1) /\ changed' = FALSE /\ pc' = "pin" /\ cmd' = cmd
    BY <1>1, <1>5 DEF Scan
  <2>2. job'.shas = shas /\ ~job'.resuming /\ ~job'.dirty
    BY <2>1
  <2>3. h \in Repo /\ Trigger(h) \in Repo
    BY HopType DEF Trigger, Hop, Repo
  <2>4. \A d \in 1..(h - 1) : d \in Repo /\ d < h  BY <2>3, HopType, Below
  <2>5. shas \in Pins /\ shas[Trigger(h)] \in Branch
    <3>1. \A d \in Repo : MainTip(d) \in 0..MaxCommits[length]
      <4>1. 0 \in Branch  BY HopType, Sizes DEF Branch
      <4>2. origin \in [Repo -> [Branch -> 0..MaxCommits[length]]]
        BY HopType DEF GitInv, GitTyped
      <4> QED BY <4>1, <4>2 DEF MainTip
    <3>2. 0 \in 0..MaxCommits[length]  BY HopType, Sizes
    <3>3. shas \in Pins  BY <3>1, <3>2 DEF Pins
    <3> QED BY <2>3, <3>3 DEF Pins, Branch
  <2>6. \A d \in 1..(h - 1) : shas[d] = MainTip(d)
    BY <2>4
  <2> HIDE DEF shas
  <2>7. record[h].branch \in Branch /\ (record[h].pr # 0 => local[h][record[h].branch] # 0)
    BY <2>3, HopType DEF CommandTyped, ChainInv, Recorded
  <2>8. PICK c \in Branch : c = b  BY <2>5, <2>7
  <2>9. GitInv' /\ Grows /\ PinsStand' /\ OnlyHop(h) /\ ~Dirty(h)'
    <3>1. CASE record[h].pr = 0
      <4>1. CheckoutNew(h, c) /\ UNCHANGED tree  BY <2>1, <2>8, <3>1
      <4>2. GitInv' /\ Grows /\ PinsStand' /\ OnlyHop(h) /\ Tip(h)' = Tip(h)
        BY <1>2, <2>3, <4>1, HopType, NewBranch
      <4> QED BY <1>2, <2>1, <4>1, <4>2 DEF Dirty
    <3>2. CASE record[h].pr # 0
      <4>1. /\ head' = [head EXCEPT ![h] = c]
            /\ tree' = [tree EXCEPT ![h] = commits[h][local[h][c]].pins]
            /\ UNCHANGED local /\ local[h][c] # 0
        BY <2>1, <2>7, <2>8, <3>2
      <4>2. GitInv' /\ Grows /\ PinsStand'
        BY <1>2, <2>3, <4>1, HopType, BranchCheckout
      <4>3. head \in [Repo -> Branch] /\ tree \in [Repo -> Pins]
        BY HopType DEF GitInv, GitTyped
      <4>4. tree'[h] = commits[h][local[h][c]].pins /\ head'[h] = c
        BY <2>3, <4>1, <4>3
      <4>5. ~Dirty(h)'  BY <1>2, <4>1, <4>4 DEF Dirty, Tip
      <4>6. OnlyHop(h)  BY <4>1, <4>3 DEF OnlyHop
      <4> QED BY <4>2, <4>5, <4>6
    <3> QED BY <3>1, <3>2
  <2>10. Fetched(h)'
    <3> SUFFICES ASSUME NEW d \in 1..(h - 1)
                 PROVE OnOrigin(d, job.shas[d])' /\ Reachable(d, job.shas[d])'
      BY <1>2, <2>1 DEF Fetched
    <3>1. PICK s : s = MainTip(d)  OBVIOUS
    <3>2. OnOrigin(d, s) /\ Reachable(d, s)
      BY <2>4, <3>1, HopType, MainsOnOrigin
    <3>3. OnOrigin(d, s)' /\ Reachable(d, s)'
      BY <2>4, <2>9, <3>2, HopType, Carried DEF GitInv
    <3>4. job'.shas[d] = s  BY <2>2, <2>6, <3>1
    <3> QED BY <3>3, <3>4 DEF OnOrigin, Reachable
  <2>11. JobRead'
    BY <1>1, <2>1, <2>10 DEF JobRead, Written
  <2>12. TreeKept'
    BY <1>1, <2>1, <2>2, <2>9 DEF TreeKept
  <2>13. HopSettled'  BY <2>1 DEF HopSettled
  <2>14. pc' \notin Ended /\ pc # "save" /\ pc' # "save"  BY <1>2, <2>1 DEF Ended
  <2>15. PrRoom' /\ prs' \in [Repo -> Seq([branch : Branch, merged : BOOLEAN])]
    BY <1>2, <2>1, <2>14, PrRoomStep
  <2>16. job' \in Job /\ todo' \subseteq Repo /\ changed' \in BOOLEAN
    BY <2>1, <2>4, <2>5 DEF Job
  <2> QED BY <1>1, <1>2, <2>1, <2>9, <2>11, <2>12, <2>13, <2>14, <2>15, <2>16, RunningInv
<1> QED BY <1>3, <1>4, <1>5

LEMMA ToolInv == ASSUME ChainInv, length' = length, Tool PROVE ChainInv' /\ Grows
BY ResolveInv, AlreadyCurrentInv, FreshBranchInv, ResumeInv, ScanInv, ReconciledInv, PinInv,
   FailInv, GatePassesInv, PushInv, SaveInv, CreatePrInv
   DEF Tool, BumperRun, ReconcileHop, Gated, Finalize

LEMMA InitInv == Init => ChainInv
<1> SUFFICES ASSUME Init PROVE ChainInv
  OBVIOUS
<1>1. /\ length \in Lengths /\ pc = "idle" /\ cmd = NoCmd
      /\ commits = [r \in Repo |-> <<[anc |-> {1}, pins |-> NoPins]>>]
      /\ local = [r \in Repo |-> [b \in Branch |-> IF b = 0 THEN 1 ELSE 0]]
      /\ origin = local
      /\ head = [r \in Repo |-> 0]
      /\ tree = [r \in Repo |-> NoPins]
      /\ prs = [r \in Repo |-> <<>>]
      /\ record = [r \in Repo |-> [pr |-> 0, branch |-> 0]]
  BY DEF Init
<1>2. /\ 0 \in Branch /\ 0 \in 0..MaxCommits[length] /\ 1 \in 0..MaxCommits[length] /\ 1 \in Sha
      /\ 2 \in Hop /\ 0 \in 0..MaxPrs[length] /\ 0 \in 0..MaxMoves[length]
  BY <1>1, Sizes DEF Branch, Sha, Hop
<1>3. NoPins \in Pins  BY <1>2 DEF NoPins, Pins
<1> DEFINE x == [anc |-> {1}, pins |-> NoPins]
<1>4. x \in Commit  BY <1>2, <1>3 DEF Commit
<1>5. x.anc = {1} /\ x.pins = NoPins  OBVIOUS
<1> HIDE DEF x
<1>6. /\ <<x>> \in Seq(Commit) /\ Len(<<x>>) = 1 /\ <<x>>[1] = x
  BY <1>4
<1>7. /\ commits \in [Repo -> Seq(Commit)]
      /\ \A r \in Repo : commits[r] = <<x>> /\ Len(commits[r]) = 1 /\ commits[r][1] = x
  BY <1>1, <1>6 DEF x
<1>8. /\ \A r \in Repo, b \in Branch : local[r][b] = IF b = 0 THEN 1 ELSE 0
      /\ local \in [Repo -> [Branch -> 0..MaxCommits[length]]]
      /\ \A r \in Repo : head[r] = 0 /\ tree[r] = NoPins /\ record[r].pr = 0
  BY <1>1, <1>2
<1>9. GitTyped
  <2>1. \A r \in Repo, b \in Branch : local[r][b] \in 0..Len(commits[r])
    <3>1. \A r \in Repo, b \in Branch : local[r][b] \in 0..1  BY <1>8
    <3> QED BY <1>7, <3>1
  <2>2. \A r \in Repo : Len(commits[r]) \in Sha /\ local[r][head[r]] # 0
    <3>1. \A r \in Repo : head[r] \in Branch /\ head[r] = 0  BY <1>2, <1>8
    <3>2. \A r \in Repo : local[r][head[r]] = 1  BY <1>8, <3>1
    <3>3. \A r \in Repo : Len(commits[r]) \in Sha  BY <1>2, <1>7
    <3> QED BY <3>2, <3>3
  <2>3. head \in [Repo -> Branch] /\ tree \in [Repo -> Pins]
    BY <1>1, <1>2, <1>3
  <2> QED BY <1>1, <1>7, <1>8, <2>1, <2>2, <2>3 DEF GitTyped
<1>10. History
  BY <1>5, <1>7 DEF History, Anc
<1>11. Mains  BY <1>1, <1>2, <1>8 DEF Mains
<1>12. PinsStand
  <2>1. \A h \in Repo : Pinned(h, NoPins)
    BY <1>1, Below DEF Pinned, NoPins
  <2> QED BY <1>5, <1>7, <1>8, <2>1 DEF PinsStand
<1>13. CommandTyped
  <2>1. prs \in [Repo -> Seq([branch : Branch, merged : BOOLEAN])]
    BY <1>1, EmptySeq
  <2>2. record \in [Repo -> [pr : 0..MaxPrs[length], branch : Branch]]
    BY <1>1, <1>2
  <2>3. NoCmd \in [op : {"bump", "reconcile"}, all : BOOLEAN, h : Hop, push : BOOLEAN, pr : BOOLEAN]
    BY <1>2 DEF NoCmd
  <2>4. NoJob \in Job  BY <1>3 DEF NoJob, Job
  <2> QED BY <1>2, <2>1, <2>2, <2>3, <2>4 DEF Init, CommandTyped, Ended
<1>14. PrRoom /\ Recorded /\ JobRead /\ TreeKept /\ HopSettled /\ Walked
  BY <1>1, <1>8 DEF PrRoom, Recorded, JobRead, TreeKept, HopSettled, Walked, Ended
<1> QED BY <1>1, <1>9, <1>10, <1>11, <1>12, <1>13, <1>14 DEF ChainInv, GitInv

LEMMA Stutter == ASSUME ChainInv, UNCHANGED vars PROVE ChainInv' /\ Grows
<1>1. GitInv' /\ Grows /\ PinsStand'
  BY HopType, GitKept DEF vars
<1>2. UNCHANGED <<commits, local, origin, head, tree, prs, record, cmd, pc, job, todo, changed, quiet, moves, length>>
  BY DEF vars, git
<1>3. CommandTyped'
  BY <1>2, SetsKept, HopType DEF CommandTyped
<1>4. Recorded' /\ PrRoom' /\ TreeKept'
  BY <1>2, SetsKept DEF ChainInv, Recorded, PrRoom, TreeKept, Dirty, Tip
<1>5. \A d, c : /\ OnOrigin(d, c) => OnOrigin(d, c)'
                /\ Reachable(d, c) => Reachable(d, c)'
  BY <1>2, SetsKept DEF OnOrigin, Reachable, Anc
<1>6. \A r : Tip(r)' = Tip(r)  BY <1>2 DEF Tip
<1>7. JobRead'
  BY <1>2, <1>5, <1>6 DEF ChainInv, JobRead, Fetched, Written
<1>8. HopSettled'
  BY <1>2, <1>5, <1>6 DEF ChainInv, HopSettled, Settled
<1>9. Walked'
  BY <1>2, <1>6, SetsKept DEF ChainInv, Walked
<1> QED BY <1>1, <1>3, <1>4, <1>7, <1>8, <1>9 DEF ChainInv

LEMMA ChainStep == ASSUME ChainInv, [Next]_vars PROVE ChainInv' /\ Grows /\ length' = length
<1>1. CASE UNCHANGED vars  BY <1>1, Stutter DEF vars
<1>2. CASE Next
  <2>1. length' = length  BY <1>2 DEF Next
  <2> QED BY <1>2, <2>1, StartInv, ToolInv, FailInv, EnvironmentInv DEF Next
<1> QED BY <1>1, <1>2

LEMMA ChainInductive == Spec => []ChainInv
<1>1. ChainInv /\ [Next]_vars => ChainInv'
  BY ChainStep
<1> QED BY <1>1, InitInv, PTL DEF Spec

-----------------------------------------------------------------------------
(* Whatever the order of bumps, pushes, merges and deaths, every commit,     *)
(* branch, pin and record keeps its shape: no command leaves a checkout      *)
(* without a commit under it.                                                *)
THEOREM ChainTypeCorrect == Spec => []TypeOK
<1>1. ChainInv => TypeOK  BY TypeParts DEF ChainInv, GitInv
<1> QED BY <1>1, ChainInductive, PTL

(* What a commit or a tree pins is on the fork, though remote_has was asked  *)
(* of a HEAD that has moved since.                                           *)
THEOREM PinsCanBeFetched == Spec => []PinsOnOrigin
<1>1. ChainInv => PinsOnOrigin  BY PinsParts DEF ChainInv
<1> QED BY <1>1, ChainInductive, PTL

(* A chain that ends well, undisturbed, leaves one version of each           *)
(* repository in all the hops, resumed, skipped or fresh (cmd_chain).        *)
THEOREM ChainIsOneVersion == Spec => []ChainAgrees
<1>1. ChainInv => ChainAgrees
  <2> SUFFICES ASSUME ChainInv, pc = "ok", cmd.op = "bump", cmd.all, quiet,
                      NEW h \in Hop, NEW d \in 1..(h - 1)
               PROVE  /\ commits[h][Tip(h)].pins[d] = Tip(d)
                      /\ \A e \in 1..(d - 1) : commits[h][Tip(h)].pins[e] = commits[d][Tip(d)].pins[e]
    BY DEF ChainAgrees
  <2>1. \A g \in Hop : \A e \in 1..(g - 1) : commits[g][Tip(g)].pins[e] = Tip(e)
    <3>1. cmd.h = length  BY DEF ChainInv, Walked
    <3>2. \A g \in Hop : g < cmd.h \/ g = cmd.h  BY <3>1, HopType DEF Hop
    <3> QED BY <3>2 DEF ChainInv, Walked
  <2>2. ASSUME NEW e \in 1..(d - 1)
        PROVE  commits[h][Tip(h)].pins[e] = commits[d][Tip(d)].pins[e]
    <3>1. d \in Hop /\ e \in 1..(h - 1)  BY HopType DEF Hop
    <3> QED BY <2>1, <3>1
  <2> QED BY <2>1, <2>2
<1> QED BY <1>1, ChainInductive, PTL

(* What reconcile commits is reachable from every dependency's main, though  *)
(* main moves between its fetch and its commit (reconcile_hop).              *)
THEOREM ReconcileReaches == Spec => []ReconcileRepairs
<1>1. ChainInv => ReconcileRepairs
  BY DEF ChainInv, HopSettled, Settled, ReconcileRepairs
<1> QED BY <1>1, ChainInductive, PTL

(* A valid pin stays valid: mains only gain history, by every kind of merge. *)
THEOREM ValidityLasts == Spec => ValidPinsStayValid
<1>1. ASSUME ChainInv, [Next]_vars, NEW h \in Repo, NEW d \in 1..(h - 1),
             PinStatus(h, d) # "DANGLING", tree'[h][d] = tree[h][d]
      PROVE  PinStatus(h, d)' # "DANGLING"
  <2>1. d \in Repo  BY <1>1, HopType, Below
  <2>2. Reachable(d, tree[h][d])
    <3>1. Reachable(d, MainTip(d))  BY <1>1, <2>1, HopType, MainsOnOrigin
    <3> QED BY <1>1, <3>1 DEF PinStatus, MainTip
  <2>3. PICK p : p = tree[h][d]  OBVIOUS
  <2>4. Reachable(d, p)'
    BY <1>1, <2>1, <2>2, <2>3, HopType, ChainStep, Carried DEF GitInv
  <2>5. Reachable(d, tree[h][d])'
    BY <1>1, <2>3, <2>4 DEF Reachable
  <2> QED BY <2>5 DEF PinStatus
<1>2. ChainInv /\ [Next]_vars =>
        \A h \in Repo : \A d \in 1..(h - 1) :
          PinStatus(h, d) # "DANGLING" /\ tree'[h][d] = tree[h][d] => PinStatus(h, d)' # "DANGLING"
  BY <1>1
<1> QED BY <1>2, ChainInductive, PTL DEF Spec, ValidPinsStayValid
-----------------------------------------------------------------------------
(* What a command may do to a hop: one commit of what it read, on a branch.  *)

\* The branch of a recorded pull request is not main.
RecordedOffMain == \A r \in Repo : record[r].pr # 0 => record[r].branch # 0

\* The hop under way stands on its branch: from the start when it resumes or
\* reconciles, once its branch is checked out otherwise.
OnBranch ==
  /\ pc \in {"test", "push", "record", "save"} => head[cmd.h] # 0
  /\ pc \in {"pin", "cases"} /\ (job.resuming \/ cmd.op = "reconcile") => head[cmd.h] # 0
  /\ pc \in {"pin", "cases", "test"} => job.shas[Trigger(cmd.h)] # 0

OffMain == RecordedOffMain /\ OnBranch

(* The hop's trigger is a repository below it.                             *)
LEMMA TriggerType ==
  ASSUME ChainInv
  PROVE  /\ Trigger(cmd.h) \in Repo /\ Trigger(cmd.h) < cmd.h
         /\ Tip(Trigger(cmd.h)) # 0 /\ MainTip(Trigger(cmd.h)) # 0
<1>1. Trigger(cmd.h) \in Repo /\ Trigger(cmd.h) < cmd.h
  BY HopType DEF Trigger, Hop, Repo
<1>2. Tip(Trigger(cmd.h)) # 0
  <2>1. Tip(Trigger(cmd.h)) \in 1..Len(commits[Trigger(cmd.h)])  BY <1>1, TipType, HopType
  <2> QED BY <2>1
<1>3. MainTip(Trigger(cmd.h)) # 0
  BY <1>1, HopType DEF GitInv, Mains, MainTip
<1> QED BY <1>1, <1>2, <1>3

(* Records are written by the last steps of a hop.                         *)
LEMMA RecordOff ==
  ASSUME ChainInv, OffMain, [Next]_vars
  PROVE  RecordedOffMain'
<1>1. record \in [Repo -> [pr : 0..MaxPrs[length], branch : Branch]] /\ cmd.h \in Repo
  BY HopType DEF CommandTyped
<1>2. length' = length /\ Repo' = Repo
  BY ChainStep, SetsKept
<1>3. CASE SkipPr \/ Save
  <2>1. PICK p : record' = [record EXCEPT ![cmd.h] = [pr |-> p, branch |-> head[cmd.h]]]
    BY <1>3 DEF SkipPr, Save, SaveRecord
  <2>2. head[cmd.h] # 0
    BY <1>3 DEF OffMain, OnBranch, SkipPr, Save
  <2> QED BY <1>1, <1>2, <2>1, <2>2 DEF OffMain, RecordedOffMain
<1>4. ASSUME ~(SkipPr \/ Save) PROVE record' = record
  <2>1. CASE Tool
    <3>1. CASE Resolve \/ AlreadyCurrent \/ FreshBranch \/ Resume \/ GateFails \/ GatePasses
      BY <3>1 DEF Resolve, AlreadyCurrent, FreshBranch, Resume, GateFails, GatePasses
    <3>2. CASE Push \/ CreatePr \/ Scan \/ Reconciled \/ (\E d \in Repo : Pin(d))
      BY <3>2 DEF Push, CreatePr, Scan, Reconciled, Pin
    <3> QED
      BY <1>4, <2>1, <3>1, <3>2 DEF Tool, BumperRun, ReconcileHop, Gated, Finalize
  <2>2. CASE Die
    BY <2>2 DEF Die
  <2>3. CASE Environment
    <3>1. Others
      BY <2>3 DEF Environment, Develop, Publish, Merge, Sync, Checkout
    <3> QED BY <3>1 DEF Others
  <2>4. CASE UNCHANGED vars
    BY <2>4 DEF vars
  <2>5. ASSUME NEW op, NEW all, NEW h, NEW push, NEW pr, Start(op, all, h, push, pr)
        PROVE  record' = record
    BY <2>5 DEF Start
  <2> QED BY <2>1, <2>2, <2>3, <2>4, <2>5 DEF Next
<1>5. CASE record' = record
  BY <1>2, <1>5 DEF OffMain, RecordedOffMain
<1> QED BY <1>3, <1>4, <1>5

(* A step after which no hop is under way, or one only begins.             *)
LEMMA NoHopYet == ASSUME pc' \in Ended \cup {"resolve"} PROVE OnBranch'
BY DEF OnBranch, Ended

(* Nobody else touches the repository of the hop under way.                *)
LEMMA OthersBranch ==
  ASSUME ChainInv, OffMain, Environment PROVE OnBranch'
<1>1. Others
  BY DEF Environment, Develop, Publish, Sync, Checkout, Merge
<1>2. CASE pc \in Ended
  <2>1. pc' = "idle"  BY <1>1, <1>2 DEF Others
  <2> QED BY <2>1, NoHopYet DEF Ended
<1>3. CASE pc \notin Ended
  <2>1. pc' = pc /\ cmd' = cmd /\ job' = job  BY <1>1, <1>3 DEF Others
  <2>2. head \in [Repo -> Branch] /\ cmd.h \in Repo  BY HopType DEF GitInv, GitTyped
  <2>3. head'[cmd.h] = head[cmd.h]
    <3>1. ASSUME NEW r \in Repo, Develop(r) \/ Publish(r)
          PROVE  head'[cmd.h] = head[cmd.h]
      BY <1>3, <2>2, <3>1 DEF Develop, Publish, Free
    <3>2. ASSUME NEW r \in Repo, NEW b \in Branch,
                 Merge(r, b, TRUE) \/ Merge(r, b, FALSE)
          PROVE  head'[cmd.h] = head[cmd.h]
      BY <2>2, <3>2 DEF Merge
    <3>3. ASSUME NEW r \in Repo, Sync(r)
          PROVE  head'[cmd.h] = head[cmd.h]
      BY <1>3, <2>2, <3>3 DEF Sync, Free
    <3>4. ASSUME NEW r \in Repo, NEW b \in Branch, Checkout(r, b)
          PROVE  head'[cmd.h] = head[cmd.h]
      BY <1>3, <2>2, <3>4 DEF Checkout, Free
    <3> QED BY <1>3, <3>1, <3>2, <3>3, <3>4 DEF Environment
  <2>4. PICK h : h = cmd.h  OBVIOUS
  <2> QED BY <2>1, <2>3, <2>4 DEF OffMain, OnBranch, Trigger
<1> QED BY <1>2, <1>3

(* bump: a resumed hop stands on the branch its trigger's commit names, and  *)
(* a fresh one is about to (Bumper.run).                                   *)
LEMMA ResolveBranch ==
  ASSUME ChainInv, Resolve PROVE OnBranch'
<1> DEFINE h == cmd.h
           shas == [d \in Repo |-> IF d < h THEN HeadSha(d) ELSE 0]
<1>1. shas[Trigger(h)] # 0
  BY TriggerType DEF HeadSha
<1>2. \/ pc' \in Ended
      \/ /\ pc' = "pin" /\ cmd' = cmd /\ head' = head
         /\ job' = [shas |-> shas, resuming |-> head[h] = shas[Trigger(h)], dirty |-> Dirty(h)]
  BY DEF Resolve, Stop, Ended, git
<1>3. CASE pc' \in Ended  BY <1>3, NoHopYet
<1>4. CASE pc' = "pin" /\ cmd' = cmd /\ head' = head
           /\ job' = [shas |-> shas, resuming |-> head[h] = shas[Trigger(h)], dirty |-> Dirty(h)]
  <2>0. cmd.op = "bump"  BY DEF Resolve
  <2>1. job'.shas = shas /\ (job'.resuming => head[h] = shas[Trigger(h)])  BY <1>4
  <2> HIDE DEF shas
  <2> QED BY <1>1, <1>4, <2>0, <2>1 DEF OnBranch, Trigger
<1> QED BY <1>2, <1>3, <1>4

(* reconcile: the recorded branch, or a new one named by the trigger's main  *)
(* (reconcile_hop).                                                        *)
LEMMA ScanBranch ==
  ASSUME ChainInv, OffMain, Scan PROVE OnBranch'
<1> DEFINE h == cmd.h
           shas == [d \in Repo |-> IF d < h THEN MainTip(d) ELSE 0]
           b == IF record[h].pr = 0 THEN shas[Trigger(h)] ELSE record[h].branch
<1>1. shas[Trigger(h)] # 0
  BY TriggerType
<1>2. b # 0
  BY <1>1, HopType DEF OffMain, RecordedOffMain
<1>3. head \in [Repo -> Branch] /\ h \in Repo
  BY HopType DEF GitInv, GitTyped
<1>4. \/ pc' \in Ended \cup {"resolve"}
      \/ /\ pc' = "pin" /\ cmd' = cmd /\ head' = [head EXCEPT ![h] = b]
         /\ job' = [shas |-> shas, resuming |-> FALSE, dirty |-> FALSE]
  BY DEF Scan, Stop, Done, CheckoutNew, Ended
<1>5. CASE pc' \in Ended \cup {"resolve"}  BY <1>5, NoHopYet
<1>6. CASE pc' = "pin" /\ cmd' = cmd /\ head' = [head EXCEPT ![h] = b]
           /\ job' = [shas |-> shas, resuming |-> FALSE, dirty |-> FALSE]
  <2>1. job'.shas = shas  BY <1>6
  <2>2. head'[h] # 0
    <3> HIDE DEF b
    <3> QED BY <1>2, <1>3, <1>6
  <2> HIDE DEF shas
  <2> QED BY <1>1, <1>6, <2>1, <2>2 DEF OnBranch, Trigger
<1> QED BY <1>4, <1>5, <1>6

(* The steps of a hop that leave its checkout where it is.                 *)
LEMMA StayBranch ==
  ASSUME ChainInv, OffMain, UNCHANGED <<cmd, job, head>>,
         \/ pc = "pin" /\ pc' \in {"pin", "cases"}
         \/ /\ pc = "cases" /\ pc' \in {"test", "push"}
            /\ job.resuming \/ cmd.op = "reconcile"
         \/ pc = "test" /\ pc' = "push"
         \/ pc \in {"push", "record"} /\ pc' \in {"record", "save"}
  PROVE  OnBranch'
<1>1. PICK h : h = cmd.h  OBVIOUS
<1> QED BY <1>1 DEF OffMain, OnBranch, Trigger

LEMMA FreshBranchOff ==
  ASSUME ChainInv, OffMain, FreshBranch PROVE OnBranch'
<1>1. head \in [Repo -> Branch] /\ cmd.h \in Repo
  BY HopType DEF GitInv, GitTyped
<1>2. BranchName # 0
  BY DEF FreshBranch, OffMain, OnBranch, BranchName
<1>3. \/ pc' \in Ended
      \/ pc' = "test" /\ UNCHANGED <<cmd, job>> /\ head' = [head EXCEPT ![cmd.h] = BranchName]
  BY DEF FreshBranch, Stop, Continue, CheckoutNew, Ended
<1>4. CASE pc' \in Ended  BY <1>4, NoHopYet
<1>5. CASE pc' = "test" /\ UNCHANGED <<cmd, job>> /\ head' = [head EXCEPT ![cmd.h] = BranchName]
  <2>1. head'[cmd.h] # 0  BY <1>1, <1>2, <1>5
  <2>2. job.shas[Trigger(cmd.h)] # 0  BY <1>2 DEF BranchName
  <2>3. PICK h : h = cmd.h  OBVIOUS
  <2> QED BY <1>5, <2>1, <2>2, <2>3 DEF OnBranch, Trigger
<1> QED BY <1>3, <1>4, <1>5

LEMMA ToolBranch ==
  ASSUME ChainInv, OffMain, Tool PROVE OnBranch'
<1>1. CASE Resolve  BY <1>1, ResolveBranch
<1>2. CASE Scan  BY <1>2, ScanBranch
<1>3. CASE FreshBranch  BY <1>3, FreshBranchOff
<1>4. CASE AlreadyCurrent \/ GateFails \/ SkipPr \/ Save
  <2>1. pc' \in Ended \cup {"resolve"}
    BY <1>4 DEF AlreadyCurrent, GateFails, SkipPr, Save, Stop, Done, Ended
  <2> QED BY <2>1, NoHopYet
<1>5. CASE Resume
  <2>1. /\ UNCHANGED <<cmd, job, head>> /\ pc = "cases" /\ job.resuming
        /\ pc' \in {"test", "push"}
    BY <1>5 DEF Resume, Continue, git
  <2> QED BY <2>1, StayBranch
<1>6. CASE Reconciled
  <2>1. \/ pc' \in Ended \cup {"resolve"}
        \/ /\ UNCHANGED <<cmd, job, head>> /\ pc = "cases" /\ cmd.op = "reconcile"
           /\ pc' = "test"
    BY <1>6 DEF Reconciled, Continue, Done, Stop, Ended, git
  <2> QED BY <2>1, NoHopYet, StayBranch
<1>7. ASSUME NEW d \in Repo, Pin(d) PROVE OnBranch'
  <2>1. UNCHANGED <<cmd, job, head>> /\ pc = "pin" /\ pc' \in {"pin", "cases"}
    BY <1>7 DEF Pin
  <2> QED BY <2>1, StayBranch
<1>8. CASE GatePasses
  <2>1. UNCHANGED <<cmd, job, head>> /\ pc = "test" /\ pc' = "push"
    BY <1>8 DEF GatePasses, Continue
  <2> QED BY <2>1, StayBranch
<1>9. CASE Push
  <2>1. \/ pc' \in Ended \cup {"resolve"}
        \/ UNCHANGED <<cmd, job, head>> /\ pc = "push" /\ pc' = "record"
    BY <1>9 DEF Push, Continue, Done, Stop, Ended
  <2> QED BY <2>1, NoHopYet, StayBranch
<1>10. CASE CreatePr
  <2>1. \/ pc' \in Ended \cup {"resolve"}
        \/ UNCHANGED <<cmd, job, head>> /\ pc = "record" /\ pc' = "save"
    BY <1>10 DEF CreatePr, Continue, Stop, Ended, git
  <2> QED BY <2>1, NoHopYet, StayBranch
<1> QED BY <1>1, <1>2, <1>3, <1>4, <1>5, <1>6, <1>7, <1>8, <1>9, <1>10
        DEF Tool, BumperRun, ReconcileHop, Gated, Finalize

LEMMA OffMainInductive == Spec => [](ChainInv /\ OffMain)
<1>1. Init => OffMain
  BY DEF Init, OffMain, RecordedOffMain, OnBranch
<1>2. ChainInv /\ OffMain /\ [Next]_vars => OffMain'
  <2> SUFFICES ASSUME ChainInv, OffMain, [Next]_vars PROVE OnBranch'
    BY RecordOff DEF OffMain
  <2>1. CASE UNCHANGED vars
    <3>1. UNCHANGED <<pc, cmd, job, head>>  BY <2>1 DEF vars, git
    <3>2. PICK h : h = cmd.h  OBVIOUS
    <3> QED BY <3>1, <3>2 DEF OffMain, OnBranch, Trigger
  <2>2. CASE \E op \in {"bump", "reconcile"}, all, push, pr \in BOOLEAN, h \in Hop :
               Start(op, all, h, push, pr)
    <3>1. pc' = "resolve"  BY <2>2 DEF Start
    <3> QED BY <3>1, NoHopYet
  <2>3. CASE Die
    <3>1. pc' \in Ended  BY <2>3 DEF Die, Stop, Ended
    <3> QED BY <3>1, NoHopYet
  <2> QED BY <2>1, <2>2, <2>3, ToolBranch, OthersBranch DEF Next
<1> QED BY <1>1, <1>2, ChainInductive, PTL DEF Spec

(* Moving a branch other than main leaves main.                            *)
LEMMA MainKept ==
  ASSUME NEW R, NEW B, NEW V, NEW f \in [R -> [B -> V]], NEW r \in R, NEW b, NEW v,
         0 \in B, b # 0, NEW g, g = [f EXCEPT ![r] = [@ EXCEPT ![b] = v]]
  PROVE  \A q \in R : g[q][0] = f[q][0]
OBVIOUS

\* No step of a command moves a main, in a checkout or on the fork.
MainStep ==
  Tool \/ Die =>
    \A r \in Repo : local'[r][0] = local[r][0] /\ origin'[r][0] = origin[r][0]

(* Commits reach main only by review: whatever was recorded, merged or       *)
(* checked out in between and wherever an earlier run died, neither bump nor *)
(* reconcile commits to main or pushes it (bump_downstream.py:428-466).      *)
THEOREM OnlyReviewMovesMain == Spec => [][MainStep]_vars
<1>1. ASSUME ChainInv, OffMain, [Next]_vars, Tool \/ Die, NEW r \in Repo
      PROVE  local'[r][0] = local[r][0] /\ origin'[r][0] = origin[r][0]
  <2>1. /\ local \in [Repo -> [Branch -> 0..MaxCommits[length]]]
        /\ origin \in [Repo -> [Branch -> 0..MaxCommits[length]]]
        /\ cmd.h \in Repo /\ 0 \in Branch
    BY <1>1, HopType, Sizes DEF GitInv, GitTyped, Branch
  <2>2. CASE local' = local /\ origin' = origin
    BY <2>2
  <2>3. ASSUME NEW b, b # 0, NEW v, origin' = origin,
               local' = [local EXCEPT ![cmd.h] = [@ EXCEPT ![b] = v]]
        PROVE  local'[r][0] = local[r][0] /\ origin'[r][0] = origin[r][0]
    BY <2>1, <2>3, MainKept
  <2>4. CASE FreshBranch /\ ~(local' = local)
    <3>1. /\ local' = [local EXCEPT ![cmd.h] = [@ EXCEPT ![BranchName] = Tip(cmd.h)]]
          /\ origin' = origin
      BY <2>4 DEF FreshBranch, CheckoutNew
    <3>2. BranchName # 0
      BY <1>1, <2>4 DEF FreshBranch, OffMain, OnBranch, BranchName
    <3> QED BY <2>3, <3>1, <3>2
  <2>5. CASE GatePasses
    <3>1. /\ local' = [local EXCEPT ![cmd.h] =
                         [@ EXCEPT ![head[cmd.h]] = Len(commits[cmd.h]) + 1]]
          /\ origin' = origin
      BY <2>5 DEF GatePasses
    <3>2. head[cmd.h] # 0
      BY <1>1, <2>5 DEF GatePasses, OffMain, OnBranch
    <3> QED BY <2>3, <3>1, <3>2
  <2>6. CASE Push /\ ~(origin' = origin)
    <3>1. /\ origin' = [origin EXCEPT ![cmd.h] = [@ EXCEPT ![head[cmd.h]] = Tip(cmd.h)]]
          /\ local' = local
      BY <2>6 DEF Push
    <3>2. head[cmd.h] # 0
      BY <1>1, <2>6 DEF Push, OffMain, OnBranch
    <3> QED BY <2>1, <3>1, <3>2, MainKept
  <2>7. CASE Scan /\ ~(local' = local)
    <3> DEFINE shas == [d \in Repo |-> IF d < cmd.h THEN MainTip(d) ELSE 0]
    <3>1. /\ local' = [local EXCEPT ![cmd.h] = [@ EXCEPT ![shas[Trigger(cmd.h)]] = Tip(cmd.h)]]
          /\ origin' = origin
      BY <2>7 DEF Scan, CheckoutNew
    <3>2. shas[Trigger(cmd.h)] # 0
      BY <1>1, TriggerType
    <3> HIDE DEF shas
    <3> QED BY <2>3, <3>1, <3>2
  <2>8. CASE Tool
    <3>1. CASE Resolve \/ AlreadyCurrent \/ Resume \/ Reconciled
      <4> QED BY <2>2, <3>1 DEF Resolve, AlreadyCurrent, Resume, Reconciled, git
    <3>2. CASE GateFails \/ SkipPr \/ CreatePr \/ Save
      <4> QED BY <2>2, <3>2 DEF GateFails, SkipPr, CreatePr, Save, git
    <3>3. CASE \E d \in Repo : Pin(d)
      <4> QED BY <2>2, <3>3 DEF Pin
    <3>4. CASE FreshBranch
      <4>1. origin' = origin  BY <3>4 DEF FreshBranch
      <4> QED BY <2>2, <2>4, <3>4, <4>1
    <3>5. CASE Push
      <4>1. local' = local  BY <3>5 DEF Push
      <4> QED BY <2>2, <2>6, <3>5, <4>1
    <3>6. CASE Scan
      <4>1. origin' = origin  BY <3>6 DEF Scan, git
      <4> QED BY <2>2, <2>7, <3>6, <4>1
    <3> QED
      BY <2>5, <2>8, <3>1, <3>2, <3>3, <3>4, <3>5, <3>6
      DEF Tool, BumperRun, ReconcileHop, Gated, Finalize
  <2>9. CASE Die
    BY <2>2, <2>9 DEF Die, git
  <2> QED BY <1>1, <2>8, <2>9
<1>2. ChainInv /\ OffMain /\ [Next]_vars => [MainStep]_vars
  BY <1>1 DEF MainStep
<1> QED BY <1>2, OffMainInductive, PTL DEF Spec

\* A step of a command that adds a commit adds one, to the hop under way, and
\* its pins are those the command read.
CommitStepOnly ==
  Tool \/ Die => \A r \in Repo : commits'[r] # commits[r] =>
    /\ r = cmd.h
    /\ commits'[r] = Append(commits[r], [anc  |-> Anc(r, Tip(r)) \cup {Len(commits[r]) + 1},
                                         pins |-> tree[r]])
    /\ \A d \in 1..(r - 1) : tree[r][d] = job.shas[d]

(* What is tested and committed is exactly what the command read of its      *)
(* dependencies, though it is written entry by entry into a tree that an     *)
(* earlier run may have left half written (PinWriter.pin, Bumper._finalize). *)
THEOREM CommitsWhatItRead == Spec => [][CommitStepOnly]_vars
<1>1. ASSUME ChainInv, [Next]_vars, Tool, NEW r \in Repo, commits'[r] # commits[r]
      PROVE  GatePasses
  <2>1. commits' # commits  BY <1>1
  <2>2. ~(Resolve \/ AlreadyCurrent \/ Resume \/ Reconciled \/ Scan)
    BY <2>1 DEF Resolve, AlreadyCurrent, Resume, Reconciled, Scan, git
  <2>3. ~(GateFails \/ SkipPr \/ CreatePr \/ Save \/ Push \/ FreshBranch)
    BY <2>1 DEF GateFails, SkipPr, CreatePr, Save, Push, FreshBranch, git
  <2>4. ~(\E d \in Repo : Pin(d))
    BY <2>1 DEF Pin
  <2> QED
    BY <1>1, <2>2, <2>3, <2>4 DEF Tool, BumperRun, ReconcileHop, Gated, Finalize
<1>2. ASSUME ChainInv, GatePasses, NEW r \in Repo, commits'[r] # commits[r]
      PROVE  /\ r = cmd.h
             /\ commits'[r] = Append(commits[r],
                  [anc |-> Anc(r, Tip(r)) \cup {Len(commits[r]) + 1}, pins |-> tree[r]])
             /\ \A d \in 1..(r - 1) : tree[r][d] = job.shas[d]
  <2>1. /\ commits \in [Repo -> Seq(Commit)] /\ cmd.h \in Repo
    BY <1>2, HopType DEF GitInv, GitTyped
  <2>2. commits' = [commits EXCEPT ![cmd.h] =
          Append(@, [anc |-> Anc(cmd.h, Tip(cmd.h)) \cup {Len(@) + 1}, pins |-> tree[cmd.h]])]
    BY <1>2 DEF GatePasses, NewCommit
  <2>3. r = cmd.h
    BY <1>2, <2>1, <2>2
  <2>4. commits'[r] = Append(commits[r],
          [anc |-> Anc(r, Tip(r)) \cup {Len(commits[r]) + 1}, pins |-> tree[r]])
    BY <2>1, <2>2, <2>3
  <2>5. \A d \in 1..(r - 1) : tree[r][d] = job.shas[d]
    BY <1>2, <2>3 DEF GatePasses, ChainInv, JobRead, Written
  <2> QED BY <2>3, <2>4, <2>5
<1>3. ASSUME Die, NEW r \in Repo  PROVE commits'[r] = commits[r]
  BY <1>3 DEF Die, git
<1>4. ChainInv /\ [Next]_vars => [CommitStepOnly]_vars
  <2> SUFFICES ASSUME ChainInv, [Next]_vars, Tool \/ Die, NEW r \in Repo,
                      commits'[r] # commits[r]
               PROVE  /\ r = cmd.h
                      /\ commits'[r] = Append(commits[r],
                           [anc |-> Anc(r, Tip(r)) \cup {Len(commits[r]) + 1}, pins |-> tree[r]])
                      /\ \A d \in 1..(r - 1) : tree[r][d] = job.shas[d]
    BY DEF CommitStepOnly
  <2>1. ~Die  BY <1>3
  <2>2. Tool  BY <2>1
  <2> QED BY <1>1, <1>2, <2>2
<1> QED BY <1>4, ChainInductive, PTL DEF Spec
=============================================================================
