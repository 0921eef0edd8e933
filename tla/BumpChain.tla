----------------------------- MODULE BumpChain -----------------------------
(***************************************************************************)
(* ci/bump_downstream.py: the pin chain contracts -> ledger -> engine ->   *)
(* traust.  Repository r pins the commits of repositories 1..r-1; the tool *)
(* walks checkouts on one disk, the remotes on the developer's fork and    *)
(* the pull requests upstream, and may die at any step.  Between its steps *)
(* the developer and the reviewers of the pull requests act.               *)
(*                                                                         *)
(* A commit is its number in its repository; 0 is the release tag a pin    *)
(* names before the first bump.  Branch 0 is main; a hop's other branches  *)
(* are named by the commit of its trigger.  Only the pins of a tree are    *)
(* kept: uv.lock and the dropped floor are functions of them.              *)
(***************************************************************************)
EXTENDS Integers, Sequences, FiniteSets

CONSTANTS
  Lengths,     \* repositories in a chain
  MaxCommits,  \* bound: commits per repository, in a chain of that length
  MaxPrs,      \* bound: pull requests per repository
  MaxMoves,    \* bound: steps of the developer and the reviewers
  Developed    \* repositories a developer commits to by hand

ASSUME ChainAssumption ==
  \A k \in Lengths :
    /\ k \in Nat /\ k >= 2
    /\ MaxCommits[k] \in Nat \ {0}
    /\ MaxPrs[k] \in Nat
    /\ MaxMoves[k] \in Nat

VARIABLES
  length,   \* of this chain; it never changes
  commits,  \* per repository, the commits ever made: [anc, pins]
  local,    \* per repository, branch -> its tip in the checkout, 0: none
  origin,   \* the same on the fork
  head,     \* per repository, the branch checked out
  tree,     \* per repository, the pins in the working tree
  prs,      \* per repository, the pull requests opened: [branch, merged]
  record,   \* .chain-state.json: per repository [pr, branch], pr 0: none
  cmd,      \* the command under way: [op, all, h, push, pr]
  pc,       \* its next step, or how it ended
  job,      \* what the hop under way has read: [shas, resuming, dirty]
  todo,     \* the dependencies whose pins are still to be written
  changed,  \* a pin written differs from the one before
  quiet,    \* nobody else has acted since the command started
  moves     \* steps of everybody else, for the bound

Repo == 1..length
Hop == 2..length
Sha == 1..MaxCommits[length]
Branch == 0..MaxCommits[length]
Pins == [Repo -> 0..MaxCommits[length]]
Trigger(h) == h - 1

git == <<commits, local, origin, head, tree>>
vars == <<length, git, prs, record, cmd, pc, job, todo, changed, quiet, moves>>

Ended == {"idle", "ok", "gate", "error"}
Job == [shas : Pins, resuming : BOOLEAN, dirty : BOOLEAN]
Commit == [anc : SUBSET Sha, pins : Pins]

TypeOK ==
  /\ length \in Lengths
  /\ commits \in [Repo -> Seq(Commit)]
  /\ \A r \in Repo : Len(commits[r]) \in Sha
  /\ local \in [Repo -> [Branch -> 0..MaxCommits[length]]]
  /\ origin \in [Repo -> [Branch -> 0..MaxCommits[length]]]
  /\ head \in [Repo -> Branch]
  /\ tree \in [Repo -> Pins]
  /\ prs \in [Repo -> Seq([branch : Branch, merged : BOOLEAN])]
  /\ record \in [Repo -> [pr : 0..MaxPrs[length], branch : Branch]]
  /\ cmd \in [op : {"bump", "reconcile"}, all : BOOLEAN, h : Hop, push : BOOLEAN, pr : BOOLEAN]
  /\ pc \in Ended \cup {"resolve", "pin", "cases", "test", "push", "record", "save"}
  /\ job \in Job
  /\ todo \subseteq Repo
  /\ changed \in BOOLEAN
  /\ quiet \in BOOLEAN
  /\ moves \in 0..MaxMoves[length]
  /\ \A r \in Repo : local[r][head[r]] # 0
  /\ \A r \in Repo, b \in Branch : {local[r][b], origin[r][b]} \subseteq 0..Len(commits[r])

NoPins == [d \in Repo |-> 0]
NoJob == [shas |-> NoPins, resuming |-> FALSE, dirty |-> FALSE]
NoCmd == [op |-> "bump", all |-> FALSE, h |-> 2, push |-> FALSE, pr |-> FALSE]

Init ==
  /\ length \in Lengths
  /\ commits = [r \in Repo |-> <<[anc |-> {1}, pins |-> NoPins]>>]
  /\ local = [r \in Repo |-> [b \in Branch |-> IF b = 0 THEN 1 ELSE 0]]
  /\ origin = local
  /\ head = [r \in Repo |-> 0]
  /\ tree = [r \in Repo |-> NoPins]
  /\ prs = [r \in Repo |-> <<>>]
  /\ record = [r \in Repo |-> [pr |-> 0, branch |-> 0]]
  /\ cmd = NoCmd
  /\ pc = "idle"
  /\ job = NoJob
  /\ todo = {}
  /\ changed = FALSE
  /\ quiet = TRUE
  /\ moves = 0

-----------------------------------------------------------------------------
(* Git.                                                                    *)

Tip(r) == local[r][head[r]]
Anc(r, c) == commits[r][c].anc
Dirty(r) == tree[r] # commits[r][Tip(r)].pins

(* remote_has: some ref of the fork contains the commit.                   *)
OnOrigin(r, c) == \E b \in Branch : origin[r][b] # 0 /\ c \in Anc(r, origin[r][b])

(* ancestor_of a dependency's origin/main; a tag is not a sha.             *)
Reachable(d, c) == c # 0 /\ c \in Anc(d, origin[d][0])

(* verified_head: HEAD is origin/main or ahead of it.                      *)
Verified(r) == origin[r][0] \in Anc(r, Tip(r))

(* Mutants: a commit without its history; a pin on main instead of HEAD;   *)
(* one nobody pushed; a checkout instead of the fetched main; a branch     *)
(* without a tip.                                                          *)
NewCommit_Orphan(r, anc, pins) ==
  /\ Len(commits[r]) < MaxCommits[length]
  /\ commits' = [commits EXCEPT ![r] = Append(@, [anc |-> {Len(@) + 1}, pins |-> pins])]
HeadSha_Main(d) == origin[d][0]
Trusted_Unpushed(d) == Verified(d)
MainTip_Checkout(d) == Tip(d)
CheckoutNew_Unborn(r, b) == head' = [head EXCEPT ![r] = b] /\ UNCHANGED local

(* The commit bump pins: HEAD, trusted once verified and on the fork.      *)
HeadSha(d) == Tip(d)
Trusted(d) == Verified(d) /\ OnOrigin(d, HeadSha(d))

(* The commit reconcile pins: origin/main after a fetch.                   *)
MainTip(d) == origin[d][0]

NewCommit(r, anc, pins) ==
  /\ Len(commits[r]) < MaxCommits[length]
  /\ commits' = [commits EXCEPT ![r] = Append(@, [anc |-> anc \cup {Len(@) + 1}, pins |-> pins])]

CheckoutNew(r, b) ==
  /\ local' = [local EXCEPT ![r] = [@ EXCEPT ![b] = Tip(r)]]
  /\ head' = [head EXCEPT ![r] = b]

(* The branch of a hop for the commits a command resolved.                 *)
BranchName == job.shas[Trigger(cmd.h)]

-----------------------------------------------------------------------------
(* The commands.                                                           *)

Forget == job' = NoJob /\ todo' = {} /\ changed' = FALSE

Continue(step) == pc' = step /\ UNCHANGED <<cmd, job, todo, changed>>

Stop(how) == pc' = how /\ Forget /\ UNCHANGED cmd

(* chain and reconcile without a target go on to the next hop.             *)
Done ==
  IF cmd.all /\ cmd.h < length
    THEN pc' = "resolve" /\ Forget /\ cmd' = [op |-> cmd.op, all |-> TRUE, h |-> cmd.h + 1, push |-> cmd.push, pr |-> cmd.pr]
    ELSE Stop("ok")

(* main: bump H, chain or reconcile [H]; --open-pr implies --push, and     *)
(* reconcile always pushes and opens a pull request if none is recorded.   *)
Start(op, all, h, push, pr) ==
  /\ pc \in Ended
  /\ op = "reconcile" => push /\ pr
  /\ pr => push
  /\ all => h = 2
  /\ pr => \A r \in Hop : Len(prs[r]) < MaxPrs[length]
  /\ cmd' = [op |-> op, all |-> all, h |-> h, push |-> push, pr |-> pr]
  /\ pc' = "resolve"
  /\ quiet' = TRUE
  /\ UNCHANGED <<git, prs, record, job, todo, changed, moves>>

(* cmd_bump and the checks at the head of Bumper.run.                      *)
Resolve ==
  LET h == cmd.h
      shas == [d \in Repo |-> IF d < h THEN HeadSha(d) ELSE 0]
      resuming == head[h] = shas[Trigger(h)]
  IN
  /\ pc = "resolve" /\ cmd.op = "bump"
  /\ UNCHANGED <<git, prs, record, quiet, moves>>
  /\ \/ /\ \A d \in 1..(h - 1) : Trusted(d)
        /\ Dirty(h) => resuming
        /\ job' = [shas |-> shas, resuming |-> resuming, dirty |-> Dirty(h)]
        /\ todo' = 1..(h - 1)
        /\ changed' = FALSE
        /\ pc' = "pin"
        /\ UNCHANGED cmd
     \/ /\ \/ \E d \in 1..(h - 1) : ~Trusted(d)
           \/ Dirty(h) /\ ~resuming
        /\ Stop("error")

(* PinWriter.pin: each dependency's entry is a write of pyproject.toml.    *)
Pin(d) ==
  /\ pc = "pin"
  /\ d \in todo /\ \A e \in todo : d <= e
  /\ tree' = [tree EXCEPT ![cmd.h] = [@ EXCEPT ![d] = job.shas[d]]]
  /\ changed' = (changed \/ tree[cmd.h][d] # job.shas[d])
  /\ todo' = todo \ {d}
  /\ pc' = IF todo = {d} THEN "cases" ELSE "pin"
  /\ UNCHANGED <<commits, local, origin, head, prs, record, cmd, job, quiet, moves>>

(* Case 1: the pins are current.                                           *)
AlreadyCurrent ==
  /\ pc = "cases" /\ cmd.op = "bump"
  /\ ~job.resuming /\ ~changed
  /\ Done
  /\ UNCHANGED <<git, prs, record, quiet, moves>>

(* Case 2: a fresh branch; git refuses one that exists.                    *)
FreshBranch ==
  /\ pc = "cases" /\ cmd.op = "bump"
  /\ ~job.resuming /\ changed
  /\ \/ /\ local[cmd.h][BranchName] = 0
        /\ CheckoutNew(cmd.h, BranchName)
        /\ Continue("test")
     \/ /\ local[cmd.h][BranchName] # 0
        /\ Stop("error")
        /\ UNCHANGED <<local, head>>
  /\ UNCHANGED <<commits, origin, tree, prs, record, quiet, moves>>

(* Cases 3 and 4: the branch of an earlier run, unfinished or complete.    *)
Resume ==
  /\ pc = "cases" /\ cmd.op = "bump"
  /\ job.resuming
  /\ Continue(IF job.dirty \/ changed THEN "test" ELSE "push")
  /\ UNCHANGED <<git, prs, record, quiet, moves>>

(* make test fails, which bump reports and anything else raises: the tree  *)
(* keeps its pins.                                                         *)
GateFails ==
  /\ pc = "test"
  /\ Stop("error") \/ (cmd.op = "bump" /\ Stop("gate"))
  /\ UNCHANGED <<git, prs, record, quiet, moves>>

(* Lock and test pass and the tree is committed; git commits no empty      *)
(* change.                                                                 *)
GatePasses ==
  /\ pc = "test"
  /\ Dirty(cmd.h)
  /\ NewCommit(cmd.h, Anc(cmd.h, Tip(cmd.h)), tree[cmd.h])
  /\ local' = [local EXCEPT ![cmd.h] = [@ EXCEPT ![head[cmd.h]] = Len(commits[cmd.h]) + 1]]
  /\ Continue("push")
  /\ UNCHANGED <<origin, head, tree, prs, record, quiet, moves>>

(* git push of the hop's branch: fast-forward only.                        *)
Push ==
  LET h == cmd.h
      b == head[h]
  IN
  /\ pc = "push"
  /\ \/ ~cmd.push /\ Done /\ UNCHANGED origin
     \/ /\ cmd.push
        /\ origin[h][b] = 0 \/ origin[h][b] \in Anc(h, Tip(h))
        /\ origin' = [origin EXCEPT ![h] = [@ EXCEPT ![b] = Tip(h)]]
        /\ Continue("record")
     \/ /\ cmd.push
        /\ origin[h][b] # 0 /\ origin[h][b] \notin Anc(h, Tip(h))
        /\ Stop("error")
        /\ UNCHANGED origin
  /\ UNCHANGED <<commits, local, head, tree, prs, record, quiet, moves>>

(* record.update: the branch is replaced, the number of the pull request   *)
(* stays.                                                                  *)
SaveRecord(pr) == record' = [record EXCEPT ![cmd.h] = [pr |-> pr, branch |-> head[cmd.h]]]

(* No pull request is asked for, or one is recorded: only the record is    *)
(* saved.                                                                  *)
SkipPr ==
  /\ pc = "record"
  /\ cmd.pr => record[cmd.h].pr # 0
  /\ SaveRecord(record[cmd.h].pr)
  /\ Done
  /\ UNCHANGED <<git, prs, quiet, moves>>

(* gh pr create; it fails when the branch already has an open one.         *)
CreatePr ==
  LET h == cmd.h
      open == \E i \in DOMAIN prs[h] : prs[h][i].branch = head[h] /\ ~prs[h][i].merged
  IN
  /\ pc = "record"
  /\ cmd.pr /\ record[h].pr = 0
  /\ \/ /\ ~open
        /\ prs' = [prs EXCEPT ![h] = Append(@, [branch |-> head[h], merged |-> FALSE])]
        /\ Continue("save")
     \/ open /\ Stop("error") /\ UNCHANGED prs
  /\ UNCHANGED <<git, record, quiet, moves>>

Save ==
  /\ pc = "save"
  /\ SaveRecord(Len(prs[cmd.h]))
  /\ Done
  /\ UNCHANGED <<git, prs, quiet, moves>>

(* cmd_status: what is printed of a hop's pin.                             *)
PinStatus(h, d) ==
  CASE tree[h][d] = origin[d][0] -> "CURRENT"
    [] tree[h][d] # origin[d][0] /\ Reachable(d, tree[h][d]) -> "BEHIND"
    [] OTHER -> "DANGLING"

(* The dependencies whose pin is not on their origin/main.                 *)
Stale(h) == {d \in 1..(h - 1) : ~Reachable(d, tree[h][d])}

(* gh pr view: the hop's recorded pull request is merged.                  *)
OwnPrMerged(h) == record[h].pr \in {i \in DOMAIN prs[h] : prs[h][i].merged}

(* reconcile_hop up to the branch it works on.                             *)
Scan ==
  LET h == cmd.h
      shas == [d \in Repo |-> IF d < h THEN MainTip(d) ELSE 0]
      pr == record[h].pr
      b == IF pr = 0 THEN shas[Trigger(h)] ELSE record[h].branch
  IN
  /\ pc = "resolve" /\ cmd.op = "reconcile"
  /\ \/ /\ Stale(h) = {} \/ OwnPrMerged(h)
        /\ Done
        /\ UNCHANGED <<local, head, tree>>
     \/ /\ Stale(h) # {} /\ ~OwnPrMerged(h)
        /\ Dirty(h) \/ (pr = 0 /\ local[h][b] # 0)
        /\ Stop("error")
        /\ UNCHANGED <<local, head, tree>>
     \/ /\ Stale(h) # {} /\ ~OwnPrMerged(h)
        /\ ~Dirty(h) /\ (pr = 0 => local[h][b] = 0)
        /\ IF pr = 0
             THEN CheckoutNew(h, b) /\ UNCHANGED tree
             ELSE /\ head' = [head EXCEPT ![h] = b]
                  /\ tree' = [tree EXCEPT ![h] = commits[h][local[h][b]].pins]
                  /\ UNCHANGED local
        /\ job' = [shas |-> shas, resuming |-> FALSE, dirty |-> FALSE]
        /\ todo' = 1..(h - 1)
        /\ changed' = FALSE
        /\ pc' = "pin"
        /\ UNCHANGED cmd
  /\ UNCHANGED <<commits, origin, prs, record, quiet, moves>>

Reconciled ==
  /\ pc = "cases" /\ cmd.op = "reconcile"
  /\ IF changed THEN Continue("test") ELSE Done
  /\ UNCHANGED <<git, prs, record, quiet, moves>>

(* The process is killed, or a command it runs fails where the tool does   *)
(* not look.                                                               *)
Die ==
  /\ pc \notin Ended
  /\ Stop("error")
  /\ UNCHANGED <<git, prs, record, quiet, moves>>

(* Bumper.run, Bumper._finalize and reconcile_hop share their steps.       *)
BumperRun ==
  Resolve \/ AlreadyCurrent \/ FreshBranch \/ Resume

ReconcileHop ==
  Scan \/ Reconciled

Gated ==
  (\E d \in Repo : Pin(d)) \/ GateFails \/ GatePasses

Finalize ==
  Push \/ SkipPr \/ CreatePr \/ Save

Tool == BumperRun \/ ReconcileHop \/ Gated \/ Finalize

-----------------------------------------------------------------------------
(* Everybody else; nobody touches the repository of the hop under way.     *)

Free(r) == pc \in Ended \/ cmd.h # r

Others ==
  /\ quiet' = FALSE
  /\ moves < MaxMoves[length] /\ moves' = moves + 1
  /\ IF pc \in Ended THEN pc' = "idle" /\ cmd' = NoCmd ELSE UNCHANGED <<pc, cmd>>
  /\ UNCHANGED <<record, job, todo, changed>>

(* A developer commits on the branch checked out, or on a new one of the   *)
(* root.                                                                   *)
Develop(r) ==
  LET n == Len(commits[r]) + 1 IN
  /\ r \in Developed /\ Free(r) /\ ~Dirty(r)
  /\ NewCommit(r, Anc(r, Tip(r)), tree[r])
  /\ \E b \in {head[r]} \cup (IF r = 1 THEN {n} ELSE {}) :
       /\ local' = [local EXCEPT ![r] = [@ EXCEPT ![b] = n]]
       /\ head' = [head EXCEPT ![r] = b]
  /\ Others
  /\ UNCHANGED <<origin, tree, prs>>

(* and pushes it.                                                          *)
Publish(r) ==
  /\ r \in Developed /\ Free(r) /\ origin[r][head[r]] # Tip(r)
  /\ origin[r][head[r]] = 0 \/ origin[r][head[r]] \in Anc(r, Tip(r))
  /\ origin' = [origin EXCEPT ![r] = [@ EXCEPT ![head[r]] = Tip(r)]]
  /\ Others
  /\ UNCHANGED <<commits, local, head, tree, prs>>

(* Upstream merges a branch, with a merge commit or squashed, and the fork *)
(* follows.                                                                *)
Merge(r, b, squash) ==
  LET tip == origin[r][b]
      main == origin[r][0]
  IN
  /\ b # 0 /\ tip # 0 /\ tip \notin Anc(r, main)
  /\ r = 1 \/ \E i \in DOMAIN prs[r] : prs[r][i].branch = b /\ ~prs[r][i].merged
  /\ NewCommit(r, Anc(r, main) \cup (IF squash THEN {} ELSE Anc(r, tip)), commits[r][tip].pins)
  /\ origin' = [origin EXCEPT ![r] = [@ EXCEPT ![0] = Len(commits[r]) + 1]]
  /\ prs' = [prs EXCEPT ![r] = [i \in DOMAIN @ |->
       [branch |-> @[i].branch, merged |-> @[i].merged \/ @[i].branch = b]]]
  /\ Others
  /\ UNCHANGED <<local, head, tree>>

(* git checkout main and git pull.                                         *)
Sync(r) ==
  /\ Free(r) /\ ~Dirty(r)
  /\ local[r][0] \in Anc(r, origin[r][0])
  /\ local' = [local EXCEPT ![r] = [@ EXCEPT ![0] = origin[r][0]]]
  /\ head' = [head EXCEPT ![r] = 0]
  /\ tree' = [tree EXCEPT ![r] = commits[r][origin[r][0]].pins]
  /\ Others
  /\ UNCHANGED <<commits, origin, prs>>

(* git checkout of another branch, or of the files of this one.            *)
Checkout(r, b) ==
  /\ Free(r) /\ local[r][b] # 0
  /\ Dirty(r) <=> b = head[r]
  /\ head' = [head EXCEPT ![r] = b]
  /\ tree' = [tree EXCEPT ![r] = commits[r][local[r][b]].pins]
  /\ Others
  /\ UNCHANGED <<commits, local, origin, prs>>

Environment ==
  \E r \in Repo :
    \/ Develop(r) \/ Publish(r) \/ Sync(r)
    \/ \E b \in Branch : Checkout(r, b) \/ Merge(r, b, TRUE) \/ Merge(r, b, FALSE)

Next ==
  /\ \/ \E op \in {"bump", "reconcile"}, all, push, pr \in BOOLEAN, h \in Hop : Start(op, all, h, push, pr)
     \/ Tool \/ Die
     \/ Environment
  /\ UNCHANGED length

Spec == Init /\ [][Next]_vars

-----------------------------------------------------------------------------
(* Whatever a commit or a working tree of the chain pins can be fetched    *)
(* from the fork: remote_has is asked for HEADs that move afterwards, of   *)
(* branches that grow and are merged.                                      *)
PinsOnOrigin ==
  \A h \in Repo : \A d \in 1..(h - 1) :
    \A p \in {tree[h][d]} \cup {commits[h][i].pins[d] : i \in DOMAIN commits[h]} :
      p # 0 => OnOrigin(d, p)

(* A chain that ends well with nobody in its way leaves one version of     *)
(* every repository in all of them: each hop pins the HEAD of each         *)
(* dependency, so the pins it shares with a dependency agree.              *)
ChainAgrees ==
  pc = "ok" /\ cmd.op = "bump" /\ cmd.all /\ quiet =>
    \A h \in Hop : \A d \in 1..(h - 1) :
      /\ commits[h][Tip(h)].pins[d] = Tip(d)
      /\ \A e \in 1..(d - 1) : commits[h][Tip(h)].pins[e] = commits[d][Tip(d)].pins[e]

(* What reconcile commits, and pushes to a pull request, is reachable from *)
(* every dependency's main, though main moves while it locks and tests.    *)
ReconcileRepairs ==
  pc \in {"push", "record", "save"} /\ cmd.op = "reconcile" =>
    \A d \in 1..(cmd.h - 1) : Reachable(d, commits[cmd.h][Tip(cmd.h)].pins[d])

(* "reachability answers is this pin valid (never flips back to no once    *)
(* true)": whatever is merged, squashed and pushed, status calls a pin     *)
(* DANGLING that it did not before only when the pin itself is another.    *)
ValidPinsStayValid ==
  [][\A h \in Repo : \A d \in 1..(h - 1) :
       PinStatus(h, d) # "DANGLING" /\ tree'[h][d] = tree[h][d] => PinStatus(h, d)' # "DANGLING"]_vars

(* --open-pr: "`gh pr create` opens the PR against main and the PR number  *)
(* is recorded" (ci/bump_downstream.py:26), so a hop finished with it has  *)
(* a pull request for its branch.                                          *)
OpenPrOpens ==
  pc = "ok" /\ cmd.op = "bump" /\ cmd.pr /\ quiet /\ head[cmd.h] = Tip(Trigger(cmd.h)) =>
    \E i \in DOMAIN prs[cmd.h] : prs[cmd.h][i].branch = head[cmd.h]
=============================================================================
