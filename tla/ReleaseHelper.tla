--------------------------- MODULE ReleaseHelper ---------------------------
(***************************************************************************)
(* release.py and the gates of ci/gates.py around it.  A change is made in *)
(* a checkout, passes the merge gate on its way to main, and main is       *)
(* tagged by release-if-ready in a fresh clone, or by hand, from whichever *)
(* branch is checked out.  A command may fail or be killed between any two *)
(* of its writes, tags and pushes, and someone may edit the checkout while *)
(* it tests and builds.                                                    *)
(*                                                                         *)
(* A branch is the sequence of its commits, and so is a tag: the commit it *)
(* names, with all that lead to it.                                        *)
(***************************************************************************)
EXTENDS Integers, Sequences, SequencesExt

CONSTANTS
  MaxCommits,  \* bound: commits of the branch, for each practice
  Kinds,       \* bound: the kinds of commit made, for each practice
  Versions,    \* bound: the versions set, for each practice
  MaxFails,    \* bound: commands that fail on the way, for each practice
  MaxByHand    \* bound: commits, sections and commands given by hand

(* How releases are made: the pipeline tags what bump major, minor or patch *)
(* set; bump is also given versions X.Y.Z; versions are also tagged and     *)
(* pushed by hand, from main or from another branch.                        *)
Practice == {"pipeline", "any version", "by hand"}
Kind == {"merge", "other", "fix", "feat", "breaking"}

ASSUME ReleaseAssumption ==
  /\ MaxCommits \in [Practice -> Nat \ {0}] /\ MaxFails \in [Practice -> Nat]
  /\ MaxByHand \in Nat
  /\ Kinds \in [Practice -> SUBSET Kind]
  /\ DOMAIN Versions = Practice
  /\ \A p \in Practice : <<0, 0, 0>> \in Versions[p] /\ Versions[p] \subseteq Nat \X Nat \X Nat

Branches == {"main", "topic"}
Version == UNION {Versions[p] : p \in Practice}
Zero == <<0, 0, 0>>
Commit == [version : Version, pyproject : Version, changelog : SUBSET Version, kind : Kind]

VARIABLES
  history,    \* the commits of the branch checked out
  branch,     \* its name
  vfile,      \* VERSION in the working tree
  pyproject,  \* [project] version in the working tree
  changelog,  \* sections of CHANGELOG.md in the working tree
  tags,       \* local tags: version -> the commits up to it, None: no tag
  rtags,      \* tags on origin
  origin,     \* branches on origin: name -> commits, None: no branch
  pc,         \* the next step of the command under way
  opts,       \* [force, dirty, push, ver]: its options and its version
  used,       \* [fails, byhand]: what the bounds allow of, so far
  waived,     \* versions tagged with --allow-dirty, or while someone edited
  strayed,    \* versions whose tag was pushed from a branch it is not on, or
              \* left behind by a forced push
  practice    \* how releases are made in this behaviour

tree == <<vfile, pyproject, changelog>>
checkout == <<history, branch>>
remote == <<rtags, origin, strayed>>
vars == <<checkout, tree, tags, remote, pc, opts, used, waived, practice>>

None == <<>>

TypeOK ==
  /\ history \in Seq(Commit) /\ Len(history) \in 1..MaxCommits[practice] /\ branch \in Branches
  /\ vfile \in Version /\ pyproject \in Version /\ changelog \subseteq Version
  /\ tags \in [Version -> Seq(Commit)] /\ rtags \in [Version -> Seq(Commit)]
  /\ origin \in [Branches -> Seq(Commit)]
  /\ Len(origin["main"]) \in 1..MaxCommits[practice]
  /\ pc \in {"idle", "pyproject", "build", "tag", "create", "push", "pushtag"}
  /\ opts \in [force : BOOLEAN, dirty : BOOLEAN, push : BOOLEAN, ver : Version]
  /\ used \in [fails : 0..MaxFails[practice], byhand : 0..MaxByHand]
  /\ waived \subseteq Version /\ strayed \subseteq Version /\ practice \in Practice

NoOpts == [force |-> FALSE, dirty |-> FALSE, push |-> FALSE, ver |-> Zero]
Root == [version |-> Zero, pyproject |-> Zero, changelog |-> {Zero}, kind |-> "other"]
NoTags == [v \in Version |-> None]

Init ==
  /\ history = <<Root>> /\ branch = "main"
  /\ vfile = Zero /\ pyproject = Zero /\ changelog = {Zero}
  /\ tags = [NoTags EXCEPT ![Zero] = history] /\ rtags = tags
  /\ origin = [b \in Branches |-> IF b = "main" THEN history ELSE None]
  /\ pc = "idle" /\ opts = NoOpts /\ used = [fails |-> 0, byhand |-> 0] /\ waived = {} /\ strayed = {}
  /\ practice \in Practice

-----------------------------------------------------------------------------
(* Versions.                                                               *)

Less(v, w) ==
  \/ v[1] < w[1]
  \/ v[1] = w[1] /\ v[2] < w[2]
  \/ v[1] = w[1] /\ v[2] = w[2] /\ v[3] < w[3]

BumpVersion(v, part) ==
  CASE part = "major" -> <<v[1] + 1, 0, 0>>
    [] part = "minor" -> <<v[1], v[2] + 1, 0>>
    [] OTHER -> <<v[1], v[2], v[3] + 1>>

HeadCommit == Last(history)
MainCommit == Last(origin["main"])
Dirty == tree # <<HeadCommit.version, HeadCommit.pyproject, HeadCommit.changelog>>

(* Repo.version refuses files that disagree.                               *)
Readable == vfile = pyproject

(* _require_tag_missing                                                    *)
TagMissing(v, force) == tags[v] = None \/ force

(* Mutant: any version that is not tagged.                                 *)
NewerThan_Any(t, v) == TRUE

(* latest_tag_version: newer than the greatest tag.                        *)
NewerThan(t, v) == \A w \in Version : t[w] # None => Less(w, v)

-----------------------------------------------------------------------------
(* ci/gates.py.                                                            *)

(* bump_level: the loop over the commits of a range; a breaking one ends   *)
(* it, merges, reverts and unconventional subjects are passed over.        *)
BumpLevel(commits) ==
  FoldLeft(LAMBDA level, c :
      CASE level = "major" \/ c.kind = "breaking" -> "major"
        [] level # "major" /\ c.kind = "feat" -> "minor"
        [] level = "none" /\ c.kind = "fix" -> "patch"
        [] OTHER -> level,
    "none", commits)

(* Mutant: a release-worthy change may keep its version.                   *)
CheckReleaseMr_NoBump == vfile \in changelog

(* check_release_mr: main against a branch on top of it; VERSION and       *)
(* CHANGELOG are read from the working tree.                               *)
CheckReleaseMr ==
  LET base == MainCommit.version
      needed == BumpLevel(SubSeq(history, Len(origin["main"]) + 1, Len(history)))
  IN
  IF needed = "none" THEN Less(base, vfile) => vfile \in changelog
                     ELSE Less(base, vfile) /\ vfile \in changelog

-----------------------------------------------------------------------------
(* The commands.  Someone who edits while one runs waives what it checked. *)

Idle == pc = "idle"

(* The bound on what is done by hand where that is how releases are made.  *)
ByHand ==
  IF practice = "by hand" THEN used.byhand < MaxByHand /\ used' = [used EXCEPT !.byhand = @ + 1]
                          ELSE UNCHANGED used
End == pc' = "idle" /\ opts' = NoOpts

(* bump: VERSION is written first, then pyproject.toml.                    *)
Bump(new, force) ==
  /\ Idle /\ Readable
  /\ new \in Versions[practice] \ {vfile} /\ TagMissing(new, force)
  /\ vfile' = new
  /\ pc' = "pyproject"
  /\ UNCHANGED <<checkout, pyproject, changelog, tags, remote, opts, used, waived>>

(* Mutant: the patch number is left out of pyproject.toml.                 *)
WritePyproject_Short ==
  /\ pc = "pyproject"
  /\ pyproject' = <<vfile[1], vfile[2]>>
  /\ End
  /\ UNCHANGED <<checkout, vfile, changelog, tags, remote, used, waived>>

WritePyproject ==
  /\ pc = "pyproject"
  /\ pyproject' = vfile
  /\ End
  /\ UNCHANGED <<checkout, vfile, changelog, tags, remote, used, waived>>

Begin(step, force, dirty, push) ==
  /\ pc' = step
  /\ opts' = [force |-> force, dirty |-> dirty, push |-> push, ver |-> vfile]

(* check, the first step of release.                                       *)
Release(force, dirty, push) ==
  /\ Idle /\ practice = "by hand" /\ ByHand
  /\ Dirty => dirty
  /\ Readable /\ TagMissing(vfile, force)
  /\ Begin("build", force, dirty, push)
  /\ UNCHANGED <<checkout, tree, tags, remote, waived>>

(* The tag command: clean, and the tag at once.                            *)
TagCommand(force, dirty) ==
  /\ Idle /\ practice = "by hand" /\ ByHand
  /\ Dirty => dirty
  /\ Begin("tag", force, dirty, FALSE)
  /\ UNCHANGED <<checkout, tree, tags, remote, waived>>

PushCommand(force) ==
  /\ Idle /\ practice = "by hand" /\ ByHand
  /\ Readable /\ tags[vfile] # None
  /\ Begin("push", force, FALSE, TRUE)
  /\ UNCHANGED <<checkout, tree, tags, remote, waived>>

(* The files of a commit are checked out.                                  *)
CheckedOut(commit) ==
  /\ vfile' = commit.version
  /\ pyproject' = commit.pyproject
  /\ changelog' = commit.changelog

(* A clone of main: what is not on origin is not there.                    *)
Clone ==
  /\ history' = origin["main"] /\ branch' = "main"
  /\ tags' = rtags
  /\ CheckedOut(MainCommit)

(* release_if_ready goes on to a release.                                  *)
Ready ==
  /\ MainCommit.version = MainCommit.pyproject
  /\ rtags[MainCommit.version] = None
  /\ NewerThan(rtags, MainCommit.version)

(* The pipeline of main: release-if-ready --push in a clone.               *)
ReleaseIfReady ==
  /\ Idle /\ Clone /\ Ready
  /\ pc' = "build"
  /\ opts' = [force |-> FALSE, dirty |-> FALSE, push |-> TRUE, ver |-> MainCommit.version]
  /\ UNCHANGED <<remote, used, waived>>

(* The version is tagged, or not newer than every tag, or the files        *)
(* disagree: nothing is released.                                          *)
NothingPending ==
  /\ Idle /\ Clone /\ ~Ready
  /\ UNCHANGED <<remote, pc, opts, used, waived>>

(* test and build take their time and change no tracked file.              *)
Build ==
  /\ pc = "build"
  /\ pc' = "tag"
  /\ UNCHANGED <<checkout, tree, tags, remote, opts, used, waived>>

(* Repo.tag reads the version again; with --force the old tag goes first.  *)
Tag ==
  /\ pc = "tag"
  /\ Readable /\ TagMissing(vfile, opts.force)
  /\ tags' = [tags EXCEPT ![vfile] = None]
  /\ pc' = "create"
  /\ opts' = [force |-> opts.force, dirty |-> opts.dirty, push |-> opts.push, ver |-> vfile]
  /\ UNCHANGED <<checkout, tree, remote, used, waived>>

CreateTag ==
  /\ pc = "create"
  /\ tags' = [tags EXCEPT ![opts.ver] = history]
  /\ waived' = IF opts.dirty THEN waived \cup {opts.ver} ELSE waived
  /\ IF opts.push THEN pc' = "push" /\ UNCHANGED opts ELSE End
  /\ UNCHANGED <<checkout, tree, remote, used>>

(* Repo.push: the branch that is checked out, then the tag. git refuses to *)
(* take a branch back or aside and to move a tag, unless forced.           *)
BranchMoves == opts.force \/ IsPrefix(origin[branch], history)
TagMoves == opts.force \/ rtags[opts.ver] \in {None, tags[opts.ver]}

(* Tags on origin that the push of the branch takes off it.                *)
LeftBehind ==
  {v \in Version : rtags[v] # None /\ IsPrefix(rtags[v], origin[branch])
                                   /\ ~IsPrefix(rtags[v], history)}

(* Mutant: only the tag is pushed.                                         *)
PushBranch_TagOnly ==
  /\ pc = "push"
  /\ Readable /\ tags[vfile] # None
  /\ pc' = "pushtag"
  /\ opts' = [force |-> opts.force, dirty |-> opts.dirty, push |-> TRUE, ver |-> vfile]
  /\ UNCHANGED <<checkout, tree, tags, remote, used, waived>>

PushBranch ==
  /\ pc = "push"
  /\ Readable /\ tags[vfile] # None /\ BranchMoves
  /\ origin' = [origin EXCEPT ![branch] = history]
  /\ strayed' = IF opts.force THEN strayed \cup LeftBehind ELSE strayed
  /\ pc' = "pushtag"
  /\ opts' = [force |-> opts.force, dirty |-> opts.dirty, push |-> TRUE, ver |-> vfile]
  /\ UNCHANGED <<checkout, tree, tags, rtags, used, waived>>

PushTag ==
  /\ pc = "pushtag"
  /\ TagMoves
  /\ rtags' = [rtags EXCEPT ![opts.ver] = tags[opts.ver]]
  /\ strayed' = IF IsPrefix(tags[opts.ver], history) THEN strayed \ {opts.ver}
                                                     ELSE strayed \cup {opts.ver}
  /\ End
  /\ UNCHANGED <<checkout, tree, tags, origin, used, waived>>

(* A step raises, a command it runs fails, or the process is killed.       *)
Fail ==
  /\ pc # "idle" /\ used.fails < MaxFails[practice]
  /\ End
  /\ used' = [used EXCEPT !.fails = @ + 1]
  /\ UNCHANGED <<checkout, tree, tags, remote, waived>>

(* A step whose condition does not hold raises.                            *)
Raise ==
  /\ \/ pc = "tag" /\ ~(Readable /\ TagMissing(vfile, opts.force))
     \/ pc = "push" /\ ~(Readable /\ tags[vfile] # None /\ BranchMoves)
     \/ pc = "pushtag" /\ ~TagMoves
  /\ End
  /\ UNCHANGED <<checkout, tree, tags, remote, used, waived>>

Command == WritePyproject \/ Build \/ Tag \/ CreateTag \/ PushBranch \/ PushTag \/ Raise

-----------------------------------------------------------------------------
(* The developer.                                                          *)

(* The section of the changelog for the version at hand.                   *)
AddSection ==
  /\ Idle /\ ByHand /\ vfile \notin changelog
  /\ changelog' = changelog \cup {vfile}
  /\ UNCHANGED <<checkout, vfile, pyproject, tags, remote, pc, opts, waived>>

CommitTree(kind) ==
  /\ Idle /\ ByHand /\ Len(history) < MaxCommits[practice]
  /\ history' = Append(history, [version |-> vfile, pyproject |-> pyproject,
                                 changelog |-> changelog, kind |-> kind])
  /\ UNCHANGED <<branch, tree, tags, remote, pc, opts, waived>>

(* Another branch from here, or main as it was when last pulled.           *)
Checkout ==
  /\ Idle /\ ~Dirty /\ practice = "by hand"
  /\ \/ branch = "main" /\ branch' = "topic" /\ history' = history
     \/ branch' = "main" /\ \E n \in 1..Len(origin["main"]) : history' = SubSeq(origin["main"], 1, n)
  /\ CheckedOut(Last(history'))
  /\ UNCHANGED <<tags, remote, pc, opts, used, waived>>

(* git checkout of the files, after an interrupted bump say.               *)
Restore ==
  /\ Idle /\ Dirty
  /\ CheckedOut(HeadCommit)
  /\ UNCHANGED <<checkout, tags, remote, pc, opts, used, waived>>

(* Another terminal changes the version while release tests and builds.    *)
EditMeanwhile(v) ==
  /\ pc = "build" /\ practice = "by hand"
  /\ v # vfile
  /\ vfile' = v /\ pyproject' = v
  /\ waived' = waived \cup {v}
  /\ UNCHANGED <<checkout, changelog, tags, remote, pc, opts, used>>

(* The merge: CI runs the gate, and the test that VERSION and              *)
(* pyproject.toml agree, on the head of a clean checkout on top of main.   *)
Land ==
  /\ Idle /\ ~Dirty /\ IsStrictPrefix(origin["main"], history)
  /\ CheckReleaseMr /\ Readable
  /\ origin' = [origin EXCEPT !["main"] = history]
  /\ UNCHANGED <<checkout, tree, tags, rtags, strayed, pc, opts, used, waived>>

Step ==
  \/ \E part \in {"major", "minor", "patch"}, force \in BOOLEAN : Bump(BumpVersion(vfile, part), force)
  \/ \E new \in Versions[practice], force \in BOOLEAN : practice # "pipeline" /\ Bump(new, force)
  \/ \E force, dirty, push \in BOOLEAN : Release(force, dirty, push)
  \/ \E force, dirty \in BOOLEAN : TagCommand(force, dirty)
  \/ \E force \in BOOLEAN : PushCommand(force)
  \/ ReleaseIfReady \/ NothingPending
  \/ Command \/ Fail
  \/ AddSection \/ Restore \/ Checkout \/ Land
  \/ \E kind \in Kinds[practice] : CommitTree(kind)
  \/ \E v \in Versions[practice] : EditMeanwhile(v)

Next == Step /\ UNCHANGED practice

(* The pipeline runs on main again and again, and a command goes on until  *)
(* it ends or fails.                                                       *)
Spec ==
  /\ Init /\ [][Next]_vars
  /\ WF_vars(Command /\ UNCHANGED practice)
  /\ SF_vars(ReleaseIfReady /\ UNCHANGED practice)

-----------------------------------------------------------------------------
(* A tag stands on a commit whose VERSION and pyproject.toml both say its  *)
(* version, locally and on origin, whatever bump, tag or push was          *)
(* interrupted, unless it was made with --allow-dirty or the version was   *)
(* edited while release was testing: check is not repeated then.           *)
TagMatches ==
  \A v \in Version \ waived : \A t \in {tags[v], rtags[v]} :
    t # None => Last(t).version = v /\ Last(t).pyproject = v

(* A tag on origin is on a branch there, which was pushed before it, unless *)
(* the push was of another branch than the tag's or a later one was forced. *)
TagsOnBranch ==
  \A v \in Version \ strayed : rtags[v] # None =>
    \E b \in Branches : IsPrefix(rtags[v], origin[b])

(* Where only the pipeline releases, that branch is main. (By hand it need *)
(* not be: push takes whatever is checked out.)                            *)
TagsOnMain ==
  practice # "by hand" => \A v \in Version : IsPrefix(rtags[v], origin["main"])

(* A version that is tagged can be built from its tag and found on origin. *)
TagsHold == TagMatches /\ TagsOnBranch /\ TagsOnMain

(* The pipeline's tags ascend along main, though main's VERSION may not.   *)
TagsAscend ==
  practice # "by hand" => \A v, w \in Version :
    rtags[v] # None /\ rtags[w] # None /\ Less(v, w) => Len(rtags[v]) < Len(rtags[w])

Worthy == {"fix", "feat", "breaking"}

(* A release-worthy change that passed the gate ends up in a release: the  *)
(* gate asks for a version above main's, the pipeline for one above every  *)
(* tag, and a pipeline that failed after any of its steps is run again.    *)
WorthyReleased ==
  \A i \in 1..MaxCommits["pipeline"] :
    (/\ practice = "pipeline"
     /\ i <= Len(origin["main"]) /\ origin["main"][i].kind \in Worthy)
      ~> (\E v \in Version : i <= Len(rtags[v]))

=============================================================================
