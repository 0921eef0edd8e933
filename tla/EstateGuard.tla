----------------------------- MODULE EstateGuard -----------------------------
(***************************************************************************)
(* The estate-data guard (ci/check_estate_data.py --staged, run by the      *)
(* pre-commit hook) over the commits of two branches and their merges.      *)
(*                                                                          *)
(* A file is its kind and the sequence of its lines, each ended by a        *)
(* newline.  A figure is a line that the guard finds when it is added: its  *)
(* piece after "+" (str.splitlines may break it) matches COUNT_RE or        *)
(* MONEY_RE once quantifiers, line references and thresholds are taken out, *)
(* and has no waiver.  The debt is the figures each file held before the    *)
(* guard was adopted.  git (index, merge, diff, rename detection) is        *)
(* modelled from how the guard uses it.  Commits that run no pre-commit     *)
(* hook (--no-verify, a clean merge, a rebase) and diff.renames=copies are  *)
(* left out.                                                                *)
(***************************************************************************)
EXTENDS Naturals, Sequences, FiniteSets

CONSTANTS
    Files,          \* paths
    Exempt,         \* ALLOWED and the files with one of SKIP_SUFFIXES
    Quoted,         \* paths git quotes in a header: with ", \ or a control character
    Tabbed,         \* paths whose header git ends with a tab: with a space
    Lines,          \* lines of text
    Figures,        \* the lines the guard finds
    Debt,           \* pairs (file, figure) from before the guard
    Contents,       \* the files people write
    DetectRenames,  \* git's diff.renames (on unless configured off)
    FirstTrees,     \* the trees the two branches may start from
    Public,         \* whether the repository is public
    MaxEdits,       \* bound on the edits staged for one commit
    MaxGuardCommits \* bound on the commits

NoFile == [kind |-> "none", lines |-> <<>>]

Tree == [Files -> Contents \cup {NoFile}]

LinesOf(file) == {file.lines[i] : i \in DOMAIN file.lines}

\* The figures in files that are not exempt.
FiguresIn(tree) == {p \in (Files \ Exempt) \X Figures : p[2] \in LinesOf(tree[p[1]])}

\* A link is a symlink, its target its one line; git takes a file for binary
\* that holds a NUL or has the attribute -diff.
ASSUME EstateAssumption ==
    /\ Exempt \subseteq Files /\ Quoted \subseteq Files /\ Tabbed \subseteq Files
    /\ Figures \subseteq Lines
    /\ Contents \subseteq [kind : {"text", "link", "binary"}, lines : Seq(Lines)]
    /\ DetectRenames \in BOOLEAN
    /\ FirstTrees \subseteq Tree
    /\ Debt \subseteq (Files \ Exempt) \X Figures
    /\ \A t \in FirstTrees : FiguresIn(t) \subseteq Debt
    /\ Public \in BOOLEAN
    /\ MaxEdits \in Nat
    /\ MaxGuardCommits \in Nat

VARIABLES
    head,      \* the tree of HEAD
    other,     \* the tree of the branch that is merged (MERGE_HEAD in a merge)
    index,     \* what is staged
    merging,   \* MERGE_HEAD exists
    edits,     \* edits staged since the last commit
    commits,   \* commits so far
    slipped    \* history: the figures of files that a commit did not show the guard

guardVars == <<head, other, index, merging, edits, commits, slipped>>

GuardTypeOK ==
    /\ head \in Tree
    /\ other \in Tree
    /\ index \in Tree
    /\ merging \in BOOLEAN
    /\ edits \in 0..MaxEdits
    /\ commits \in 0..MaxGuardCommits
    /\ slipped \subseteq (Files \ Exempt) \X Figures

GuardInit ==
    /\ head \in FirstTrees
    /\ other \in FirstTrees
    /\ index = head
    /\ merging = FALSE
    /\ edits = 0
    /\ commits = 0
    /\ slipped = {}

-----------------------------------------------------------------------------
(* What git diff --cached --diff-filter=ACM prints for a commit of the tree *)
(* `to` on top of the tree `from`, and what the guard reads in it.          *)

Created(from, to) == {f \in Files : from[f] = NoFile /\ to[f] # NoFile}

\* git pairs a created file with a deleted one when it finds at least half of
\* the larger one's bytes in the other, which may be so when they share a line.
\* Such a file has status R, which ACM leaves out.
Renamable(from, to) ==
    {f \in Created(from, to) :
        /\ DetectRenames
        /\ \E g \in Files : /\ from[g] # NoFile /\ to[g] = NoFile
                            /\ from[g].kind = to[f].kind
                            /\ LinesOf(from[g]) \cap LinesOf(to[f]) # {}}

\* Status T, which ACM leaves out too: a symlink became a file or the reverse.
TypeChanged(from, to) ==
    {f \in Files : /\ from[f] # NoFile /\ to[f] # NoFile
                   /\ (from[f].kind = "link") # (to[f].kind = "link")}

\* The files of whose new lines the guard sees none: those git renamed, those
\* whose type changed, "Binary files differ", and a header +++ "b/...", which
\* does not start with +++ b/.
Unseen(from, to, renamed) ==
    renamed \cup TypeChanged(from, to) \cup Quoted
            \cup {f \in Files : "binary" \in {from[f].kind, to[f].kind}}

\* The ways to match lines of new, by position, with equal lines of old in the
\* same order.  git prints as added what a longest one leaves, any of them.
Matchings(old, new) ==
    UNION {{m \in [E -> DOMAIN old] : /\ \A j \in E : old[m[j]] = new[j]
                                      /\ \A j, k \in E : j < k => m[j] < m[k]}
           : E \in SUBSET DOMAIN new}

Longest(old, new) ==
    {m \in Matchings(old, new) :
        \A k \in Matchings(old, new) : Cardinality(DOMAIN k) <= Cardinality(DOMAIN m)}

\* The lines of f on MERGE_HEAD, none when it is not there or `theirs` is no
\* merge; with a tab after its name the file is not found.
MergeSideLines(theirs, f) == IF f \in Tabbed THEN {} ELSE LinesOf(theirs[f])

\* What the guard may find added to f: the lines after "+" but, in a merge,
\* those of the other parent.
AddedLines(from, to, theirs, renamed, f) ==
    IF f \in Unseen(from, to, renamed)
    THEN {{}}
    ELSE {{to[f].lines[j] : j \in DOMAIN to[f].lines \ DOMAIN m} \ MergeSideLines(theirs, f) :
             m \in Longest(from[f].lines, to[f].lines)}

Diffs(from, to, theirs, renamed) ==
    LET of == [f \in Files |-> AddedLines(from, to, theirs, renamed, f)]
    IN {added \in [Files -> UNION {of[f] : f \in Files}] : \A f \in Files : added[f] \in of[f]}

\* No name with a tab is in ALLOWED or has one of the suffixes.
scan(added) == {p \in (Files \ (Exempt \ Tabbed)) \X Figures : p[2] \in added[p[1]]}

\* What the forge tells: the visibility, or nothing (no origin, no gh, a
\* timeout, an error, an answer that cannot be read).
is_public == {IF Public THEN "public" ELSE "private", "unknown"}

\* Mutant: a repository nobody could ask about passes for private.
Passes_Open(answer, added) == answer \in {"private", "unknown"} \/ scan(added) = {}

\* The exit code of main: a private repository has nothing to guard, an
\* unknown one is treated as public.
Passes(answer, added) == answer = "private" \/ scan(added) = {}

\* The hook lets the commit through, and has not seen the figures in missed.
HookPasses(from, to, theirs, missed) ==
    \E renamed \in SUBSET Renamable(from, to) :
        /\ \E answer \in is_public, added \in Diffs(from, to, theirs, renamed) :
              Passes(answer, added)
        /\ missed = {p \in FiguresIn(to) : p[1] \in Unseen(from, to, renamed)}

-----------------------------------------------------------------------------
(* Actions.                                                                *)

NoTree == [f \in Files |-> NoFile]
MergeHead == IF merging THEN other ELSE NoTree

\* A file is written, removed, or renamed and written in one go.
Edited(tree) ==
    {[tree EXCEPT ![f] = c] : f \in Files, c \in Contents \cup {NoFile}}
    \cup {[tree EXCEPT ![f] = NoFile, ![g] = c] :
             f \in {h \in Files : tree[h] # NoFile}, g \in {h \in Files : tree[h] = NoFile},
             c \in Contents}

\* Nothing is staged, and no merge begun, that could not be committed.
Stage ==
    /\ edits < MaxEdits /\ commits < MaxGuardCommits
    /\ index' \in Edited(index)
    /\ edits' = edits + 1
    /\ UNCHANGED <<head, other, merging, commits, slipped>>

\* git merge --no-commit, or one that stopped at conflicts: each file is that
\* of one side, or made of lines of both.
MergeOf(ours, theirs) ==
    {ours, theirs}
    \cup {c \in Contents : /\ {ours.kind, theirs.kind, c.kind} = {"text"}
                           /\ LinesOf(c) \subseteq LinesOf(ours) \cup LinesOf(theirs)}
MergeStart ==
    /\ ~merging /\ commits < MaxGuardCommits
    /\ index = head
    /\ merging' = TRUE
    /\ index' \in {t \in Tree : \A f \in Files : t[f] \in MergeOf(head[f], other[f])}
    /\ UNCHANGED <<head, other, edits, commits, slipped>>

\* git commit, through the hook.
CommitIndex ==
    /\ commits < MaxGuardCommits
    /\ index # head \/ merging
    /\ \E missed \in SUBSET FiguresIn(index) : /\ HookPasses(head, index, MergeHead, missed)
                                               /\ slipped' = slipped \cup missed
    /\ head' = index
    /\ merging' = FALSE
    /\ edits' = 0
    /\ commits' = commits + 1
    /\ UNCHANGED <<other, index>>

\* The other branch moves on, through the same hook.
OtherCommit ==
    /\ commits < MaxGuardCommits
    /\ ~merging
    /\ other' \in Edited(other) \ {other}
    /\ \E missed \in SUBSET FiguresIn(other') : /\ HookPasses(other, other', NoTree, missed)
                                                /\ slipped' = slipped \cup missed
    /\ commits' = commits + 1
    /\ UNCHANGED <<head, index, merging, edits>>

GuardNext == Stage \/ MergeStart \/ CommitIndex \/ OtherCommit

GuardSpec == GuardInit /\ [][GuardNext]_guardVars

-----------------------------------------------------------------------------
(* Properties.                                                             *)

\* "Blocking what is ADDED stops the bleeding": whatever is written, renamed,
\* committed and merged through the hook on either branch, a figure in a file
\* that is not exempt was in that file before the guard, or was in it at a
\* commit that showed the guard nothing of the file: renamed, its type
\* changed, binary to git, or a path that git quotes.
NoNewFigure == FiguresIn(head) \cup FiguresIn(other) \subseteq Debt \cup slipped

Occurrences(l, s) == {i \in DOMAIN s : s[i] = l}

\* An edit that neither moves nor repeats lines of the file: all its lines that
\* were there before are matched at once; or it only adds lines, and no figure
\* a second time.
OnlyEdits(old, new) ==
    \/ \E m \in Matchings(old, new) :
          \A j \in DOMAIN new : (\E i \in DOMAIN old : old[i] = new[j]) => j \in DOMAIN m
    \/ /\ \E m \in Matchings(old, new) : Cardinality(DOMAIN m) = Len(old)
       /\ \A l \in Figures : Cardinality(Occurrences(l, new)) <= Cardinality(Occurrences(l, old))

\* "A gate people bypass is not a gate": a commit whose figures were all in
\* the same file already, at HEAD or on the merged side, is never blocked, when
\* the files with figures of HEAD were only edited in the sense above. (A figure
\* moved or repeated inside its file is an added line to git, and blocked.)
DebtNeverBlocks ==
    (\A f \in Files \ (Exempt \ Tabbed) :
        LET figures == LinesOf(index[f]) \cap Figures
            merged == MergeSideLines(MergeHead, f)
        IN /\ figures \subseteq LinesOf(head[f]) \cup merged
           /\ figures \subseteq merged \/ OnlyEdits(head[f].lines, index[f].lines))
    => \A renamed \in SUBSET Renamable(head, index), answer \in is_public :
         \A added \in Diffs(head, index, MergeHead, renamed) : Passes(answer, added)
=============================================================================
