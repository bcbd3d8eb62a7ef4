------------------------------- MODULE WorkTree -------------------------------
(***************************************************************************)
(* The repository's work tree as scripts/edit_code.py and                  *)
(* scripts/read_code_health.py see it through git: what each file holds,   *)
(* what is staged, what HEAD holds, and the edit signature - the lines of  *)
(* git status, which name a path and how it differs, never what it holds.  *)
(* A directory of untracked files is one line, whatever is in it.          *)
(***************************************************************************)
EXTENDS Integers, Sequences, FiniteSets

CONSTANTS
    File,          \* the indexable files of the repository
    Folder,        \* directories, each as the set of its files
    None,
    MaxChanges,    \* bound on the changes of files, of the index of git and of
                   \* HEAD after which nobody else makes another
    MaxOps         \* bound on the changes of the index of git and of HEAD

ASSUME WorkTreeAssumption ==
    /\ IsFiniteSet(File)
    /\ Folder \subseteq SUBSET File \ {{}} /\ File \cap Folder = {}
    /\ \A d, e \in Folder : d # e => d \cap e = {}
    /\ MaxChanges \in Nat /\ MaxOps \in Nat

VARIABLES
    work,          \* the content of each file; 0 when there is none
    staged,        \* what the index of git holds
    committed,     \* what HEAD holds
    log,           \* the commits of the branch, their ids; the last is HEAD
    pushed,        \* what the remote branch holds
    edits, ops     \* how many edits, and how many changes of index and HEAD

treeVars == <<work, staged, committed, log, pushed, edits, ops>>

Gone == 0

\* What git names: a file, or a directory with a slash behind it.
Path == File \cup Folder

FilesAt(paths) == (paths \cap File) \cup UNION (paths \cap Folder)

\* The directories that git status --untracked-files=normal does not look into,
\* and the files that it does not name therefore.
Untracked == { d \in Folder : \A f \in d : staged[f] = Gone }
Hidden == UNION Untracked

\* A letter of git status --porcelain, a dash for a blank: how the second differs
\* from the first.
Letter(from, to) ==
    IF from = to THEN "-"
    ELSE IF from = Gone THEN "A"
    ELSE IF to = Gone THEN "D" ELSE "M"

\* codegraph_current_edit_signature: the path and its two letters.
Line(f) == <<f, Letter(committed[f], staged[f]),
             IF f \in Hidden THEN "-" ELSE Letter(staged[f], work[f])>>

Signature ==
    { s \in { Line(f) : f \in File } : s[2] # "-" \/ s[3] # "-" }
    \cup { <<d, "-", "A">> : d \in { e \in Untracked : \E f \in e : work[f] # Gone } }

\* _signature_paths: the letters are dropped.
SigPaths(sig) == { s[1] : s \in sig }

\* _dirty_paths, without failure of git.
DirtyPaths == SigPaths(Signature)

HeadCommit == log[Len(log)]

\* The files of some directories are untracked yet.
TreeInit ==
    /\ work = [f \in File |-> 1]
    /\ \E new \in SUBSET Folder : staged = [f \in File |-> IF f \in UNION new THEN Gone ELSE 1]
    /\ committed = staged
    /\ log = <<0>> /\ pushed = log
    /\ edits = 0 /\ ops = 0

\* git add of files; its result is in staged'.
Add(files) ==
    /\ staged' = [f \in File |-> IF f \in files THEN work[f] ELSE staged[f]]
    /\ ops' = ops + 1
    /\ UNCHANGED <<work, committed, log, pushed, edits>>

\* git commit: everything staged, whoever staged it.
CommitStaged ==
    /\ committed' = staged
    /\ ops' = ops + 1
    /\ log' = Append(log, ops')
    /\ UNCHANGED <<work, staged, pushed, edits>>

\* git commit --amend: HEAD is replaced, with whatever is staged.
AmendHead ==
    /\ committed' = staged
    /\ ops' = ops + 1
    /\ log' = [log EXCEPT ![Len(log)] = ops']
    /\ UNCHANGED <<work, staged, pushed, edits>>

\* git push is refused when it is not a fast forward.
PushAccepted == Len(pushed) <= Len(log) /\ SubSeq(log, 1, Len(pushed)) = pushed

(***************************************************************************)
(* Everybody else: editors, and people who stage or commit by hand.        *)
(***************************************************************************)
EditFile(f) ==
    /\ edits + ops < MaxChanges
    /\ edits' = edits + 1
    /\ work' = [work EXCEPT ![f] = 1 + edits']
    /\ UNCHANGED <<staged, committed, log, pushed, ops>>

DeleteFile(f) ==
    /\ edits + ops < MaxChanges /\ work[f] # Gone
    /\ edits' = edits + 1
    /\ work' = [work EXCEPT ![f] = Gone]
    /\ UNCHANGED <<staged, committed, log, pushed, ops>>

StageByHand(f) ==
    /\ edits + ops < MaxChanges /\ work[f] # staged[f]
    /\ Add({f})

\* What is staged may still be committed when nothing else may change.
CommitByHand ==
    /\ edits + ops <= MaxChanges /\ ops < MaxOps /\ staged # committed
    /\ CommitStaged
===============================================================================
