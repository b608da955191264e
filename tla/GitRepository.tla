---------------------------- MODULE GitRepository -----------------------------
(***************************************************************************)
(* The commands that work on a git repository: `vpd release`               *)
(* (cmd/release), `vpd git clean-branches` (cmd/git/clean_branches) and    *)
(* `vpd git reassign-commit` (cmd/git/reauthor_commit), with the           *)
(* repository and its remote as far as they see them, a developer who      *)
(* works in between and another one who pushes.                            *)
(*                                                                         *)
(* A release is eight steps on the work tree, the history, the tags and    *)
(* the remote.  Each may fail and end it, nothing is undone, and the next  *)
(* release starts from whatever it finds.                                  *)
(***************************************************************************)
EXTENDS Naturals, Sequences, FiniteSets

CONSTANTS Branch,     \* local branches that may exist besides main
          First,      \* the minor version at the beginning
          MaxCommits, \* bounds of the model: commits,
          MaxRuns     \* and commands begun

ASSUME BranchAssumption == "main" \notin Branch /\ First \in Nat /\ MaxCommits \in Nat

VARIABLES
  commits,   \* [parents, past, version]: the history, and the version file in it
  branches,  \* the commit of each branch, 0 if there is none
  head,      \* the branch checked out
  file,      \* version/version.go in the work tree
  tags,      \* records [minor, commit]
  track,     \* the branch's upstream as last seen, 0 without one
  gone,      \* branches whose upstream was deleted
  remote,    \* [main, tags]
  rel,       \* where a release is
  minor,     \* the version it releases
  cln,       \* which pass clean-branches is in
  todo,      \* the branches this pass has still to delete
  runs,      \* commands begun
  rewritten, \* commits that reassign-commit has replaced (history)
  rejected   \* a push of main was rejected (history)

local == <<commits, branches, head, file, tags, track, gone>>
release == <<rel, minor>>
clean == <<cln, todo>>
history == <<runs, rewritten, rejected>>
vars == <<local, remote, release, clean, history>>

-----------------------------------------------------------------------------
(* The repository *)

Main == Branch \union {"main"}
Commit == DOMAIN commits
Torn == [minor |-> 0, dev |-> FALSE]   \* a file cut off before the end of the minor version
Version == [minor : Nat, dev : BOOLEAN]

Parents(c) == commits[c].parents
(* A commit's history is part of it; that of no commit is empty. *)
Ancestors(c) == IF c = 0 THEN {} ELSE commits[c].past
NewCommit(c, parents, version) ==
  [parents |-> parents, past |-> {c} \union UNION {Ancestors(d) : d \in parents},
   version |-> version]

HeadCommit == branches[head]
HeadFile == commits[HeadCommit].version
Room == Len(commits) < MaxCommits

(* A new commit on the branch checked out *)
Record(parents, version) ==
  /\ Room
  /\ commits' = Append(commits, NewCommit(Len(commits) + 1, parents, version))
  /\ branches' = [branches EXCEPT ![head] = Len(commits) + 1]

(* Everything a reference leads to *)
Reachable(bs, tr, ts) ==
  (UNION {Ancestors(bs[b]) : b \in Main}) \union (UNION {Ancestors(tr[b]) : b \in Branch})
  \union (UNION {Ancestors(t.commit) : t \in ts})

Init ==
  /\ commits = <<[parents |-> {}, past |-> {1}, version |-> [minor |-> First, dev |-> TRUE]]>>
  /\ branches = [b \in Main |-> IF b = "main" THEN 1 ELSE 0]
  /\ head = "main"
  /\ file = commits[1].version
  /\ tags = {}
  /\ track = [b \in Branch |-> 0]
  /\ gone = {}
  /\ remote = [main |-> 1, tags |-> {}]
  /\ rel = "idle" /\ minor = First
  /\ cln = "idle" /\ todo = {}
  /\ runs = 0 /\ rewritten = {} /\ rejected = FALSE

-----------------------------------------------------------------------------
(* The developers.  The one here does not touch the repository while a     *)
(* release is running.                                                     *)

Work ==
  /\ rel = "idle" /\ file # Torn
  /\ Record({HeadCommit}, file)
  /\ UNCHANGED <<head, file, tags, track, gone, remote, release, clean, history>>

NewBranch(b) ==
  /\ rel = "idle" /\ branches[b] = 0
  /\ branches' = [branches EXCEPT ![b] = HeadCommit]
  /\ head' = b
  /\ UNCHANGED <<commits, file, tags, track, gone, remote, release, clean, history>>

(* A changed version file goes along if the branches agree about it. *)
Checkout(b) ==
  /\ rel = "idle" /\ b # head /\ branches[b] # 0
  /\ LET there == commits[branches[b]].version
     IN  \/ file = HeadFile /\ file' = there
         \/ file # HeadFile /\ there = HeadFile /\ UNCHANGED file
  /\ head' = b
  /\ UNCHANGED <<commits, branches, tags, track, gone, remote, release, clean, history>>

Restore ==
  /\ rel = "idle" /\ file # HeadFile
  /\ file' = HeadFile
  /\ UNCHANGED <<commits, branches, head, tags, track, gone, remote, release, clean, history>>

(* A conflict about the version file is resolved one way or the other. *)
Merge(b) ==
  /\ rel = "idle" /\ branches[b] # 0 /\ file = HeadFile
  /\ branches[b] \notin Ancestors(HeadCommit)
  /\ \/ /\ HeadCommit \in Ancestors(branches[b])
        /\ branches' = [branches EXCEPT ![head] = branches[b]]
        /\ file' = commits[branches[b]].version
        /\ UNCHANGED commits
     \/ /\ HeadCommit \notin Ancestors(branches[b])
        /\ file' \in {HeadFile, commits[branches[b]].version}
        /\ Record({HeadCommit, branches[b]}, file')
  /\ UNCHANGED <<head, tags, track, gone, remote, release, clean, history>>

PushBranch(b) ==
  /\ branches[b] # 0 /\ b \notin gone
  /\ track' = [track EXCEPT ![b] = branches[b]]
  /\ UNCHANGED <<commits, branches, head, file, tags, gone, remote, release, clean, history>>

(* The upstream is deleted and the deletion fetched. *)
UpstreamGone(b) ==
  /\ track[b] # 0
  /\ track' = [track EXCEPT ![b] = 0]
  /\ gone' = gone \union {b}
  /\ UNCHANGED <<commits, branches, head, file, tags, remote, release, clean, history>>

SomebodyPushes ==
  /\ Room
  /\ commits' = Append(commits, NewCommit(Len(commits) + 1, {remote.main},
                                          commits[remote.main].version))
  /\ remote' = [remote EXCEPT !.main = Len(commits) + 1]
  /\ UNCHANGED <<branches, head, file, tags, track, gone, release, clean, history>>

Developers ==
  \/ Work \/ Restore \/ SomebodyPushes
  \/ \E b \in Branch : NewBranch(b) \/ PushBranch(b) \/ UpstreamGone(b)
  \/ \E b \in Main : Checkout(b) \/ Merge(b)

-----------------------------------------------------------------------------
(* vpd release *)

Begin == runs < MaxRuns /\ runs' = runs + 1

Bump(m) == m + 1

(* getVersionFromFile and TrimSuffix.  A torn file has no version, or one   *)
(* with fewer than three parts: it is written back and splitting it panics. *)
ReadVersion ==
  /\ rel = "idle" /\ file # Torn
  /\ Begin
  /\ rel' = "write"
  /\ minor' = file.minor
  /\ UNCHANGED <<local, remote, clean, rewritten, rejected>>

(* The file is written before anything is checked. *)
WriteReleaseVersion ==
  /\ rel = "write"
  /\ file' = [minor |-> minor, dev |-> FALSE]
  /\ rel' = "check"
  /\ UNCHANGED <<commits, branches, head, tags, track, gone, remote, minor, clean, history>>

CheckBranch ==
  /\ rel = "check" /\ head = "main"
  /\ rel' = "commit"
  /\ UNCHANGED <<local, remote, minor, clean, history>>

(* Fault: the error of a commit without changes is not looked at. *)
CommitReleaseUnchecked ==
  /\ rel = "commit"
  /\ \/ Record({HeadCommit}, file)
     \/ UNCHANGED <<commits, branches>>
  /\ rel' = "tag"
  /\ UNCHANGED <<head, file, tags, track, gone, remote, minor, clean, history>>

(* Add and Commit take whatever the work tree has; Commit refuses to       *)
(* record no change at all, and only the developer's other work makes one  *)
(* when the version is what it was.                                        *)
CommitRelease ==
  /\ rel = "commit"
  /\ Record({HeadCommit}, file)
  /\ rel' = "tag"
  /\ UNCHANGED <<head, file, tags, track, gone, remote, minor, clean, history>>

(* repo.CreateTag: a tag that exists is an error, which ends the release. *)
CreateTag ==
  /\ rel = "tag"
  /\ \A t \in tags : t.minor # minor
  /\ tags' = tags \union {[minor |-> minor, commit |-> HeadCommit]}
  /\ rel' = "write dev"
  /\ UNCHANGED <<commits, branches, head, file, track, gone, remote, minor, clean, history>>

WriteDevVersion ==
  /\ rel = "write dev"
  /\ file' = [minor |-> Bump(minor), dev |-> TRUE]
  /\ rel' = "commit dev"
  /\ UNCHANGED <<commits, branches, head, tags, track, gone, remote, minor, clean, history>>

CommitDev ==
  /\ rel = "commit dev"
  /\ Record({HeadCommit}, file)
  /\ rel' = "push"
  /\ UNCHANGED <<head, file, tags, track, gone, remote, minor, clean, history>>

EndRelease == rel' = "idle" /\ minor' = First

(* Fault: the tags are pushed without the branch. *)
PushTagsOnly ==
  /\ rel = "push"
  /\ remote' = [remote EXCEPT !.tags = tags]
  /\ EndRelease
  /\ UNCHANGED <<local, clean, history>>

(* git push origin main --tags: each reference goes for itself, so the     *)
(* tags arrive even when main is not a fast-forward and is rejected.       *)
Push ==
  /\ rel = "push"
  /\ LET accepted == remote.main \in Ancestors(branches["main"])
     IN  /\ remote' = [main |-> IF accepted THEN branches["main"] ELSE remote.main,
                       tags |-> remote.tags \union
                                {t \in tags : \A u \in remote.tags : u.minor # t.minor}]
         /\ rejected' = (rejected \/ ~accepted)
  /\ EndRelease
  /\ UNCHANGED <<local, clean, runs, rewritten>>

(* Any step may fail (on another branch than main it does), or the process *)
(* is killed.  A write may be cut off; what is left after the minor        *)
(* version is read as a version without "-dev", quotes or not.             *)
ReleaseStops ==
  /\ rel # "idle"
  /\ EndRelease
  /\ \/ UNCHANGED file
     \/ /\ rel \in {"write", "write dev"}
        /\ file' \in {Torn, [minor |-> IF rel = "write" THEN minor ELSE Bump(minor),
                             dev |-> FALSE]}
  /\ UNCHANGED <<commits, branches, head, tags, track, gone, remote, clean, history>>

Release ==
  \/ ReadVersion \/ WriteReleaseVersion \/ CheckBranch \/ CommitRelease \/ CreateTag
  \/ WriteDevVersion \/ CommitDev \/ Push \/ ReleaseStops

-----------------------------------------------------------------------------
(* vpd git clean-branches *)

(* Fault: the branches are deleted with -D. *)
DeletesForced(b) == branches[b] # 0 /\ b # head

(* Fault: the branch checked out is deleted as well. *)
DeletesCurrent(b) ==
  /\ branches[b] # 0
  /\ branches[b] \in Ancestors(IF track[b] # 0 THEN track[b] ELSE HeadCommit)

(* git branch -d: never the branch checked out, and only what is merged    *)
(* into its upstream or, without one, into HEAD                            *)
Deletes(b) ==
  /\ branches[b] # 0 /\ b # head
  /\ branches[b] \in Ancestors(IF track[b] # 0 THEN track[b] ELSE HeadCommit)

(* The current branch is listed with a "* " that stays in its name, or is  *)
(* all of its name: no such branch can be deleted.                         *)
Listed(bs) == {b \in bs \ {head} : branches[b] # 0}

RemoveMergedBranches ==
  /\ cln = "idle" /\ Begin
  /\ cln' = "merged"
  /\ todo' = Listed({b \in Branch : branches[b] \in Ancestors(branches["main"])})
  /\ UNCHANGED <<local, remote, release, rewritten, rejected>>

(* The dates are printed in a format that is not the one they are parsed   *)
(* in: every branch is skipped.                                            *)
RemoveOldBranches ==
  /\ cln = "merged" /\ todo = {}
  /\ cln' = "old"
  /\ UNCHANGED <<local, remote, release, todo, history>>

(* Lines of git branch -vv with ": gone", which a commit's subject may     *)
(* have as well                                                            *)
RemoveBranchesWithoutUpstream ==
  /\ cln = "old"
  /\ cln' = "gone"
  /\ \E subjects \in SUBSET Branch : todo' = Listed(gone \union subjects)
  /\ UNCHANGED <<local, remote, release, history>>

(* The loop of a pass; a branch that git refuses to delete is logged.      *)
DeleteBranch(b) ==
  /\ b \in todo
  /\ todo' = todo \ {b}
  /\ IF Deletes(b)
     THEN /\ branches' = [branches EXCEPT ![b] = 0]
          /\ track' = [track EXCEPT ![b] = 0]
          /\ gone' = gone \ {b}
     ELSE UNCHANGED <<branches, track, gone>>
  /\ UNCHANGED <<commits, head, file, tags, remote, release, cln, history>>

CleanupCompleted ==
  /\ cln = "gone" /\ todo = {}
  /\ cln' = "idle"
  /\ UNCHANGED <<local, remote, release, todo, history>>

CleanBranches ==
  \/ RemoveMergedBranches \/ RemoveOldBranches \/ RemoveBranchesWithoutUpstream
  \/ CleanupCompleted
  \/ \E b \in Branch : DeleteBranch(b)

-----------------------------------------------------------------------------
(* vpd git reassign-commit.  A new author makes a new commit.              *)

(* The version file in it is the one of the old commit or, as              *)
(* git commit --amend takes what is staged, the one in the work tree, if a *)
(* release that stopped or the developer has staged that.                  *)
ChangeLastCommitAuthor ==
  /\ rel = "idle" /\ Begin
  /\ \E v \in {HeadFile} \union ({file} \ {Torn}) : Record(Parents(HeadCommit), v)
  /\ rewritten' = rewritten \union {HeadCommit}
  /\ UNCHANGED <<head, file, tags, track, gone, remote, release, clean, rejected>>

(* git filter-branch c^..HEAD wants a clean work tree and a commit with a  *)
(* parent.  It copies the commits from c on, in order, and points the      *)
(* branch to the last copy; tags stay.  Only histories without merges in   *)
(* the range are modelled.                                                 *)
ChangeSpecificCommitAuthor(c) ==
  /\ rel = "idle" /\ Begin
  /\ file = HeadFile
  /\ LET range == {d \in Ancestors(HeadCommit) : c \in Ancestors(d)}
         n == Cardinality(range)
     IN  /\ c \in range /\ Parents(c) # {}
         /\ \A d \in range : Cardinality(Parents(d)) = 1
         /\ Len(commits) + n <= MaxCommits
         /\ \E order \in [1..n -> range] :
              /\ \A i, j \in 1..n : i < j => order[i] < order[j]
              /\ commits' = commits \o [i \in 1..n |->
                   [parents |-> IF i = 1 THEN Parents(c) ELSE {Len(commits) + i - 1},
                    past |-> (Ancestors(c) \ {c}) \union (Len(commits) + 1)..(Len(commits) + i),
                    version |-> commits[order[i]].version]]
         /\ branches' = [branches EXCEPT ![head] = Len(commits) + n]
         /\ rewritten' = rewritten \union range
  /\ UNCHANGED <<head, file, tags, track, gone, remote, release, clean, rejected>>

Reauthor == ChangeLastCommitAuthor \/ \E c \in Commit : ChangeSpecificCommitAuthor(c)

-----------------------------------------------------------------------------
Next == Developers \/ Release \/ CleanBranches \/ Reauthor

Spec == Init /\ [][Next]_vars

-----------------------------------------------------------------------------
(* Every variable has its type, the branch checked out exists, and commits *)
(* come after their parents.                                               *)
TypeOK ==
  /\ \A c \in Commit : commits[c].version \in Version /\ Parents(c) \subseteq 1..(c - 1)
  /\ \A b \in Main : branches[b] \in Commit \union {0}
  /\ \A b \in Branch : track[b] \in Commit \union {0}
  /\ head \in Main /\ branches[head] # 0 /\ branches["main"] # 0
  /\ file \in Version
  /\ \A t \in tags \union remote.tags : t.minor \in Nat /\ t.commit \in Commit
  /\ remote.main \in Commit
  /\ gone \subseteq Branch /\ todo \subseteq Branch

(* However often releases stop half way and are run again, from whichever  *)
(* branch, the tags are the releases: the commit of a tag has the version  *)
(* file with this version, no version is tagged twice, and none is left    *)
(* out between the first and the last.                                     *)
TagsAreReleases ==
  \A t \in tags :
    /\ commits[t.commit].version = [minor |-> t.minor, dev |-> FALSE]
    /\ \A u \in tags : u.minor = t.minor => u = t
    /\ t.minor # First => \E u \in tags : u.minor = t.minor - 1

(* A tag on the remote, for which the build of a release starts, is in the *)
(* history of the remote's main, unless a push of main was rejected or     *)
(* reassign-commit has replaced the commit: failing and running again does *)
(* not do it.                                                              *)
RemoteTagsOnMain ==
  \A t \in remote.tags :
    rejected \/ t.commit \in rewritten \/ t.commit \in Ancestors(remote.main)

(* A branch that clean-branches deletes takes no commit with it: all of    *)
(* its history stays reachable from another reference, although branches   *)
(* are listed once and deleted later, and whatever was committed, checked  *)
(* out or merged in between.                                               *)
DeletionKeeps(b) ==
  branches[b] # 0 /\ branches'[b] = 0 =>
    Ancestors(branches[b]) \subseteq Reachable(branches', track, tags)
NoCommitLost == [][\A b \in Branch : DeletionKeeps(b)]_vars
=============================================================================
