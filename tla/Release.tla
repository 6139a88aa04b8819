------------------------------ MODULE Release ------------------------------
(***************************************************************************)
(* Cutting a release (src/git_cg/release.py): the release command reads    *)
(* the tags and the log, computes the next version, puts it into the       *)
(* files, extends the changelog, writes the notes and may publish them;    *)
(* committing and tagging is left to the person who ran it.                *)
(*                                                                         *)
(* One release is run at a time, but others commit and tag meanwhile, it   *)
(* may die between any two files and in the middle of one, and it is run   *)
(* again.  A git command or a read that fails is swallowed in most places, *)
(* and the run goes on without what it asked for; those failures are       *)
(* choices inside the actions.                                             *)
(* A dry run writes nothing, and is left out.                              *)
(***************************************************************************)
EXTENDS Naturals, Sequences, FiniteSets

CONSTANTS
  Commits,     \* the commits others make
  Requests,    \* the ways the command is called
  Foreign,     \* sets of versions that may be tagged on other branches
  Starts,      \* the versions the branch may start from, Nothing for an untagged one
  MaxLog,      \* bound: the commits of the branch
  MaxPart,     \* bound: a component of a version
  MaxTags,     \* bound: the tags of the branch
  MaxTries,    \* bound: the runs, and their steps with a swallowed failure
  Nothing      \* the absence of a version, a run or a trailer

SemverImpacts == {"NONE", "PATCH", "MINOR", "MAJOR"}

(* Pre-release identifiers are numbered in the order of their strings; a   *)
(* final version has identifier 0.                                         *)
Tokens  == 0 .. 2
Part    == 0 .. MaxPart
Version == {v \in [major : Part, minor : Part, patch : Part, pre : Tokens, n : Part] :
              v.pre = 0 => v.n = 0}

(* What a commit says of its impact: in its SemVer-Impact trailer, in a    *)
(* footer, with a "!", or by the matrix row of its type or its emoji.      *)
Commit  == [trailer : SemverImpacts \cup {Nothing}, breaking : BOOLEAN, row : SemverImpacts,
            header : BOOLEAN]     \* it touches the file with a version comment
Request == [pre : Tokens, notes : BOOLEAN, publish : BOOLEAN]

ASSUME ReleaseAssumption ==
  /\ Commits \subseteq Commit
  /\ \A q \in Requests : q \in Request /\ (q.publish => q.notes)
  /\ Foreign \subseteq SUBSET Version /\ Starts \subseteq Version \cup {Nothing}
  /\ MaxLog \in Nat /\ MaxPart \in Nat \ {0}      \* the first version is 0.1.0
  /\ MaxTags \in Nat /\ MaxTries \in Nat

Block == [tag : Version, commits : SUBSET (1 .. MaxLog)]
Tree  == [pyproject : Version \cup {Nothing}, lock : Version \cup {Nothing},
          header : Version \cup {Nothing}, changelog : Seq(Block)]

Places == {"validate", "pyproject", "lock", "header", "changelog", "write", "notes",
           "publish"}

(* The locals of a run.  fresh: it knows of no tag.  named: pyproject.toml *)
(* told the package's name.  left: the package files that were passed      *)
(* over.  whole: nothing has come between it and its cut, and git answered *)
(* all it was asked.                                                       *)
Files == {"pyproject", "lock"}
Run == [at : Places, request : Requests, tag : Version, bump : SemverImpacts, since : 0 .. MaxLog,
        commits : SUBSET (1 .. MaxLog), fresh : BOOLEAN, touched : BOOLEAN, named : BOOLEAN,
        left : SUBSET Files, old : Seq(Block), whole : BOOLEAN]

Tag == [version : Version, at : 0 .. MaxLog, cut : BOOLEAN, whole : BOOLEAN,
        bump : SemverImpacts, pre : Tokens, left : SUBSET Files, tree : Tree]

(* Nothing is neither a run nor a tag nor a version.                       *)
ASSUME NothingAssumption == Nothing \notin Run /\ Nothing \notin Tag /\ Nothing \notin Version

VARIABLES
  log,         \* the commits of the branch, oldest first
  head,        \* the release files as committed
  disk,        \* the release files in the work tree
  tags,        \* the tags of the branch
  elsewhere,   \* versions tagged on other branches
  released,    \* the versions released on GitHub
  run,         \* the command, Nothing when it is not running
  advice,      \* the finished run that asked for a commit and a tag
  tries,       \* the runs, and their steps in which a failure was swallowed
  bumped,      \* history: a run has been at the version comment since the last tag
  torn,        \* history: a file was left half written
  collided     \* history: a run went on with a version that was taken

releaseVars == <<log, head, disk, tags, elsewhere, released, run, advice, tries, bumped, torn,
                 collided>>
repository == <<log, head, tags, elsewhere>>
history == <<tries, bumped, torn, collided>>

TypeOK ==
  /\ log \in Seq(Commit) /\ Len(log) <= MaxLog
  /\ head \in Tree /\ disk \in Tree
  /\ tags \subseteq Tag /\ elsewhere \subseteq Version
  /\ released \subseteq Version
  /\ run \in Run \cup {Nothing} /\ advice \in Run \cup {Nothing}
  /\ tries \in 0 .. MaxTries
  /\ bumped \in BOOLEAN /\ torn \in BOOLEAN /\ collided \in BOOLEAN

(* A branch that has not been tagged, or was cut at some version.          *)
Origin == [major |-> 0, minor |-> 0, patch |-> 0, pre |-> 0, n |-> 0]

Start(v) ==
  LET w == IF v = Nothing THEN Origin ELSE v
  IN  [pyproject |-> w, lock |-> w, header |-> Origin,
       changelog |-> IF v = Nothing THEN <<>> ELSE <<[tag |-> v, commits |-> {}]>>]

ReleaseInit ==
  /\ log = <<>>
  /\ \E v \in Starts :
       /\ head = Start(v)
       /\ tags = IF v = Nothing THEN {}
                 ELSE {[version |-> v, at |-> 0, cut |-> TRUE, whole |-> FALSE,
                        bump |-> "NONE", pre |-> 0, left |-> {}, tree |-> head]}
  /\ disk = head /\ elsewhere \in Foreign
  /\ released = {} /\ run = Nothing /\ advice = Nothing
  /\ tries = 0 /\ bumped = FALSE /\ torn = FALSE /\ collided = FALSE
-----------------------------------------------------------------------------
(* parse_commit_impact: the trailer decides, then an explicit break, then  *)
(* the matrix.  calculate_global_bump: the highest of them.                *)
Impact(c) ==
  IF c.trailer # Nothing THEN c.trailer
  ELSE IF c.breaking THEN "MAJOR"
  ELSE c.row

Since(at) == at + 1 .. Len(log)

GlobalBump(commits) ==
  LET impacts == {Impact(log[i]) : i \in commits}
  IN  IF "MAJOR" \in impacts THEN "MAJOR"
      ELSE IF "MINOR" \in impacts THEN "MINOR"
      ELSE IF "PATCH" \in impacts THEN "PATCH"
      ELSE "NONE"

(* bump_version_string.  While the major is 0, a break is a minor step.    *)
EffectiveBump(v, bump) == IF bump = "MAJOR" /\ v.major = 0 THEN "MINOR" ELSE bump

Final(v) == [v EXCEPT !.pre = 0, !.n = 0]

Raised(v, bump) ==
  CASE bump = "MAJOR" -> [Final(v) EXCEPT !.major = @ + 1, !.minor = 0, !.patch = 0]
    [] bump = "MINOR" -> [Final(v) EXCEPT !.minor = @ + 1, !.patch = 0]
    [] bump = "PATCH" -> [Final(v) EXCEPT !.patch = @ + 1]

PreRelease(v, pre) == [v EXCEPT !.pre = pre, !.n = 1]

Bump(v, impact, pre) ==
  LET bump == EffectiveBump(v, impact)
  IN  IF pre = 0 /\ v.pre # 0 /\ bump \in {"NONE", "PATCH"} THEN Final(v)
      ELSE IF pre = 0 /\ bump = "NONE" THEN v
      ELSE IF pre = 0 THEN Raised(v, bump)
      ELSE IF bump # "NONE" THEN PreRelease(Raised(v, bump), pre)
      ELSE IF v.pre = pre THEN [v EXCEPT !.n = @ + 1]
      ELSE IF v.pre # 0 THEN PreRelease(v, pre)
      ELSE PreRelease(Raised(v, "PATCH"), pre)

Small(v) == v.major \in Part /\ v.minor \in Part /\ v.patch \in Part /\ v.n \in Part

FirstVersion(pre) == [major |-> 0, minor |-> 1, patch |-> 0, pre |-> pre, n |-> 0]

(* The order of Semantic Versioning.                                       *)
Newer(a, b) ==
  \/ a.major > b.major
  \/ a.major = b.major /\ a.minor > b.minor
  \/ a.major = b.major /\ a.minor = b.minor /\ a.patch > b.patch
  \/ /\ a.major = b.major /\ a.minor = b.minor /\ a.patch = b.patch
     /\ \/ a.pre = 0 /\ b.pre # 0
        \/ b.pre # 0 /\ a.pre > b.pre
        \/ b.pre # 0 /\ a.pre = b.pre /\ a.n > b.n
-----------------------------------------------------------------------------
At(place) == run # Nothing /\ run.at = place
Goto(place) == run' = [run EXCEPT !.at = place]
GiveUp == run' = Nothing /\ UNCHANGED advice
HandOver == run' = Nothing /\ advice' = run
Versions(set) == {t.version : t \in set}
Exists(version) == version \in Versions(tags) \cup elsewhere

(* A step, some of whose commands and reads fail and are swallowed, counts *)
(* as a try.                                                               *)
Cost(failed) == IF failed = {} THEN 0 ELSE 1
Spends(n) == tries + n <= MaxTries /\ tries' = tries + n
Swallows(failed) == Spends(Cost(failed))

(* get_last_tag: the nearest tag, or none that git can tell.               *)
NearestAt == CHOOSE i \in {t.at : t \in tags} : \A t \in tags : t.at <= i

LastTags(failed) ==
  IF tags = {} \/ "describe" \in failed THEN {Nothing} ELSE {t \in tags : t.at = NearestAt}

(* execute_release, up to the version: nothing is done when nothing calls  *)
(* for a release, or the version would stay what it is.                    *)
Begins(q, last, commits, whole) ==
  LET since == IF last = Nothing THEN 0 ELSE last.at
      bump  == GlobalBump(commits)
      new   == IF last = Nothing THEN FirstVersion(q.pre) ELSE Bump(last.version, bump, q.pre)
  IN  /\ bump # "NONE" \/ q.pre # 0 \/ (last # Nothing /\ last.version.pre # 0)
      /\ last # Nothing => new # last.version
      /\ Small(new)
      /\ run' = [at |-> "validate", request |-> q, tag |-> new, bump |-> bump, since |-> since,
                 commits |-> commits, fresh |-> last = Nothing, touched |-> FALSE,
                 named |-> FALSE, left |-> {}, old |-> <<>>, whole |-> whole]

(* A log that cannot be read is an empty one.                              *)
Plan ==
  /\ run = Nothing
  /\ \E q \in Requests, failed \in SUBSET {"describe", "log"} :
       /\ Spends(1 + Cost(failed))
       /\ \E last \in LastTags(failed) :
            LET since == IF last = Nothing THEN 0 ELSE last.at
            IN  Begins(q, last, IF "log" \in failed THEN {} ELSE Since(since), failed = {})
  /\ advice' = Nothing
  /\ UNCHANGED <<repository, disk, released, bumped, torn, collided>>

(* validate_release: tags that cannot be listed forbid nothing.            *)
Available(version) == version \notin Versions(tags) \cup elsewhere

(* get_modified_files_since: without a tag every tracked file is one.  (A  *)
(* commit that touches the version comment's file leaves it other than it  *)
(* was at any tag.)                                                        *)
Modified == run.fresh \/ \E i \in Since(run.since) : log[i].header

Validate ==
  /\ At("validate")
  /\ \/ /\ ~ Available(run.tag) /\ GiveUp
        /\ UNCHANGED <<tries, collided>>
     \/ \E failed \in SUBSET {"tag", "diff"} :
          /\ Available(run.tag) \/ "tag" \in failed
          /\ Swallows(failed)
          /\ collided' = (collided \/ ~ Available(run.tag))
          /\ run' = [run EXCEPT !.at = "pyproject", !.touched = Modified /\ "diff" \notin failed,
                                !.whole = @ /\ "diff" \notin failed]
          /\ UNCHANGED advice
  /\ UNCHANGED <<repository, disk, released, bumped, torn>>
-----------------------------------------------------------------------------
(* inject_canonical_package_versions: the version itself, where there is   *)
(* one to replace.  pyproject.toml is read once for the name and once to   *)
(* be changed; a file that cannot be read is passed over, and the lock     *)
(* file as well when there is no name to look for.                         *)
CanonicalStepped(old)  == Bump(old, run.bump, run.request.pre)   \* relative to what is there
CanonicalVersion(old)  == run.tag

Injected(old) == IF old = Nothing THEN Nothing ELSE CanonicalVersion(old)

PutPyproject ==
  /\ At("pyproject")
  /\ \E failed \in SUBSET {"name", "content"} :
       /\ Swallows(failed)
       /\ disk' = IF "content" \in failed THEN disk ELSE [disk EXCEPT !.pyproject = Injected(@)]
       /\ run' = [run EXCEPT !.at = "lock",
                             !.named = disk.pyproject # Nothing /\ "name" \notin failed,
                             !.left = IF "content" \in failed THEN {"pyproject"} ELSE {}]
  /\ UNCHANGED <<repository, released, advice, bumped, torn, collided>>

PutLock ==
  /\ At("lock")
  /\ \E failed \in SUBSET {"content"} :
       LET put == run.named /\ failed = {}
       IN  /\ Swallows(failed)
           /\ disk' = IF put THEN [disk EXCEPT !.lock = Injected(@)] ELSE disk
           /\ run' = [run EXCEPT !.at = "header", !.named = FALSE,
                                 !.left = IF put THEN @ ELSE @ \cup {"lock"}]
  /\ UNCHANGED <<repository, released, advice, bumped, torn, collided>>

(* inject_file_versions: a version comment moves on from where it stands,  *)
(* if the file was modified.  An error is swallowed, though it may leave   *)
(* the file empty.                                                         *)
HeadersDue == run.touched /\ (run.bump # "NONE" \/ run.request.pre # 0)

PutHeader ==
  /\ At("header")
  /\ IF HeadersDue /\ disk.header # Nothing
     THEN LET new == Bump(disk.header, run.bump, run.request.pre)
          IN  /\ Small(new)
              /\ \/ /\ disk' = [disk EXCEPT !.header = new]
                    /\ run' = [run EXCEPT !.at = "changelog", !.whole = @ /\ ~ bumped]
                    /\ UNCHANGED <<tries, torn>>
                 \/ /\ Swallows({"header"})
                    /\ \/ UNCHANGED <<disk, torn>>
                       \/ disk' = [disk EXCEPT !.header = Nothing] /\ torn' = TRUE
                    /\ run' = [run EXCEPT !.at = "changelog", !.whole = FALSE]
              /\ bumped' = TRUE
     ELSE /\ run' = [run EXCEPT !.at = "changelog", !.whole = @ /\ ~ bumped]
          /\ UNCHANGED <<disk, tries, bumped, torn>>
  /\ UNCHANGED <<repository, released, advice, collided>>

(* The changelog is read and opened, which empties it, and written.        *)
OpenChangelog ==
  /\ At("changelog")
  /\ \/ GiveUp /\ UNCHANGED disk
     \/ /\ disk' = [disk EXCEPT !.changelog = <<>>]
        /\ run' = [run EXCEPT !.at = "write", !.old = disk.changelog]
        /\ UNCHANGED advice
  /\ UNCHANGED <<repository, released, history>>

(* _prepend_changelog_version: a heading that is there stays as it is.     *)
Heads(blocks, tag) == {i \in DOMAIN blocks : blocks[i].tag = tag}

Prepended(blocks) ==
  IF Heads(blocks, run.tag) # {} THEN blocks
  ELSE <<[tag |-> run.tag, commits |-> run.commits]>> \o blocks

WriteChangelog ==
  /\ At("write")
  /\ \/ /\ disk' = [disk EXCEPT !.changelog = Prepended(run.old)]
        /\ LET done == [run EXCEPT !.at = "notes", !.old = <<>>,
                                   !.whole = @ /\ Heads(run.old, run.tag) = {}]
           IN  IF run.request.notes THEN run' = done /\ UNCHANGED advice
               ELSE run' = Nothing /\ advice' = done
        /\ UNCHANGED torn
     \/ /\ GiveUp /\ UNCHANGED disk
        /\ torn' = TRUE
  /\ UNCHANGED <<repository, released, tries, bumped, collided>>

(* The notes go to a file that no run reads.                               *)
PutNotes ==
  /\ At("notes")
  /\ \/ IF run.request.publish THEN Goto("publish") /\ UNCHANGED advice ELSE HandOver
     \/ GiveUp
  /\ UNCHANGED <<repository, disk, released, history>>

(* create_github_release: the tag must exist, and git must say so.  (A     *)
(* branch of that name would pass for it.)  A failure is only reported.    *)
Publish ==
  /\ At("publish")
  /\ HandOver
  /\ \/ UNCHANGED released
     \/ Exists(run.tag) /\ released' = released \cup {run.tag}
  /\ UNCHANGED <<repository, disk, history>>

(* The command dies, or fails where nothing catches it; the file that it   *)
(* had open may be left empty.                                             *)
Die ==
  /\ run # Nothing
  /\ GiveUp
  /\ \/ ~ At("write") /\ UNCHANGED <<disk, torn>>
     \/ At("write") /\ UNCHANGED disk /\ torn' = TRUE
     \/ /\ At("pyproject") /\ disk.pyproject # run.tag
        /\ disk' = [disk EXCEPT !.pyproject = Nothing] /\ torn' = TRUE
     \/ /\ At("lock") /\ run.named /\ disk.lock # run.tag
        /\ disk' = [disk EXCEPT !.lock = Nothing] /\ torn' = TRUE
     \/ /\ At("header") /\ HeadersDue
        /\ disk' = [disk EXCEPT !.header = Nothing] /\ torn' = TRUE
  /\ UNCHANGED <<repository, released, tries, bumped, collided>>
-----------------------------------------------------------------------------
(* Others commit, and tag: what they tag comes with the next fetch.        *)
Disturbed(r) == IF r = Nothing THEN Nothing ELSE [r EXCEPT !.whole = FALSE]

Work ==
  /\ Len(log) < MaxLog
  /\ \E c \in Commits : log' = Append(log, c)
  /\ run' = Disturbed(run) /\ advice' = Disturbed(advice)
  /\ UNCHANGED <<head, disk, tags, elsewhere, released, history>>

Tagged(version, r, cut) ==
  /\ tags' = tags \cup {[version |-> version, at |-> Len(log), cut |-> cut,
                         whole |-> cut /\ r.whole, bump |-> r.bump,
                         pre |-> r.request.pre, left |-> r.left, tree |-> head]}

TagElsewhere ==
  /\ run # Nothing /\ run.tag \notin Versions(tags)
  /\ Cardinality(tags) < MaxTags
  /\ Tagged(run.tag, run, FALSE)
  /\ run' = Disturbed(run) /\ advice' = Disturbed(advice)
  /\ UNCHANGED <<log, head, disk, elsewhere, released, history>>

(* Whoever ran the command follows its advice: the files are committed,    *)
(* and the commit is tagged.                                               *)
CutCommit ==
  [trailer |-> Nothing, breaking |-> FALSE, row |-> "NONE", header |-> disk.header # head.header]

CommitCut ==
  /\ run = Nothing /\ advice # Nothing
  /\ disk # head /\ Len(log) < MaxLog
  /\ log' = Append(log, CutCommit)
  /\ head' = disk
  /\ UNCHANGED <<disk, tags, elsewhere, released, run, advice, history>>

TagCut ==
  /\ run = Nothing /\ advice # Nothing
  /\ disk = head /\ ~ Exists(advice.tag) /\ Cardinality(tags) < MaxTags
  /\ Tagged(advice.tag, advice, TRUE)
  /\ advice' = Nothing /\ bumped' = FALSE
  /\ UNCHANGED <<log, head, disk, elsewhere, released, run, tries, torn, collided>>

ReleaseNext ==
  \/ Plan \/ Validate \/ PutPyproject \/ PutLock \/ PutHeader
  \/ OpenChangelog \/ WriteChangelog \/ PutNotes \/ Publish \/ Die
  \/ Work \/ TagElsewhere \/ CommitCut \/ TagCut

ReleaseSpec == ReleaseInit /\ [][ReleaseNext]_releaseVars
-----------------------------------------------------------------------------
Cuts == {t \in tags : t.cut}
Before(t) == {u \in tags : u.at < t.at}
Previous(t) == CHOOSE u \in Before(t) : \A w \in Before(t) : w.at <= u.at

(* The package files say the version, but for those that were passed over, *)
(* and the changelog has one block for it and for each cut before.         *)
CutAgrees(t) ==
  /\ \A f \in Files \ t.left : t.tree[f] = t.version
  /\ \A u \in Cuts : u.at <= t.at => Cardinality(Heads(t.tree.changelog, u.version)) = 1

(* The block lists what was committed since the tag before, and a version  *)
(* comment that was due has moved on by one step: where its file was       *)
(* modified, and on a branch without a tag everywhere.                     *)
CutIsComplete(t) ==
  LET since == IF Before(t) = {} THEN 0 ELSE Previous(t).at
      old   == IF Before(t) = {} THEN Origin ELSE Previous(t).tree.header
      new   == since + 1 .. t.at - 1
      due   == /\ Before(t) = {} \/ \E i \in new : log[i].header
               /\ t.bump # "NONE" \/ t.pre # 0
  IN  /\ \A i \in Heads(t.tree.changelog, t.version) : t.tree.changelog[i].commits = new
      /\ t.tree.header = IF due THEN Bump(old, t.bump, t.pre) ELSE old

(* GitHub has none of them: a release there is of a version that somebody  *)
(* else tagged while the run that published it was under way.  To tag      *)
(* first makes the next run compute another version.                       *)
ReleasedByChance ==
  \A v \in released : \E t \in tags : t.version = v /\ ~ t.cut

(* A version that was tagged as the command advises is a cut: however many *)
(* runs died, were repeated or abandoned before, and whatever they could   *)
(* not read, its files agree, unless one was left half written; and it is  *)
(* complete if nobody came in between, git answered and no run had been    *)
(* there before.  No cut is released, unless a run could not list the tags *)
(* and went on with a version that was taken (execute_release).            *)
TagsAreCuts ==
  /\ ~ torn => \A t \in Cuts : CutAgrees(t) /\ (t.whole => CutIsComplete(t))
  /\ ~ collided => ReleasedByChance

=============================================================================
