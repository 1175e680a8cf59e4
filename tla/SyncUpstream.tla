---------------------------- MODULE SyncUpstream ----------------------------
(***************************************************************************)
(* A fork and its upstream: scripts/sync-upstream.ts, run weekly by        *)
(* sync-upstream.yml, which opens a pull request with what the script did  *)
(* to the checkout; and the baseline that `npm run init` records.  The     *)
(* fork is one, or a repository made from upstream as a template, which    *)
(* has upstream's files and none of its commits.                           *)
(*                                                                         *)
(* A tree is what each path holds.  A file's content is the upstream       *)
(* version it comes from and whether the user edited it.                   *)
(***************************************************************************)
EXTENDS Naturals, SequencesExt

CONSTANTS
  PathOrder,        \* the paths, in the order git diff lists them
  Toml,             \* the path of .upstream-sync.toml
  Forked,           \* the paths there are when the fork is made
  User, Merged, Tracked,  \* the paths that each list of globs matches
  Reclassified,     \* the paths that the user's own toml adds to [merged]
  MaxCommits,       \* bound on the commits of upstream
  MaxEdits,         \* bound on the commits of the user
  UpstreamMoves,    \* what upstream does: "modify", "add", "delete", "rename"
  ForkMoves,        \* what the user does: "edit", "add", "init", "commit"
  None

Paths == Range(PathOrder)
Content == [version : 0 .. MaxCommits, edited : BOOLEAN]
Tree == [Paths -> Content \cup {None}]

(* What the state file can name: a commit of upstream, or of the fork.     *)
Commit == [sha : (0 .. MaxCommits) \cup {None}, tree : Tree]
Pr == [base : Tree, tree : Tree, from : Commit \cup {None}, state : Commit]

VARIABLES
  upstream,  \* upstream/main
  head,      \* the fork's main branch
  state,     \* .upstream-sync.state on it
  written,   \* the one that init wrote and nobody has committed
  related,   \* the fork has a commit in common with upstream
  prs,       \* the open sync pull requests
  commits,   \* commits of upstream so far
  edits      \* commits of the user so far

vars == <<upstream, head, state, written, related, prs, commits, edits>>

TypeOK ==
  /\ upstream \in Tree /\ head \in Tree /\ state \in Commit \cup {None}
  /\ written \in Commit \cup {None} /\ related \in BOOLEAN
  /\ prs \subseteq Pr
  /\ commits \in 0 .. MaxCommits /\ edits \in 0 .. MaxEdits

ForkPoint ==
  [p \in Paths |-> IF p \in Forked THEN [version |-> 0, edited |-> FALSE] ELSE None]

Init ==
  /\ upstream = ForkPoint /\ head = ForkPoint /\ state = None
  /\ written = None /\ related \in BOOLEAN
  /\ prs = {} /\ commits = 0 /\ edits = 0

-----------------------------------------------------------------------------
(* The commits of the two sides.                                           *)

UpstreamCommit(new) ==
  /\ commits < MaxCommits
  /\ commits' = commits + 1
  /\ upstream' = new
  /\ UNCHANGED <<head, state, written, related, prs, edits>>

Fresh == [version |-> commits + 1, edited |-> FALSE]

UpstreamModifies(p) ==
  /\ "modify" \in UpstreamMoves /\ upstream[p] # None
  /\ UpstreamCommit([upstream EXCEPT ![p] = Fresh])
UpstreamAdds(p) ==
  /\ "add" \in UpstreamMoves /\ upstream[p] = None
  /\ UpstreamCommit([upstream EXCEPT ![p] = Fresh])
UpstreamDeletes(p) ==
  /\ "delete" \in UpstreamMoves /\ upstream[p] # None /\ p # Toml
  /\ UpstreamCommit([upstream EXCEPT ![p] = None])
UpstreamRenames(p, q) ==
  /\ "rename" \in UpstreamMoves /\ p # Toml /\ q \notin Forked
  /\ upstream[p] # None /\ upstream[q] = None
  /\ UpstreamCommit([upstream EXCEPT ![p] = None, ![q] = upstream[p]])

ForkCommit(p, content) ==
  /\ edits < MaxEdits
  /\ edits' = edits + 1
  /\ head' = [head EXCEPT ![p] = content]
  /\ UNCHANGED <<upstream, state, written, related, prs, commits>>

UserEdits(p) ==
  /\ "edit" \in ForkMoves /\ head[p] # None /\ ~head[p].edited
  /\ ForkCommit(p, [head[p] EXCEPT !.edited = TRUE])
UserAdds(p) ==
  /\ "add" \in ForkMoves /\ head[p] = None
  /\ ForkCommit(p, [version |-> 0, edited |-> TRUE])

(* npm run init writes the fork's HEAD to the state file if there is none  *)
(* yet.  The git add it asks for leaves the file out; the user may commit  *)
(* it all the same, and git refuses once main has one.                     *)
InitRecordsHead ==
  /\ "init" \in ForkMoves /\ state = None /\ written = None
  /\ written' = [sha |-> None, tree |-> head]
  /\ UNCHANGED <<upstream, head, state, related, prs, commits, edits>>
CommitsState ==
  /\ "commit" \in ForkMoves /\ written # None /\ state = None
  /\ state' = written /\ written' = None
  /\ UNCHANGED <<upstream, head, related, prs, commits, edits>>

-----------------------------------------------------------------------------
(* git diff --name-status -z.  A path that vanished and one that appeared  *)
(* with the same content are one rename, listed under the new path: a      *)
(* status and two paths, where every other line is a status and one path.  *)

RenamedFrom(from, to, q) ==
  {p \in Paths : /\ from[p] # None /\ to[p] = None
                 /\ from[q] = None /\ to[q] = from[p]}

DiffLine(from, to, p) ==
  IF \/ from[p] = to[p]
     \/ \E q \in Paths : p \in RenamedFrom(from, to, q) THEN <<>>
  ELSE IF RenamedFrom(from, to, p) # {}
    THEN <<"R", CHOOSE old \in RenamedFrom(from, to, p) : TRUE, p>>
  ELSE <<IF to[p] = None THEN "D" ELSE IF from[p] = None THEN "A" ELSE "M", p>>

Diff(from, to) == FlattenSeq([i \in DOMAIN PathOrder |-> DiffLine(from, to, PathOrder[i])])

(* getChangedFiles reads the tokens two by two.                            *)
GetChangedFiles(from, to) ==
  LET tokens == Diff(from, to) IN
  {[status |-> tokens[2 * i - 1], path |-> tokens[2 * i]] : i \in 1 .. Len(tokens) \div 2}

-----------------------------------------------------------------------------

(* Mutant: the lists are tried in the order of the file.                   *)
ClassifyTrackedFirst(path, toml) ==
  IF path \in Tracked THEN "tracked"
  ELSE IF path \in Merged THEN "merged"
  ELSE IF path \in User THEN "user" ELSE "unmatched"

(* classify, with the toml of the checkout: the stock one, or the user's.  *)
Classify(path, toml) ==
  IF path \in User THEN "user"
  ELSE IF path \in Merged \cup (IF toml.edited THEN Reclassified ELSE {}) THEN "merged"
  ELSE IF path \in Tracked THEN "tracked" ELSE "unmatched"

(* What becomes of the file at path p: its content, whether merge-file may *)
(* report a conflict, and whether the script stops there.                  *)
Keep(p) == [content |-> head[p], mayConflict |-> FALSE, throws |-> FALSE]
Take(c) == [content |-> c, mayConflict |-> FALSE, throws |-> FALSE]

(* An edit that base has too is no change of ours, and theirs lacks it.    *)
ThreeWay(ours, base, theirs) ==
  [version |-> theirs.version, edited |-> ours.edited /\ ~base.edited]

MergeFile(p, from, to) ==
  LET ours == head[p]  base == from[p]  theirs == to[p] IN
  IF ours = None THEN Take(theirs)
  ELSE IF theirs = None
    THEN IF base # None /\ ours = base THEN Take(None) ELSE Keep(p)
  ELSE IF base = None THEN Take(theirs)
  ELSE [Take(ThreeWay(ours, base, theirs)) EXCEPT
          !.mayConflict = ours \notin {base, theirs} /\ base # theirs]

(* Mutant: a deletion upstream is always followed.                         *)
DeletionFollowed(p, from) == Take(None)
(* Mutant: a file deleted upstream is checked out like the others.         *)
DeletionCheckedOut(p, from) == [Take(None) EXCEPT !.throws = TRUE]
Deletion(p, from) ==
  IF head[p] # None /\ from[p] # None /\ head[p] = from[p] THEN Take(None) ELSE Keep(p)

(* The body of main's loop for one entry with a path of the repository.    *)
Outcome(e, from, to) ==
  LET class == Classify(e.path, head[Toml]) IN
  CASE class = "user"   -> Keep(e.path)
    [] class # "user" /\ e.status = "D" -> Deletion(e.path, from)
    [] class = "merged" /\ e.status # "D" -> MergeFile(e.path, from, to)
    [] class \in {"tracked", "unmatched"} /\ e.status # "D" ->
         [Take(to[e.path]) EXCEPT !.throws = to[e.path] = None]

(* Mutant: the state file is not read.                                     *)
AlwaysForkPoint == ForkPoint
(* getLastSyncedSha: the state file, or the merge base, which is where the *)
(* fork was made: a sync pull request brings no upstream commits with it.  *)
(* git merge-base fails, and the script with it, if the two have no commit *)
(* in common.                                                              *)
HasBaseline == state # None \/ related
LastSynced == IF state # None THEN state.tree ELSE ForkPoint

(* A run of the script and the pull request for what it leaves: a new one, *)
(* or its update if there is one for this commit of upstream.  An entry    *)
(* whose path is no path of upstream stops it, and so does the lack of a   *)
(* baseline; then nothing is kept.                                         *)
(* A conflicted file is listed in the pull request and comes with both     *)
(* sides: the user resolves it before merging, keeping the edits.          *)
Newest == [sha |-> commits, tree |-> upstream]
OpensPr(entries) ==
  LET Entry(p) == CHOOSE e \in entries : e.path = p
      changed == {e.path : e \in entries}
      Result(p) == Outcome(Entry(p), LastSynced, upstream) IN
  /\ entries # {} /\ changed \subseteq Paths
  /\ \A p \in changed : ~Result(p).throws
  /\ \E conflicted \in SUBSET {p \in changed : Result(p).mayConflict} :
       prs' = {pr \in prs : pr.state # Newest} \cup
         {[base |-> head, from |-> state, state |-> Newest,
           tree |-> [p \in Paths |->
             IF p \notin changed THEN head[p]
             ELSE IF p \in conflicted THEN [Result(p).content EXCEPT !.edited = TRUE]
             ELSE Result(p).content]]}
Sync ==
  /\ HasBaseline
  /\ \E entries \in {GetChangedFiles(LastSynced, upstream)} : OpensPr(entries)
  /\ UNCHANGED <<upstream, head, state, written, related, commits, edits>>

(* git merges the pull request file by file, the state file included, and  *)
(* refuses when both sides changed one.                                    *)
MergesCleanly(base, theirs, ours) == Cardinality({base, theirs, ours}) < 3
Mergeable(pr) ==
  /\ MergesCleanly(pr.from, pr.state, state)
  /\ \A p \in Paths : MergesCleanly(pr.base[p], pr.tree[p], head[p])
MergePr(pr) ==
  /\ Mergeable(pr)
  /\ head' = [p \in Paths |-> IF pr.tree[p] = pr.base[p] THEN head[p] ELSE pr.tree[p]]
  /\ state' = IF pr.state = pr.from THEN state ELSE pr.state
  /\ prs' = prs \ {pr}
  /\ UNCHANGED <<upstream, written, related, commits, edits>>

(* The user closes a pull request that git refuses.                        *)
ClosePr(pr) ==
  /\ ~Mergeable(pr)
  /\ prs' = prs \ {pr}
  /\ UNCHANGED <<upstream, head, state, written, related, commits, edits>>

UpstreamNext ==
  \/ \E p \in Paths : UpstreamModifies(p) \/ UpstreamAdds(p) \/ UpstreamDeletes(p)
  \/ \E p, q \in Paths : UpstreamRenames(p, q)
UserNext == (\E p \in Paths : UserEdits(p) \/ UserAdds(p)) \/ InitRecordsHead \/ CommitsState
MergeSome == \E pr \in prs : MergePr(pr)
CloseSome == \E pr \in prs : ClosePr(pr)

Next == UpstreamNext \/ UserNext \/ Sync \/ MergeSome \/ CloseSome
Spec == Init /\ [][Next]_vars

(* The workflow runs every week, and the user gets round to the pull       *)
(* request of the newest upstream, whenever git can merge it.              *)
FairSpec ==
  /\ Spec /\ WF_vars(Sync)
  /\ SF_vars(\E pr \in prs : pr.state = Newest /\ MergePr(pr))

-----------------------------------------------------------------------------

(* Merging a sync pull request loses no edit to a file that was [user] or  *)
(* [merged] when the script ran: the edit is there afterwards, or the file *)
(* was listed as a conflict.  Except for a file that upstream adds where   *)
(* the user has added one: mergeFile takes a missing base for a new file.  *)
(* And except for what the user had edited before `npm run init`, if the   *)
(* state file it wrote was committed: it names that as upstream's.  A file *)
(* that the user has reclassified keeps its new class only as long as      *)
(* .upstream-sync.toml does, which is [tracked]: a sync that brings a new  *)
(* one resets the class, and the next sync may overwrite the edit.         *)
Protected(toml) == User \cup Merged \cup (IF toml.edited THEN Reclassified ELSE {})
BaseOf(pr) == IF pr.from # None THEN pr.from.tree ELSE ForkPoint
NotUpstreams(pr, p) ==
  LET base == BaseOf(pr)[p] IN
  IF base = None THEN pr.state.tree[p] = None ELSE ~base.edited
SurvivesMerge ==
  \A pr \in prs : MergePr(pr) =>
    \A p \in Paths :
      /\ head[p] # None /\ head[p].edited
      /\ p \in Protected(pr.base[Toml]) /\ NotUpstreams(pr, p)
      => head'[p] # None /\ head'[p].edited
EditsSurviveSync == [][SurvivesMerge]_vars

(* Whatever its class, a file that the user made or modified is never      *)
(* removed by a sync.  Except after the state file of `npm run init` is    *)
(* committed, which names the HEAD of the fork as if it were upstream's:   *)
(* what the user has added by then counts as deleted upstream.             *)
KeptByMerge ==
  "commit" \notin ForkMoves /\ MergeSome =>
    \A p \in Paths :
      head[p] # None /\ head[p].edited => head'[p] # None
ModifiedFilesAreKept == [][KeptByMerge]_vars

(* A file outside [user] that the user has not edited is what upstream had *)
(* at the commit the state file names.  Except when upstream renames one:  *)
(* getChangedFiles reads the two paths of a rename as the path of one      *)
(* entry and the status of the next.  And except after the state file of   *)
(* `npm run init` is committed, which names a commit of the fork.          *)
UntouchedFilesFollow ==
  /\ "rename" \notin UpstreamMoves /\ "commit" \notin ForkMoves
  /\ state # None
  => \A p \in Paths :
      /\ Classify(p, head[Toml]) # "user"
      /\ head[p] # None => ~head[p].edited
      => head[p] = state.tree[p]

(* The fork catches up with upstream, which makes finitely many commits.   *)
(* Except after a rename: checking out the old path fails in every run.    *)
(* And except in a fork made from the template as long as no state file is *)
(* committed: no run has a baseline.                                       *)
SyncCatchesUp ==
  "rename" \notin UpstreamMoves => []<>(HasBaseline => LastSynced = upstream)
=============================================================================
