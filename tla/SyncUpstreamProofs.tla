------------------------- MODULE SyncUpstreamProofs -------------------------
(***************************************************************************)
(* What holds of a fork and its upstream for any paths, lists, commits and *)
(* edits.                                                                  *)
(***************************************************************************)
EXTENDS
  SyncUpstream, FiniteSetTheorems, SequenceTheorems, WellFoundedInduction, TLAPS

(* Nothing that a path or the state file holds is the missing value.       *)
Sane ==
  /\ MaxCommits \in Nat /\ MaxEdits \in Nat
  /\ None \notin Content /\ None \notin Commit
  /\ PathOrder \in Seq(Paths)

-----------------------------------------------------------------------------
(* git's three-way choice.                                                 *)

(* Of three versions that merge cleanly, two are the same.                 *)
LEMMA CleanIsTwo ==
  ASSUME NEW a, NEW b, NEW c, MergesCleanly(a, b, c)
  PROVE  a = b \/ a = c \/ b = c
<1> SUFFICES ASSUME a # b, a # c, b # c PROVE FALSE
  OBVIOUS
<1>1. IsFiniteSet({a}) /\ Cardinality({a}) = 1
  BY FS_Singleton
<1>2. IsFiniteSet({a} \cup {b}) /\ Cardinality({a} \cup {b}) = 2
  BY <1>1, FS_AddElement
<1>3. Cardinality({a} \cup {b} \cup {c}) = 3
  BY <1>2, FS_AddElement
<1>4. {a, b, c} = {a} \cup {b} \cup {c}
  OBVIOUS
<1> QED
  BY <1>3, <1>4 DEF MergesCleanly

(* What a merge leaves at a path: what main has, or what the pull request  *)
(* has where it changes the path and main has not changed it.              *)
LEMMA MergeTakesOne ==
  ASSUME NEW pr, MergePr(pr), NEW p \in Paths
  PROVE  \/ head'[p] = head[p]
         \/ /\ head'[p] = pr.tree[p] /\ head[p] = pr.base[p]
            /\ pr.tree[p] # pr.base[p]
<1>1. MergesCleanly(pr.base[p], pr.tree[p], head[p])
  BY DEF MergePr, Mergeable
<1>2. head'[p] = IF pr.tree[p] = pr.base[p] THEN head[p] ELSE pr.tree[p]
  BY DEF MergePr
<1> QED
  BY <1>1, <1>2, CleanIsTwo

-----------------------------------------------------------------------------
(* What the script does with one file.                                     *)

LEMMA ForkPointIsTree ==
  ASSUME Sane PROVE ForkPoint \in Tree
<1>1. 0 \in 0 .. MaxCommits
  BY DEF Sane
<1> QED
  BY <1>1 DEF ForkPoint, Tree, Content

LEMMA LastSyncedIsTree ==
  ASSUME Sane, TypeOK PROVE LastSynced \in Tree
BY ForkPointIsTree DEF LastSynced, TypeOK, Commit

(* A conflict is possible only between contents.                           *)
LEMMA OutcomeFits ==
  ASSUME Sane, TypeOK, NEW from \in Tree, NEW to \in Tree, NEW e, e.path \in Paths
  PROVE  LET o == Outcome(e, from, to) IN
         /\ o.content \in Content \cup {None}
         /\ o.mayConflict => o.content \in Content
<1> DEFINE p == e.path
<1>1. /\ head[p] \in Content \cup {None} /\ from[p] \in Content \cup {None}
      /\ to[p] \in Content \cup {None}
  BY DEF TypeOK, Tree
<1>2. /\ Keep(p).content = head[p] /\ ~Keep(p).mayConflict
      /\ \A c : Take(c).content = c /\ ~Take(c).mayConflict
  BY DEF Keep, Take
<1>3. LET o == Deletion(p, from) IN
      o.content \in Content \cup {None} /\ ~o.mayConflict
  BY <1>1, <1>2 DEF Deletion
<1>4. LET o == MergeFile(p, from, to) IN
      o.content \in Content \cup {None} /\ (o.mayConflict => o.content \in Content)
  <2>1. CASE head[p] = None \/ to[p] = None \/ from[p] = None
    BY <2>1, <1>1, <1>2 DEF MergeFile
  <2>2. CASE head[p] # None /\ to[p] # None /\ from[p] # None
    <3>1. ThreeWay(head[p], from[p], to[p]) \in Content
      BY <2>2, <1>1 DEF ThreeWay, Content
    <3>2. MergeFile(p, from, to).content = ThreeWay(head[p], from[p], to[p])
      BY <2>2 DEF MergeFile, Take
    <3> QED
      BY <3>1, <3>2
  <2> QED
    BY <2>1, <2>2
<1>5. LET o == [Take(to[p]) EXCEPT !.throws = to[p] = None] IN
      o.content = to[p] /\ ~o.mayConflict
  BY DEF Take
<1> HIDE DEF p
<1>6. CASE Classify(p, head[Toml]) = "user"
  BY <1>6, <1>1, <1>2 DEF Outcome, p
<1>7. CASE Classify(p, head[Toml]) # "user" /\ e.status = "D"
  BY <1>7, <1>3 DEF Outcome, p
<1>8. CASE Classify(p, head[Toml]) = "merged" /\ e.status # "D"
  BY <1>8, <1>4 DEF Outcome, p
<1>9. CASE Classify(p, head[Toml]) \in {"tracked", "unmatched"} /\ e.status # "D"
  BY <1>9, <1>5, <1>1 DEF Outcome, p
<1> QED
  BY <1>6, <1>7, <1>8, <1>9 DEF Classify, p

-----------------------------------------------------------------------------
(* Types.                                                                  *)

(* The pull request that a run leaves: the files the diff names as Outcome *)
(* has them, or with both sides, and the others as they were.              *)
Entries == GetChangedFiles(LastSynced, upstream)
Changed == {e.path : e \in Entries}
EntryOf(p) == CHOOSE e \in Entries : e.path = p
ResultAt(p) == Outcome(EntryOf(p), LastSynced, upstream)
Leaves(tree) == \A p \in Paths :
  IF p \notin Changed THEN tree[p] = head[p]
  ELSE \/ tree[p] = ResultAt(p).content
       \/ /\ ResultAt(p).mayConflict
          /\ tree[p] \in Content /\ tree[p].edited

LEMMA SyncOpens ==
  ASSUME Sane, TypeOK, Sync
  PROVE  /\ Entries # {}
         /\ \A p \in Changed : ~ResultAt(p).throws
         /\ \E new \in Pr :
              /\ prs' = {pr \in prs : pr.state # Newest} \cup {new}
              /\ new.base = head /\ new.from = state /\ new.state = Newest
              /\ Leaves(new.tree)
<1> DEFINE NewTree(conflicted) == [p \in Paths |->
             IF p \notin Changed THEN head[p]
             ELSE IF p \in conflicted THEN [ResultAt(p).content EXCEPT !.edited = TRUE]
             ELSE ResultAt(p).content]
<1>0. OpensPr(Entries)
  BY DEF Sync, Entries
<1>1. PICK conflicted \in SUBSET {p \in Changed : ResultAt(p).mayConflict} :
        prs' = {pr \in prs : pr.state # Newest} \cup
          {[base |-> head, from |-> state, state |-> Newest, tree |-> NewTree(conflicted)]}
  BY <1>0 DEF OpensPr, Changed, ResultAt, EntryOf
<1>2. upstream \in Tree /\ head \in Tree /\ state \in Commit \cup {None} /\ prs \subseteq Pr
  BY DEF TypeOK
<1>3. Newest \in Commit
  BY DEF Newest, Commit, TypeOK
<1>4. ASSUME NEW p \in Changed, p \in Paths
      PROVE  /\ ResultAt(p).content \in Content \cup {None}
             /\ ResultAt(p).mayConflict => ResultAt(p).content \in Content
  <2>1. EntryOf(p).path = p
    BY DEF EntryOf, Changed
  <2> QED
    BY <2>1, <1>2, <1>4, LastSyncedIsTree, OutcomeFits DEF ResultAt
<1>5. \A c \in Content : [c EXCEPT !.edited = TRUE] \in Content
                          /\ [c EXCEPT !.edited = TRUE].edited
  BY DEF Content
<1>6. NewTree(conflicted) \in Tree /\ Leaves(NewTree(conflicted))
  <2>1. ASSUME NEW p \in Paths
        PROVE  /\ NewTree(conflicted)[p] \in Content \cup {None}
               /\ IF p \notin Changed THEN NewTree(conflicted)[p] = head[p]
                  ELSE \/ NewTree(conflicted)[p] = ResultAt(p).content
                       \/ /\ ResultAt(p).mayConflict
                          /\ NewTree(conflicted)[p] \in Content
                          /\ NewTree(conflicted)[p].edited
    <3>1. CASE p \notin Changed
      BY <3>1, <1>2 DEF Tree
    <3>2. CASE p \in Changed /\ p \notin conflicted
      BY <3>2, <1>4
    <3>3. CASE p \in conflicted
      <4>1. p \in Changed /\ ResultAt(p).mayConflict /\ ResultAt(p).content \in Content
        BY <3>3, <1>4
      <4>2. NewTree(conflicted)[p] = [ResultAt(p).content EXCEPT !.edited = TRUE]
        BY <3>3, <4>1
      <4> QED
        BY <4>1, <4>2, <1>5
    <3> QED
      BY <3>1, <3>2, <3>3
  <2>2. NewTree(conflicted) = [p \in Paths |-> NewTree(conflicted)[p]]
    OBVIOUS
  <2> QED
    BY <2>1, <2>2 DEF Tree, Leaves
<1> HIDE DEF NewTree
<1>7. [base |-> head, from |-> state, state |-> Newest, tree |-> NewTree(conflicted)] \in Pr
  BY <1>2, <1>3, <1>6 DEF Pr
<1>8. Entries # {} /\ \A p \in Changed : ~ResultAt(p).throws
  BY <1>0 DEF OpensPr, Changed, ResultAt, EntryOf
<1> QED
  BY <1>1, <1>6, <1>7, <1>8

LEMMA SyncKeepsTypes ==
  ASSUME Sane, TypeOK, Sync PROVE prs' \subseteq Pr
BY SyncOpens DEF TypeOK

LEMMA MergeKeepsTypes ==
  ASSUME TypeOK, NEW pr \in prs, MergePr(pr)
  PROVE  head' \in Tree /\ state' \in Commit \cup {None} /\ prs' \subseteq Pr
<1>1. pr \in Pr
  BY DEF TypeOK
<1>2. /\ pr.tree \in Tree /\ pr.state \in Commit
      /\ head \in Tree /\ state \in Commit \cup {None}
  BY <1>1 DEF Pr, TypeOK
<1>3. head' \in Tree
  BY <1>2 DEF MergePr, Tree
<1> QED
  BY <1>2, <1>3 DEF MergePr, TypeOK

LEMMA UpstreamKeepsTypes ==
  ASSUME Sane, TypeOK, UpstreamNext PROVE upstream' \in Tree /\ commits' \in 0 .. MaxCommits
<1>1. upstream \in Tree /\ commits \in 0 .. MaxCommits /\ MaxCommits \in Nat
  BY DEF TypeOK, Sane
<1>2. commits < MaxCommits => Fresh \in Content
  BY <1>1 DEF Fresh, Content
<1>3. \A new : UpstreamCommit(new) =>
        upstream' = new /\ commits' \in 0 .. MaxCommits /\ commits < MaxCommits
  BY <1>1 DEF UpstreamCommit
<1>4. ASSUME NEW p \in Paths, NEW c \in Content \cup {None}
      PROVE  [upstream EXCEPT ![p] = c] \in Tree
  BY <1>1 DEF Tree
<1>5. ASSUME NEW p \in Paths, UpstreamModifies(p) \/ UpstreamAdds(p) \/ UpstreamDeletes(p)
      PROVE  upstream' \in Tree /\ commits' \in 0 .. MaxCommits
  <2>1. PICK c \in {Fresh, None} : UpstreamCommit([upstream EXCEPT ![p] = c])
    BY <1>5 DEF UpstreamModifies, UpstreamAdds, UpstreamDeletes
  <2>2. c \in Content \cup {None}
    BY <1>2, <1>3, <2>1
  <2> QED
    BY <1>3, <1>4, <2>1, <2>2
<1>6. ASSUME NEW p \in Paths, NEW q \in Paths, UpstreamRenames(p, q)
      PROVE  upstream' \in Tree /\ commits' \in 0 .. MaxCommits
  <2>1. [upstream EXCEPT ![p] = None, ![q] = upstream[p]] \in Tree
    BY <1>1 DEF Tree
  <2> QED
    BY <1>3, <1>6, <2>1 DEF UpstreamRenames
<1> QED
  BY <1>5, <1>6 DEF UpstreamNext

LEMMA UserKeepsTypes ==
  ASSUME Sane, TypeOK, UserNext
  PROVE  /\ head' \in Tree /\ state' \in Commit \cup {None} /\ edits' \in 0 .. MaxEdits
         /\ written' \in Commit \cup {None}
<1>1. /\ head \in Tree /\ state \in Commit \cup {None} /\ edits \in 0 .. MaxEdits
      /\ written \in Commit \cup {None}
      /\ MaxEdits \in Nat /\ 0 \in 0 .. MaxCommits
  BY DEF TypeOK, Sane
<1>2. ASSUME NEW p \in Paths, NEW c \in Content, ForkCommit(p, c)
      PROVE  /\ head' \in Tree /\ state' = state /\ edits' \in 0 .. MaxEdits
             /\ written' = written
  BY <1>1, <1>2 DEF ForkCommit, Tree
<1>3. ASSUME NEW p \in Paths, UserEdits(p)
      PROVE  \E c \in Content : ForkCommit(p, c)
  <2>1. head[p] \in Content
    BY <1>1, <1>3 DEF UserEdits, Tree
  <2>2. [head[p] EXCEPT !.edited = TRUE] \in Content
    BY <2>1 DEF Content
  <2> QED
    BY <1>3, <2>2 DEF UserEdits
<1>4. ASSUME NEW p \in Paths, UserAdds(p)
      PROVE  \E c \in Content : ForkCommit(p, c)
  <2>1. [version |-> 0, edited |-> TRUE] \in Content
    BY <1>1 DEF Content
  <2> QED
    BY <1>4, <2>1 DEF UserAdds
<1>5. ASSUME InitRecordsHead
      PROVE  UNCHANGED <<head, state, edits>> /\ written' \in Commit
  BY <1>1, <1>5 DEF InitRecordsHead, Commit
<1>6. ASSUME CommitsState
      PROVE  UNCHANGED <<head, edits>> /\ state' \in Commit /\ written' = None
  BY <1>1, <1>6 DEF CommitsState
<1>7. CASE \E p \in Paths : UserEdits(p) \/ UserAdds(p)
  <2>1. PICK p \in Paths, c \in Content : ForkCommit(p, c)
    BY <1>3, <1>4, <1>7
  <2> QED
    BY <1>1, <1>2, <2>1
<1> QED
  BY <1>1, <1>5, <1>6, <1>7 DEF UserNext

LEMMA TypeStep ==
  ASSUME Sane, TypeOK, [Next]_vars PROVE TypeOK'
<1>1. CASE UpstreamNext
  <2>1. UNCHANGED <<head, state, written, related, prs, edits>>
    BY <1>1 DEF UpstreamNext, UpstreamModifies, UpstreamAdds, UpstreamDeletes,
                UpstreamRenames, UpstreamCommit
  <2> QED
    BY <1>1, <2>1, UpstreamKeepsTypes DEF TypeOK
<1>2. CASE UserNext
  <2>1. UNCHANGED <<upstream, related, prs, commits>>
    BY <1>2 DEF UserNext, UserEdits, UserAdds, ForkCommit, InitRecordsHead, CommitsState
  <2> QED
    BY <1>2, <2>1, UserKeepsTypes DEF TypeOK
<1>3. CASE Sync
  <2>1. UNCHANGED <<upstream, head, state, written, related, commits, edits>>
    BY <1>3 DEF Sync
  <2> QED
    BY <1>3, <2>1, SyncKeepsTypes DEF TypeOK
<1>4. CASE MergeSome
  <2>1. PICK pr \in prs : MergePr(pr)
    BY <1>4 DEF MergeSome
  <2>2. UNCHANGED <<upstream, written, related, commits, edits>>
    BY <2>1 DEF MergePr
  <2> QED
    BY <2>1, <2>2, MergeKeepsTypes DEF TypeOK
<1>5. CASE CloseSome
  BY <1>5 DEF CloseSome, ClosePr, TypeOK
<1>6. CASE UNCHANGED vars
  BY <1>6 DEF vars, TypeOK
<1> QED
  BY <1>1, <1>2, <1>3, <1>4, <1>5, <1>6 DEF Next

LEMMA SyncInitTypes == ASSUME Sane, Init PROVE TypeOK
<1>1. MaxCommits \in Nat /\ MaxEdits \in Nat
  BY DEF Sane
<1>2. 0 \in 0 .. MaxCommits /\ 0 \in 0 .. MaxEdits
  BY <1>1
<1> QED
  BY <1>2, ForkPointIsTree DEF Init, TypeOK

(* The variables have their types, for any files, commits and edits.       *)
THEOREM SyncTypeCorrect == ASSUME Sane PROVE Spec => []TypeOK
<1>1. Init => TypeOK
  BY SyncInitTypes
<1>2. TypeOK /\ [Next]_vars => TypeOK'
  BY TypeStep
<1> QED
  BY <1>1, <1>2, PTL DEF Spec

-----------------------------------------------------------------------------
(* Edits.                                                                  *)

Edited(c) == c # None /\ c.edited

(* Outside [tracked], what the user edited since the base stays edited.    *)
LEMMA EditIsMerged ==
  ASSUME Sane, TypeOK, NEW from \in Tree, NEW to \in Tree, NEW e, e.path \in Paths,
         Edited(head[e.path]), e.path \in Protected(head[Toml]),
         LET base == from[e.path] IN
           IF base = None THEN to[e.path] = None ELSE ~base.edited
  PROVE  Edited(Outcome(e, from, to).content)
<1> DEFINE p == e.path
<1>1. /\ head[p] \in Content \cup {None} /\ from[p] \in Content \cup {None}
      /\ to[p] \in Content \cup {None}
  BY DEF TypeOK, Tree
<1>2. head[p] # None /\ head[p] # from[p] /\ head[p].edited
  BY DEF Edited
<1>3. Edited(Keep(p).content)
  BY DEF Keep, Edited
<1>4. Edited(Deletion(p, from).content)
  BY <1>2, <1>3 DEF Deletion
<1>5. Edited(MergeFile(p, from, to).content)
  <2>1. CASE to[p] = None
    BY <2>1, <1>2, <1>3 DEF MergeFile
  <2>2. CASE to[p] # None
    <3>1. from[p] # None /\ ~from[p].edited
      BY <2>2
    <3>2. MergeFile(p, from, to).content = ThreeWay(head[p], from[p], to[p])
      BY <2>2, <3>1, <1>2 DEF MergeFile, Take
    <3>3. ThreeWay(head[p], from[p], to[p]) \in Content
      BY <2>2, <3>1, <1>1, <1>2 DEF ThreeWay, Content
    <3>4. ThreeWay(head[p], from[p], to[p]).edited
      BY <3>1, <1>2 DEF ThreeWay
    <3> QED
      BY <3>2, <3>3, <3>4 DEF Edited, Sane
  <2> QED
    BY <2>1, <2>2
<1>6. Classify(p, head[Toml]) \in {"user", "merged"}
  BY DEF Protected, Classify
<1> QED
  BY <1>3, <1>4, <1>5, <1>6 DEF Outcome

(* The pull requests keep the edits that are not taken for upstream's.     *)
EditsKept ==
  \A pr \in prs : \A p \in Paths :
    /\ Edited(pr.base[p]) /\ p \in Protected(pr.base[Toml]) /\ NotUpstreams(pr, p)
    => Edited(pr.tree[p])

LEMMA SyncKeepsEdits ==
  ASSUME Sane, TypeOK, EditsKept, Sync PROVE EditsKept'
<1>1. PICK new \in Pr :
        /\ prs' = {pr \in prs : pr.state # Newest} \cup {new}
        /\ new.base = head /\ new.from = state /\ new.state = Newest /\ Leaves(new.tree)
  BY SyncOpens
<1>2. BaseOf(new) = LastSynced /\ new.state.tree = upstream
  BY <1>1 DEF BaseOf, LastSynced, Newest
<1>3. ASSUME NEW p \in Paths, Edited(head[p]), p \in Protected(head[Toml]),
             NotUpstreams(new, p)
      PROVE  Edited(new.tree[p])
  <2>1. CASE p \notin Changed
    BY <2>1, <1>1, <1>3 DEF Leaves
  <2>2. CASE p \in Changed
    <3>1. EntryOf(p).path = p
      BY <2>2 DEF EntryOf, Changed
    <3>2. Edited(ResultAt(p).content)
      BY <3>1, <1>2, <1>3, LastSyncedIsTree, EditIsMerged DEF ResultAt, NotUpstreams, TypeOK
    <3>3. \/ new.tree[p] = ResultAt(p).content
          \/ new.tree[p] \in Content /\ new.tree[p].edited
      BY <2>2, <1>1 DEF Leaves
    <3> QED
      BY <3>2, <3>3 DEF Edited, Sane
  <2> QED
    BY <2>1, <2>2
<1> QED
  BY <1>1, <1>3 DEF EditsKept, NotUpstreams, BaseOf

LEMMA EditsStep ==
  ASSUME Sane, TypeOK, EditsKept, [Next]_vars PROVE EditsKept'
<1>1. CASE Sync
  BY <1>1, SyncKeepsEdits
<1>2. CASE UNCHANGED vars \/ UpstreamNext \/ UserNext \/ MergeSome \/ CloseSome
  <2>1. prs' \subseteq prs
    BY <1>2 DEF vars, UpstreamNext, UpstreamModifies, UpstreamAdds, UpstreamDeletes,
                UpstreamRenames, UpstreamCommit, UserNext, UserEdits, UserAdds,
                ForkCommit, InitRecordsHead, CommitsState, MergeSome, MergePr, CloseSome, ClosePr
  <2> QED
    BY <2>1 DEF EditsKept, NotUpstreams, BaseOf
<1> QED
  BY <1>1, <1>2 DEF Next

(* Merging a sync pull request loses no edit to a [user] or [merged] file, *)
(* unless upstream adds a file of that name or main names init's commit    *)
(* that has the edit, and for as long as the checkout's lists name it: for *)
(* any lists, any order of commits, runs and merges, and any conflicts.    *)
THEOREM NoEditIsLost == ASSUME Sane PROVE Spec => EditsSurviveSync
<1>1. Init => TypeOK /\ EditsKept
  BY SyncInitTypes DEF Init, EditsKept
<1>2. TypeOK /\ EditsKept /\ [Next]_vars => (TypeOK /\ EditsKept)'
  BY TypeStep, EditsStep
<1>3. TypeOK /\ EditsKept /\ [Next]_vars => [SurvivesMerge]_vars
  <2> SUFFICES ASSUME EditsKept PROVE SurvivesMerge
    OBVIOUS
  <2>1. ASSUME NEW pr \in prs, MergePr(pr), NEW p \in Paths,
               Edited(head[p]), p \in Protected(pr.base[Toml]), NotUpstreams(pr, p)
        PROVE  Edited(head'[p])
    BY <2>1, MergeTakesOne DEF EditsKept
  <2> QED
    BY <2>1 DEF SurvivesMerge, Edited
<1> QED
  BY <1>1, <1>2, <1>3, PTL DEF Spec, EditsSurviveSync

-----------------------------------------------------------------------------
(* What the state file names.                                              *)

(* The commits of upstream that are still of use: the fork point, the      *)
(* newest, the one the state file names, and those of the pull requests.   *)
Recorded == {ForkPoint, upstream, LastSynced} \cup {pr.state.tree : pr \in prs}

(* Only a commit of upstream makes a new tree.                             *)
LEMMA RecordedStays ==
  ASSUME "commit" \notin ForkMoves, TypeOK,
         Sane, Sync \/ UserNext \/ MergeSome \/ CloseSome \/ UNCHANGED vars
  PROVE  Recorded' \subseteq Recorded
<1>1. upstream' = upstream
  BY DEF Sync, UserNext, UserEdits, UserAdds, ForkCommit, InitRecordsHead, CommitsState, MergeSome,
         MergePr, CloseSome, ClosePr, vars
<1>2. CASE Sync
  <2>1. PICK new \in Pr :
          prs' = {pr \in prs : pr.state # Newest} \cup {new} /\ new.state = Newest
    BY <1>2, SyncOpens
  <2>2. new.state.tree = upstream /\ LastSynced' = LastSynced
    BY <1>2, <2>1 DEF Newest, Sync, LastSynced
  <2> QED
    BY <1>1, <2>1, <2>2 DEF Recorded
<1>3. CASE UserNext \/ CloseSome \/ UNCHANGED vars
  <2>1. state' = state /\ prs' \subseteq prs
    BY <1>3 DEF UserNext, UserEdits, UserAdds, ForkCommit, InitRecordsHead, CommitsState, CloseSome,
                ClosePr, vars
  <2> QED
    BY <1>1, <2>1 DEF Recorded, LastSynced
<1>4. CASE MergeSome
  <2>1. PICK pr \in prs : MergePr(pr)
    BY <1>4 DEF MergeSome
  <2>2. prs' \subseteq prs /\ (state' = state \/ state' = pr.state)
    BY <2>1 DEF MergePr
  <2>3. pr.state # None
    BY DEF TypeOK, Pr, Sane
  <2>4. LastSynced' \in Recorded
    BY <2>2, <2>3 DEF LastSynced, Recorded
  <2> QED
    BY <1>1, <2>2, <2>4 DEF Recorded
<1> QED
  BY <1>2, <1>3, <1>4

LEMMA RecordedGrows ==
  ASSUME UpstreamNext PROVE Recorded' \subseteq Recorded \cup {upstream'}
<1>1. state' = state /\ prs' = prs
  BY DEF UpstreamNext, UpstreamModifies, UpstreamAdds, UpstreamDeletes, UpstreamRenames,
         UpstreamCommit
<1> QED
  BY <1>1 DEF Recorded, LastSynced

(* Upstream has no edit of the user's.                                     *)
Unedited == \A tree \in Recorded : \A p \in Paths : ~Edited(tree[p])

LEMMA UneditedStep ==
  ASSUME "commit" \notin ForkMoves, Sane, TypeOK, Unedited, [Next]_vars PROVE Unedited'
<1>1. CASE UpstreamNext
  <2>1. upstream \in Recorded /\ upstream \in Tree
    BY DEF Recorded, TypeOK
  <2>2. ~Edited(Fresh) /\ ~Edited(None)
    BY DEF Fresh, Edited
  <2>3. ASSUME NEW p \in Paths,
               UpstreamModifies(p) \/ UpstreamAdds(p) \/ UpstreamDeletes(p)
        PROVE  \A q \in Paths : ~Edited(upstream'[q])
    <3>1. upstream' = [upstream EXCEPT ![p] = Fresh] \/ upstream' = [upstream EXCEPT ![p] = None]
      BY <2>3 DEF UpstreamModifies, UpstreamAdds, UpstreamDeletes, UpstreamCommit
    <3>2. \A q \in Paths : upstream'[q] \in {upstream[q], Fresh, None}
      BY <2>1, <3>1 DEF Tree
    <3> QED
      BY <2>1, <2>2, <3>2 DEF Unedited
  <2>4. ASSUME NEW p \in Paths, NEW q \in Paths, UpstreamRenames(p, q)
        PROVE  \A r \in Paths : ~Edited(upstream'[r])
    <3>1. upstream' = [upstream EXCEPT ![p] = None, ![q] = upstream[p]]
      BY <2>4 DEF UpstreamRenames, UpstreamCommit
    <3>2. \A r \in Paths : upstream'[r] \in {upstream[r], upstream[p], None}
      BY <2>1, <3>1 DEF Tree
    <3> QED
      BY <2>1, <2>2, <3>2 DEF Unedited
  <2>5. \A r \in Paths : ~Edited(upstream'[r])
    BY <1>1, <2>3, <2>4 DEF UpstreamNext
  <2> QED
    BY <1>1, <2>5, RecordedGrows DEF Unedited, Edited
<1>2. CASE Sync \/ UserNext \/ MergeSome \/ CloseSome \/ UNCHANGED vars
  <2>1. Recorded' \subseteq Recorded
    BY <1>2, RecordedStays
  <2> QED
    BY <2>1 DEF Unedited, Edited
<1> QED
  BY <1>1, <1>2 DEF Next

-----------------------------------------------------------------------------
(* Files of the user's own.                                                *)

(* Whatever its class, an edited file is removed by no run.                *)
LEMMA EditedFileStays ==
  ASSUME Sane, TypeOK, NEW from \in Tree, NEW to \in Tree, NEW e, e.path \in Paths,
         Edited(head[e.path]), ~Edited(from[e.path]), ~Outcome(e, from, to).throws
  PROVE  Outcome(e, from, to).content # None
<1> DEFINE p == e.path
<1>1. /\ head[p] \in Content \cup {None} /\ from[p] \in Content \cup {None}
      /\ to[p] \in Content \cup {None}
  BY DEF TypeOK, Tree
<1>2. head[p] # None /\ head[p] # from[p]
  BY DEF Edited
<1>3. Keep(p).content # None /\ Deletion(p, from).content # None
  BY <1>2 DEF Keep, Deletion
<1>4. MergeFile(p, from, to).content # None
  <2>1. CASE to[p] = None \/ from[p] = None
    BY <2>1, <1>2, <1>3 DEF MergeFile, Take
  <2>2. CASE to[p] # None /\ from[p] # None
    <3>1. ThreeWay(head[p], from[p], to[p]) \in Content
      BY <2>2, <1>1, <1>2 DEF ThreeWay, Content
    <3>2. MergeFile(p, from, to).content = ThreeWay(head[p], from[p], to[p])
      BY <2>2, <1>2 DEF MergeFile, Take
    <3> QED
      BY <3>1, <3>2 DEF Sane
  <2> QED
    BY <2>1, <2>2
<1>5. CASE Classify(p, head[Toml]) = "user"
  BY <1>5, <1>3 DEF Outcome
<1>6. CASE Classify(p, head[Toml]) # "user" /\ e.status = "D"
  BY <1>6, <1>3 DEF Outcome
<1>7. CASE Classify(p, head[Toml]) = "merged" /\ e.status # "D"
  BY <1>7, <1>4 DEF Outcome
<1>8. CASE Classify(p, head[Toml]) \in {"tracked", "unmatched"} /\ e.status # "D"
  <2>1. Outcome(e, from, to) = [Take(to[p]) EXCEPT !.throws = to[p] = None]
    BY <1>8 DEF Outcome
  <2> QED
    BY <2>1 DEF Take
<1> QED
  BY <1>5, <1>6, <1>7, <1>8 DEF Classify

ModifiedKept ==
  \A pr \in prs : \A p \in Paths : Edited(pr.base[p]) => pr.tree[p] # None
KeptInv == "commit" \notin ForkMoves => Unedited /\ ModifiedKept

LEMMA ModifiedKeptStep ==
  ASSUME "commit" \notin ForkMoves, Sane, TypeOK, Unedited, ModifiedKept, [Next]_vars
  PROVE  ModifiedKept'
<1>1. CASE Sync
  <2>1. PICK new \in Pr :
          /\ prs' = {pr \in prs : pr.state # Newest} \cup {new}
          /\ new.base = head /\ Leaves(new.tree)
    BY <1>1, SyncOpens
  <2>2. ASSUME NEW p \in Paths, Edited(head[p]) PROVE new.tree[p] # None
    <3>1. CASE p \notin Changed
      BY <3>1, <2>1, <2>2 DEF Leaves, Edited
    <3>2. CASE p \in Changed
      <4>1. EntryOf(p).path = p
        BY <3>2 DEF EntryOf, Changed
      <4>2. ~ResultAt(p).throws
        BY <1>1, <3>2, SyncOpens
      <4>3. ~Edited(LastSynced[p])
        BY DEF Unedited, Recorded
      <4>4. ResultAt(p).content # None
        BY <4>1, <4>2, <4>3, <2>2, LastSyncedIsTree, EditedFileStays DEF ResultAt, TypeOK
      <4>5. new.tree[p] = ResultAt(p).content \/ new.tree[p] \in Content
        BY <3>2, <2>1 DEF Leaves
      <4> QED
        BY <4>4, <4>5 DEF Sane
    <3> QED
      BY <3>1, <3>2
  <2> QED
    BY <2>1, <2>2 DEF ModifiedKept
<1>2. CASE UNCHANGED vars \/ UpstreamNext \/ UserNext \/ MergeSome \/ CloseSome
  <2>1. prs' \subseteq prs
    BY <1>2 DEF vars, UpstreamNext, UpstreamModifies, UpstreamAdds, UpstreamDeletes,
                UpstreamRenames, UpstreamCommit, UserNext, UserEdits, UserAdds,
                ForkCommit, InitRecordsHead, CommitsState, MergeSome, MergePr, CloseSome, ClosePr
  <2> QED
    BY <2>1 DEF ModifiedKept
<1> QED
  BY <1>1, <1>2 DEF Next

LEMMA ForkPointIsUnedited ==
  ASSUME Init PROVE Recorded = {ForkPoint} /\ Unedited
BY DEF Init, Recorded, LastSynced, Unedited, Edited, ForkPoint

(* A sync removes no file that the user made or modified, whatever its     *)
(* class, however upstream renames, adds and deletes files, and whatever   *)
(* order runs, edits and merges come in.  Main must not name init's commit. *)
THEOREM ModifiedFilesStay == ASSUME Sane PROVE Spec => ModifiedFilesAreKept
<1>1. Init => TypeOK /\ KeptInv
  BY SyncInitTypes, ForkPointIsUnedited DEF Init, KeptInv, ModifiedKept
<1>2. TypeOK /\ KeptInv /\ [Next]_vars => (TypeOK /\ KeptInv)'
  BY TypeStep, UneditedStep, ModifiedKeptStep DEF KeptInv
<1>3. TypeOK /\ KeptInv /\ [Next]_vars => [KeptByMerge]_vars
  <2> SUFFICES ASSUME KeptInv, "commit" \notin ForkMoves, MergeSome,
                      NEW p \in Paths, Edited(head[p])
               PROVE  head'[p] # None
    BY DEF KeptByMerge, Edited
  <2>1. PICK pr \in prs : MergePr(pr)
    BY DEF MergeSome
  <2> QED
    BY <2>1, MergeTakesOne DEF KeptInv, ModifiedKept, Edited
<1> QED
  BY <1>1, <1>2, <1>3, PTL DEF Spec, ModifiedFilesAreKept

-----------------------------------------------------------------------------
(* How the diff is read.  Induction is by the least counterexample.        *)

LEMMA LeastExists ==
  ASSUME NEW T, T \subseteq Nat, T # {} PROVE \E x \in T : \A y \in T : x <= y
<1>1. PICK R : IsWellFoundedOn(R, Nat) /\ \A m, n \in Nat : m < n => <<m, n>> \in R
  <2>1. \A m, n \in Nat : m < n => <<m, n>> \in OpToRel(<, Nat)
    BY Zenon DEF OpToRel
  <2> QED
    BY <2>1, NatLessThanWellFounded, Zenon
<1>2. \E x \in T : \A y \in T : ~(<<y, x>> \in R)
  <2>1. IsWellFoundedOn(R, Nat)
    BY <1>1
  <2> QED
    BY <2>1, WFMin
<1>3. PICK x \in T : \A y \in T : ~(<<y, x>> \in R)
  BY <1>2
<1>4. ASSUME NEW y \in T PROVE x <= y
  <2>1. x \in Nat /\ y \in Nat
    OBVIOUS
  <2>2. ~(y < x)
    BY <1>1, <1>3, <2>1, Zenon
  <2> QED
    BY <2>1, <2>2
<1> QED
  BY <1>4

(* What holds of 1, and of k + 1 if it holds of k, holds up to n.          *)
LEMMA UpTo ==
  ASSUME NEW n \in Nat, NEW Good, n >= 1 => 1 \in Good,
         \A k \in Nat : k >= 1 /\ k < n /\ k \in Good => k + 1 \in Good
  PROVE  \A k \in 1 .. n : k \in Good
<1> DEFINE Bad == {k \in 1 .. n : k \notin Good}
<1> SUFFICES ASSUME Bad # {} PROVE FALSE
  OBVIOUS
<1>1. Bad \subseteq Nat
  OBVIOUS
<1>2. PICK x \in Bad : \A y \in Bad : x <= y
  <2> HIDE DEF Bad
  <2> QED
    BY <1>1, LeastExists
<1>3. x # 1 /\ x \in 1 .. n
  BY <1>2
<1>4. x - 1 \in Nat /\ x - 1 >= 1 /\ x - 1 < n
  BY <1>3
<1>5. x - 1 \in Good
  BY <1>2, <1>4
<1>6. (x - 1) + 1 \in Good
  BY <1>4, <1>5
<1> QED
  BY <1>2, <1>3, <1>6

(* Joining the first k of some sequences.                                  *)
Joins(f, s, n) == f = [i \in 1 .. n |-> IF i = 1 THEN s[i] ELSE f[i - 1] \o s[i]]

LEMMA JoinExists ==
  ASSUME NEW s, NEW n \in Nat, n >= 1 PROVE \E f : Joins(f, s, n)
<1> DEFINE Good == {k \in Nat : \E f : Joins(f, s, k)}
<1>1. 1 \in Good
  <2> DEFINE g == [i \in 1 .. 1 |-> s[i]]
  <2>1. g = [i \in 1 .. 1 |-> IF i = 1 THEN s[i] ELSE g[i - 1] \o s[i]]
    OBVIOUS
  <2> QED
    BY <2>1 DEF Joins
<1>2. ASSUME NEW k \in Nat, k >= 1, k \in Good PROVE k + 1 \in Good
  <2>1. PICK f : Joins(f, s, k)
    BY <1>2
  <2> DEFINE g == [i \in 1 .. k + 1 |-> IF i = k + 1 THEN f[k] \o s[i] ELSE f[i]]
  <2>2. ASSUME NEW i \in 1 .. k + 1
        PROVE  g[i] = IF i = 1 THEN s[i] ELSE g[i - 1] \o s[i]
    <3>1. CASE i = k + 1
      <4>1. i - 1 = k /\ i # 1 /\ k \in 1 .. k + 1 /\ k # k + 1
        BY <3>1, <1>2
      <4>2. g[i] = f[k] \o s[i] /\ g[k] = f[k]
        BY <3>1, <4>1
      <4> QED
        BY <4>1, <4>2
    <3>2. CASE i # k + 1
      <4>1. i \in 1 .. k
        BY <3>2
      <4>2. f[i] = IF i = 1 THEN s[i] ELSE f[i - 1] \o s[i]
        BY <4>1, <2>1 DEF Joins
      <4>3. g[i] = f[i] /\ (i # 1 => g[i - 1] = f[i - 1])
        BY <3>2, <4>1
      <4> QED
        BY <4>2, <4>3
    <3> QED
      BY <3>1, <3>2
  <2>3. g = [i \in 1 .. k + 1 |-> IF i = 1 THEN s[i] ELSE g[i - 1] \o s[i]]
    <3>1. g = [i \in 1 .. k + 1 |-> g[i]]
      OBVIOUS
    <3> HIDE DEF g
    <3> QED
      BY <2>2, <3>1
  <2> HIDE DEF g
  <2>4. Joins(g, s, k + 1)
    BY <2>3 DEF Joins
  <2> QED
    BY <2>4
<1> HIDE DEF Good
<1>3. n \in Good
  BY <1>1, <1>2, UpTo
<1> QED
  BY <1>3 DEF Good

LEMMA FlattenIsJoin ==
  ASSUME NEW s, Len(s) \in Nat, Len(s) >= 1
  PROVE  \E f : Joins(f, s, Len(s)) /\ FlattenSeq(s) = f[Len(s)]
<1> DEFINE F == CHOOSE f : Joins(f, s, Len(s))
<1>1. Joins(F, s, Len(s))
  BY JoinExists
<1>2. Len(s) # 0
  OBVIOUS
<1>3. FlattenSeq(s) = F[Len(s)]
  BY <1>2, Zenon DEF FlattenSeq, Joins
<1> QED
  BY <1>1, <1>3

(* The tokens taken two by two.                                            *)
Pairs(t) == {[status |-> t[2 * i - 1], path |-> t[2 * i]] : i \in 1 .. Len(t) \div 2}

LEMMA PairsGrow ==
  ASSUME NEW S, NEW t \in Seq(S), NEW m \in Nat, Len(t) = 2 * m, NEW a \in S, NEW b \in S
  PROVE  /\ t \o <<a, b>> \in Seq(S) /\ Len(t \o <<a, b>>) = 2 * (m + 1)
         /\ Pairs(t \o <<a, b>>) = Pairs(t) \cup {[status |-> a, path |-> b]}
<1> DEFINE u == t \o <<a, b>>
           At(w, i) == [status |-> w[2 * i - 1], path |-> w[2 * i]]
<1>1. <<a, b>> \in Seq(S) /\ Len(<<a, b>>) = 2
  OBVIOUS
<1>2. /\ u \in Seq(S) /\ Len(u) = 2 * (m + 1)
      /\ \A i \in 1 .. 2 * m : u[i] = t[i]
      /\ u[2 * m + 1] = a /\ u[2 * m + 2] = b
  <2>1. u \in Seq(S) /\ Len(u) = 2 * m + 2
    BY <1>1, ConcatProperties
  <2>2. \A i \in 1 .. 2 * m + 2 :
          u[i] = IF i <= 2 * m THEN t[i] ELSE <<a, b>>[i - 2 * m]
    BY <1>1, ConcatProperties
  <2>3. \A i \in 1 .. 2 * m : u[i] = t[i]
    BY <2>2
  <2>4. u[2 * m + 1] = <<a, b>>[1] /\ u[2 * m + 2] = <<a, b>>[2]
    BY <2>2
  <2>5. <<a, b>>[1] = a /\ <<a, b>>[2] = b /\ 2 * m + 2 = 2 * (m + 1)
    OBVIOUS
  <2> HIDE DEF u
  <2> QED
    BY <2>1, <2>3, <2>4, <2>5
<1> HIDE DEF u
<1>3. Len(u) \div 2 = m + 1 /\ Len(t) \div 2 = m
  BY <1>2
<1>4. \A i \in 1 .. m : At(u, i) = At(t, i)
  <2> SUFFICES ASSUME NEW i \in 1 .. m PROVE At(u, i) = At(t, i)
    OBVIOUS
  <2>1. 2 * i - 1 \in 1 .. 2 * m /\ 2 * i \in 1 .. 2 * m
    OBVIOUS
  <2> QED
    BY <1>2, <2>1
<1>5. At(u, m + 1) = [status |-> a, path |-> b]
  <2>1. 2 * (m + 1) - 1 = 2 * m + 1 /\ 2 * (m + 1) = 2 * m + 2
    OBVIOUS
  <2> QED
    BY <1>2, <2>1
<1>6. Pairs(u) = {At(u, i) : i \in 1 .. m + 1} /\ Pairs(t) = {At(t, i) : i \in 1 .. m}
  BY <1>3 DEF Pairs
<1>7. 1 .. m + 1 = (1 .. m) \cup {m + 1}
  OBVIOUS
<1> HIDE DEF At
<1>8. Pairs(u) = {At(t, i) : i \in 1 .. m} \cup {[status |-> a, path |-> b]}
  BY <1>4, <1>5, <1>6, <1>7
<1> QED
  BY <1>2, <1>6, <1>8 DEF u

LEMMA NoPairs == Pairs(<<>>) = {}
<1>1. Len(<<>>) \div 2 = 0
  OBVIOUS
<1> QED
  BY <1>1 DEF Pairs

StatusOf(from, to, p) == IF to[p] = None THEN "D" ELSE IF from[p] = None THEN "A" ELSE "M"
EntryFor(from, to, p) == [status |-> StatusOf(from, to, p), path |-> p]

(* Without renames every line is a status and a path, or empty, so reading *)
(* two tokens at a time gives the entries git meant.                       *)
LEMMA DiffIsRead ==
  ASSUME PathOrder \in Seq(Paths), NEW from, NEW to,
         \A p \in Paths : RenamedFrom(from, to, p) = {}
  PROVE  GetChangedFiles(from, to) =
           {EntryFor(from, to, p) : p \in {q \in Paths : from[q] # to[q]}}
<1> DEFINE n == Len(PathOrder)
           lines == [i \in DOMAIN PathOrder |-> DiffLine(from, to, PathOrder[i])]
           Tokens == {"D", "A", "M"} \cup Paths
           Upto(k) == {EntryFor(from, to, p) :
                        p \in {q \in {PathOrder[i] : i \in 1 .. k} : from[q] # to[q]}}
<1>1. n \in Nat /\ DOMAIN PathOrder = 1 .. n /\ \A i \in 1 .. n : PathOrder[i] \in Paths
  BY LenProperties
<1>2. Paths = {PathOrder[i] : i \in 1 .. n}
  BY <1>1 DEF Paths, Range
<1>3. ASSUME NEW p \in Paths
      PROVE  DiffLine(from, to, p) =
               IF from[p] = to[p] THEN <<>> ELSE <<StatusOf(from, to, p), p>>
  BY <1>3 DEF DiffLine, StatusOf
<1>4. Len(lines) = n
  BY <1>1
<1>5. GetChangedFiles(from, to) = Pairs(FlattenSeq(lines))
  BY DEF GetChangedFiles, Diff, Pairs
<1>6. CASE n = 0
  <2>1. FlattenSeq(lines) = lines
    BY <1>4, <1>6, Zenon DEF FlattenSeq
  <2>2. Pairs(lines) = {}
    BY <1>4, <1>6 DEF Pairs
  <2>3. Paths = {}
    BY <1>2, <1>6
  <2> QED
    BY <1>5, <2>1, <2>2, <2>3
<1>7. CASE n >= 1
  <2>1. PICK f : Joins(f, lines, n) /\ FlattenSeq(lines) = f[n]
    <3> HIDE DEF lines, n
    <3> QED
      BY <1>1, <1>4, <1>7, FlattenIsJoin
  <2>2. ASSUME NEW k \in 1 .. n
        PROVE  f[k] = IF k = 1 THEN lines[k] ELSE f[k - 1] \o lines[k]
    BY <2>1 DEF Joins
  <2> DEFINE Reads(t, k) == /\ t \in Seq(Tokens) /\ Pairs(t) = Upto(k)
                            /\ \E m \in Nat : Len(t) = 2 * m
             Good == {k \in 1 .. n : Reads(f[k], k)}
  <2>3. ASSUME NEW k \in 1 .. n, NEW t, Reads(t, k - 1) PROVE Reads(t \o lines[k], k)
    <3> DEFINE p == PathOrder[k]
    <3>1. p \in Paths /\ lines[k] = DiffLine(from, to, p)
      BY <1>1
    <3>2. 1 .. k = (1 .. k - 1) \cup {k}
      OBVIOUS
    <3>3. CASE from[p] = to[p]
      <4>1. t \o lines[k] = t
        BY <3>1, <3>3, <1>3, <2>3, ConcatEmptySeq
      <4>2. Upto(k) = Upto(k - 1)
        BY <3>2, <3>3
      <4> QED
        BY <4>1, <4>2, <2>3
    <3>4. CASE from[p] # to[p]
      <4>1. lines[k] = <<StatusOf(from, to, p), p>>
        BY <3>1, <3>4, <1>3
      <4>2. StatusOf(from, to, p) \in Tokens /\ p \in Tokens
        BY <3>1 DEF StatusOf
      <4>3. Upto(k) = Upto(k - 1) \cup {EntryFor(from, to, p)}
        BY <3>2, <3>4
      <4>4. PICK m \in Nat : Len(t) = 2 * m
        BY <2>3
      <4>5. t \in Seq(Tokens) /\ Pairs(t) = Upto(k - 1)
        BY <2>3
      <4> HIDE DEF Tokens, Upto, lines, p
      <4>6. /\ t \o lines[k] \in Seq(Tokens) /\ Len(t \o lines[k]) = 2 * (m + 1)
            /\ Pairs(t \o lines[k]) = Upto(k)
        BY <4>1, <4>2, <4>3, <4>4, <4>5, PairsGrow DEF EntryFor
      <4> QED
        BY <4>6
    <3> QED
      BY <3>3, <3>4
  <2>4. 1 \in Good
    <3>1. Reads(<<>>, 1 - 1)
      <4>1. Upto(0) = {}
        OBVIOUS
      <4>2. <<>> \in Seq(Tokens) /\ Len(<<>>) = 2 * 0
        OBVIOUS
      <4> QED
        BY <4>1, <4>2, NoPairs
    <3>2. 1 \in 1 .. n
      BY <1>1, <1>7
    <3>3. lines[1] \in Seq(Tokens)
      <4> DEFINE p == PathOrder[1]
      <4>1. p \in Paths /\ lines[1] = DiffLine(from, to, p)
        BY <1>1, <3>2
      <4>2. StatusOf(from, to, p) \in Tokens /\ p \in Tokens
        BY <4>1 DEF StatusOf
      <4> HIDE DEF Tokens, lines, p
      <4>3. <<>> \in Seq(Tokens) /\ <<StatusOf(from, to, p), p>> \in Seq(Tokens)
        BY <4>2
      <4> QED
        BY <4>1, <4>3, <1>3
    <3>4. <<>> \o lines[1] = lines[1] /\ f[1] = lines[1]
      BY <2>2, <3>2, <3>3, ConcatEmptySeq
    <3> HIDE DEF Reads, lines
    <3> QED
      BY <2>3, <3>1, <3>2, <3>4
  <2>5. ASSUME NEW k \in Nat, k >= 1, k < n, k \in Good PROVE k + 1 \in Good
    <3>1. k + 1 \in 1 .. n /\ k + 1 # 1 /\ (k + 1) - 1 = k
      BY <1>1, <2>5
    <3>2. Reads(f[k], (k + 1) - 1)
      BY <2>5, <3>1
    <3> HIDE DEF Reads, lines
    <3>3. f[k + 1] = f[k] \o lines[k + 1]
      BY <2>2, <3>1
    <3> QED
      BY <2>3, <3>1, <3>2, <3>3
  <2>6. n \in Good
    <3> HIDE DEF Good, n
    <3>1. \A k \in Nat : k >= 1 /\ k < n /\ k \in Good => k + 1 \in Good
      BY <2>5
    <3>2. \A k \in 1 .. n : k \in Good
      BY <1>1, <2>4, <3>1, UpTo
    <3> QED
      BY <1>1, <1>7, <3>2
  <2>7. Pairs(f[n]) = Upto(n)
    BY <2>6
  <2> QED
    BY <1>2, <1>5, <2>1, <2>7
<1> QED
  BY <1>1, <1>6, <1>7

-----------------------------------------------------------------------------
(* Files that the user leaves alone.                                       *)

(* A tree that has what the synced commit has, but for files in [user] and *)
(* edits.                                                                  *)
Follows(tree, synced) ==
  \A p \in Paths \ User : ~Edited(tree[p]) => tree[p] = synced[p]

(* No two files of upstream's history hold the same version, except at     *)
(* different times under one path, and a file still as forked was always   *)
(* there: so git finds no renames.                                         *)
OnePath ==
  \A old, new \in Recorded : \A p, q \in Paths :
    /\ old[p] # None /\ new[q] # None
    /\ old[p].version = new[q].version /\ old[p].version # 0
    => p = q
AsForked ==
  \A old \in Recorded : \A p \in Paths :
    upstream[p] # None /\ upstream[p].version = 0 => old[p] = upstream[p]
NotNewer ==
  \A old \in Recorded : \A p \in Paths :
    old[p] # None => old[p].version \in Nat /\ old[p].version <= commits

(* The state file only moves forward.                                      *)
Rank(commit) == IF commit = None THEN 0 ELSE commit.sha
Dated(commit) ==
  /\ Rank(commit) \in Nat /\ Rank(commit) <= commits
  /\ commit # None /\ commit.sha = commits => commit.tree = upstream
Forward ==
  /\ commits = 0 => upstream = ForkPoint
  /\ Dated(state)
  /\ \A pr \in prs :
       /\ Dated(pr.state) /\ Rank(pr.from) \in Nat /\ Rank(pr.from) < Rank(pr.state)
       /\ pr.from = state \/ Rank(pr.from) < Rank(state)
       /\ pr.state # state
  /\ \A pr, other \in prs : pr.state = other.state => pr = other

(* Since a pull request that can still be merged was opened, the user has  *)
(* edited main and merged no other.                                        *)
OnlyEditsSince ==
  \A pr \in prs : pr.from = state =>
    \A p \in Paths : head[p] = pr.base[p] \/ Edited(head[p])

TreesFollow ==
  /\ Follows(head, LastSynced)
  /\ \A pr \in prs : Follows(pr.tree, pr.state.tree)

History == Unedited /\ OnePath /\ AsForked /\ NotNewer
FollowInv ==
  "commit" \notin ForkMoves /\ "rename" \notin UpstreamMoves
  => History /\ Forward /\ OnlyEditsSince /\ TreesFollow

LEMMA HistoryStep ==
  ASSUME "commit" \notin ForkMoves, "rename" \notin UpstreamMoves, Sane, TypeOK, History,
         [Next]_vars
  PROVE  History'
<1>1. Unedited'
  BY UneditedStep DEF History
<1>2. CASE UpstreamNext
  <2>1. commits \in Nat /\ upstream \in Tree /\ upstream \in Recorded
    BY DEF TypeOK, Recorded
  <2>2. PICK p \in Paths, c \in {Fresh, None} :
          upstream' = [upstream EXCEPT ![p] = c] /\ commits' = commits + 1
    <3>1. PICK p \in Paths : UpstreamModifies(p) \/ UpstreamAdds(p) \/ UpstreamDeletes(p)
      BY <1>2 DEF UpstreamNext, UpstreamRenames
    <3> QED
      BY <3>1 DEF UpstreamModifies, UpstreamAdds, UpstreamDeletes, UpstreamCommit
  <2>3. Recorded' \subseteq Recorded \cup {upstream'}
    BY <1>2, RecordedGrows
  <2>4. upstream'[p] = c /\ \A q \in Paths : q # p => upstream'[q] = upstream[q]
    BY <2>1, <2>2 DEF Tree
  <2>5. c # None => c.version = commits + 1
    BY <2>2 DEF Fresh
  <2>6. NotNewer'
    <3>1. ASSUME NEW old \in Recorded, NEW q \in Paths, old[q] # None
          PROVE  old[q].version \in Nat /\ old[q].version <= commits + 1
      BY <3>1, <2>1 DEF History, NotNewer
    <3>2. ASSUME NEW q \in Paths, upstream'[q] # None
          PROVE  upstream'[q].version \in Nat /\ upstream'[q].version <= commits + 1
      BY <3>1, <3>2, <2>1, <2>4, <2>5
    <3> QED
      BY <3>1, <3>2, <2>2, <2>3 DEF NotNewer
  <2>7. AsForked'
    <3>1. ASSUME NEW old \in Recorded \cup {upstream'}, NEW q \in Paths,
                 upstream'[q] # None, upstream'[q].version = 0
          PROVE  old[q] = upstream'[q]
      <4>1. q # p
        BY <3>1, <2>1, <2>4, <2>5
      <4>2. upstream'[q] = upstream[q]
        BY <4>1, <2>4
      <4> QED
        BY <3>1, <4>2 DEF History, AsForked
    <3> QED
      BY <3>1, <2>3 DEF AsForked
  <2>8. OnePath'
    <3>1. ASSUME NEW old \in Recorded \cup {upstream'}, NEW q \in Paths, old[q] # None
          PROVE  \/ q = p /\ old[q].version = commits + 1
                 \/ /\ \E tree \in Recorded : tree[q] = old[q]
                    /\ old[q].version \in Nat /\ old[q].version <= commits
      <4>1. CASE old \in Recorded
        BY <3>1, <4>1 DEF History, NotNewer
      <4>2. CASE old = upstream' /\ q = p
        BY <3>1, <4>2, <2>4, <2>5
      <4>3. CASE old = upstream' /\ q # p
        BY <3>1, <4>3, <2>1, <2>4 DEF History, NotNewer
      <4> QED
        BY <4>1, <4>2, <4>3
    <3>2. ASSUME NEW old \in Recorded \cup {upstream'}, NEW new \in Recorded \cup {upstream'},
                 NEW q \in Paths, NEW r \in Paths, old[q] # None, new[r] # None,
                 old[q].version = new[r].version, old[q].version # 0
          PROVE  q = r
      <4>1. CASE old[q].version = commits + 1
        <5>1. \A n \in Nat : n <= commits => n # commits + 1
          BY <2>1
        <5>2. q = p
          BY <3>1, <3>2, <4>1, <5>1
        <5>3. r = p
          BY <3>1, <3>2, <4>1, <5>1
        <5> QED
          BY <5>2, <5>3
      <4>2. CASE old[q].version # commits + 1
        <5>1. PICK tree \in Recorded : tree[q] = old[q]
          BY <3>1, <3>2, <4>2
        <5>2. PICK other \in Recorded : other[r] = new[r]
          BY <3>1, <3>2, <4>2
        <5> QED
          BY <3>2, <5>1, <5>2 DEF History, OnePath
      <4> QED
        BY <4>1, <4>2
    <3> QED
      BY <3>2, <2>3 DEF OnePath
  <2> QED
    BY <1>1, <2>6, <2>7, <2>8 DEF History
<1>3. CASE Sync \/ UserNext \/ MergeSome \/ CloseSome \/ UNCHANGED vars
  <2>1. Recorded' \subseteq Recorded
    BY <1>3, RecordedStays
  <2>2. upstream' = upstream /\ commits' = commits
    BY <1>3 DEF Sync, UserNext, UserEdits, UserAdds, ForkCommit, InitRecordsHead, CommitsState,
                MergeSome, MergePr, CloseSome, ClosePr, vars
  <2> QED
    BY <1>1, <2>1, <2>2 DEF History, OnePath, AsForked, NotNewer
<1> QED
  BY <1>2, <1>3 DEF Next

(* What the entries of a run are, and that none is a rename.               *)
LEMMA RunReadsDiff ==
  ASSUME Sane, TypeOK, History
  PROVE  /\ Changed = {p \in Paths : LastSynced[p] # upstream[p]}
         /\ \A p \in Changed :
              /\ EntryOf(p).path = p
              /\ EntryOf(p).status = "D" <=> upstream[p] = None
<1>1. LastSynced \in Recorded /\ upstream \in Recorded
  BY DEF Recorded
<1>2. ASSUME NEW p \in Paths PROVE RenamedFrom(LastSynced, upstream, p) = {}
  <2> SUFFICES ASSUME NEW q \in RenamedFrom(LastSynced, upstream, p) PROVE FALSE
    OBVIOUS
  <2>1. /\ q \in Paths /\ LastSynced[q] # None /\ LastSynced[p] = None
        /\ upstream[p] = LastSynced[q]
    BY DEF RenamedFrom
  <2>2. upstream[p].version # 0
    BY <2>1, <1>1 DEF History, AsForked
  <2> QED
    BY <2>1, <2>2, <1>1 DEF History, OnePath
<1> DEFINE Differing == {p \in Paths : LastSynced[p] # upstream[p]}
<1>3. Entries = {EntryFor(LastSynced, upstream, p) : p \in Differing}
  BY <1>2, DiffIsRead DEF Entries, Sane
<1>4. \A p : LET e == EntryFor(LastSynced, upstream, p) IN
             e.path = p /\ (e.status = "D" <=> upstream[p] = None)
  BY DEF EntryFor, StatusOf
<1> HIDE DEF Differing
<1>5. Changed = Differing
  BY <1>3, <1>4 DEF Changed
<1>6. ASSUME NEW p \in Changed PROVE EntryOf(p) = EntryFor(LastSynced, upstream, p)
  <2>1. EntryOf(p) \in Entries /\ EntryOf(p).path = p
    BY DEF EntryOf, Changed
  <2>2. PICK q \in Differing : EntryOf(p) = EntryFor(LastSynced, upstream, q)
    BY <2>1, <1>3
  <2> QED
    BY <2>1, <2>2, <1>4
<1> QED
  BY <1>4, <1>5, <1>6 DEF Differing

(* A changed file that the user left alone becomes upstream's, or the user *)
(* has to resolve a conflict.                                              *)
LEMMA UntouchedIsUpstreams ==
  ASSUME Sane, TypeOK, NEW from \in Tree, NEW to \in Tree, NEW e, e.path \in Paths \ User,
         e.status = "D" <=> to[e.path] = None, from[e.path] # to[e.path],
         ~Edited(head[e.path]) => head[e.path] = from[e.path],
         ~Edited(from[e.path]), ~Edited(to[e.path]),
         ~Edited(Outcome(e, from, to).content)
  PROVE  Outcome(e, from, to).content = to[e.path]
<1> DEFINE p == e.path
           o == Outcome(e, from, to)
<1>1. /\ head[p] \in Content \cup {None} /\ from[p] \in Content \cup {None}
      /\ to[p] \in Content \cup {None}
  BY DEF TypeOK, Tree
<1>2. \A c : Keep(c).content = head[c] /\ Take(c).content = c
  BY DEF Keep, Take
<1>3. Classify(p, head[Toml]) \in {"merged", "tracked", "unmatched"}
  BY DEF Classify
<1>4. CASE to[p] = None
  <2>1. o = Deletion(p, from)
    BY <1>3, <1>4 DEF Outcome
  <2>2. CASE o = Take(None)
    BY <2>2, <1>2, <1>4
  <2>3. CASE o = Keep(p)
    <3>1. head[p] = from[p]
      BY <2>3, <1>2
    <3>2. head[p] # None
      BY <3>1, <1>4
    <3> QED
      BY <2>1, <3>1, <3>2, <1>2, <1>4 DEF Deletion
  <2> QED
    BY <2>1, <2>2, <2>3 DEF Deletion
<1>5. CASE to[p] # None /\ Classify(p, head[Toml]) = "merged"
  <2>1. o = MergeFile(p, from, to)
    BY <1>5 DEF Outcome
  <2>2. CASE head[p] = None \/ from[p] = None
    BY <2>1, <2>2, <1>2, <1>5 DEF MergeFile
  <2>3. CASE head[p] # None /\ from[p] # None
    <3>1. o.content = ThreeWay(head[p], from[p], to[p])
      BY <2>1, <2>3, <1>5 DEF MergeFile, Take
    <3>2. /\ head[p] \in Content /\ from[p] \in Content /\ to[p] \in Content
          /\ ~from[p].edited /\ ~to[p].edited
      BY <2>3, <1>1, <1>5 DEF Edited
    <3>3. ThreeWay(head[p], from[p], to[p]) \in Content
      BY <3>2 DEF ThreeWay, Content
    <3>4. ~ThreeWay(head[p], from[p], to[p]).edited
      BY <3>1, <3>3 DEF Edited, Sane
    <3>5. ThreeWay(head[p], from[p], to[p]).version = to[p].version
      BY DEF ThreeWay
    <3>6. \A c, d \in Content : c.version = d.version /\ ~c.edited /\ ~d.edited => c = d
      BY DEF Content
    <3> QED
      BY <3>1, <3>2, <3>3, <3>4, <3>5, <3>6
  <2> QED
    BY <2>2, <2>3
<1>6. CASE to[p] # None /\ Classify(p, head[Toml]) \in {"tracked", "unmatched"}
  <2>1. o = [Take(to[p]) EXCEPT !.throws = to[p] = None]
    BY <1>6 DEF Outcome
  <2> QED
    BY <2>1 DEF Take
<1> QED
  BY <1>3, <1>4, <1>5, <1>6

LEMMA SyncFollows ==
  ASSUME Sane, TypeOK, History, TreesFollow,
         NEW tree \in Tree, Leaves(tree)
  PROVE  Follows(tree, upstream)
<1> SUFFICES ASSUME NEW p \in Paths \ User, ~Edited(tree[p]) PROVE tree[p] = upstream[p]
  BY DEF Follows
<1>1. ~Edited(head[p]) => head[p] = LastSynced[p]
  BY DEF TreesFollow, Follows
<1>2. CASE p \notin Changed
  <2>1. LastSynced[p] = upstream[p]
    BY <1>2, RunReadsDiff
  <2> QED
    BY <2>1, <1>1, <1>2 DEF Leaves
<1>3. CASE p \in Changed
  <2>1. /\ LastSynced[p] # upstream[p] /\ EntryOf(p).path = p
        /\ EntryOf(p).status = "D" <=> upstream[p] = None
    BY <1>3, RunReadsDiff
  <2>2. ~Edited(LastSynced[p]) /\ ~Edited(upstream[p])
    BY DEF History, Unedited, Recorded
  <2>3. tree[p] = ResultAt(p).content
    BY <1>3 DEF Leaves, Edited, Sane
  <2> QED
    BY <2>1, <2>2, <2>3, <1>1, LastSyncedIsTree, UntouchedIsUpstreams DEF ResultAt, TypeOK
<1> QED
  BY <1>2, <1>3

(* A commit of upstream is later than all that were seen.                  *)
LEMMA UpstreamKeepsFollow ==
  ASSUME Sane, TypeOK, UpstreamNext, Forward, OnlyEditsSince, TreesFollow
  PROVE  Forward' /\ OnlyEditsSince' /\ TreesFollow'
<1>1. /\ head' = head /\ state' = state /\ prs' = prs
      /\ commits' = commits + 1 /\ commits \in Nat
  BY DEF UpstreamNext, UpstreamModifies, UpstreamAdds, UpstreamDeletes, UpstreamRenames,
         UpstreamCommit, TypeOK
<1>2. ASSUME NEW c, Dated(c)
      PROVE  /\ Rank(c) \in Nat /\ Rank(c) <= commits + 1
             /\ c # None => c.sha # commits + 1
  BY <1>1, <1>2 DEF Dated, Rank
<1>3. ASSUME NEW c, Dated(c)
      PROVE  /\ Rank(c) \in Nat /\ Rank(c) <= commits'
             /\ c # None /\ c.sha = commits' => c.tree = upstream'
  BY <1>1, <1>2, <1>3
<1>4. Dated(state)' /\ \A pr \in prs : Dated(pr.state)'
  BY <1>1, <1>3 DEF Forward, Dated, Rank
<1>5. commits' # 0
  BY <1>1
<1>6. Forward'
  BY <1>1, <1>4, <1>5 DEF Forward, Rank
<1> QED
  BY <1>1, <1>6 DEF OnlyEditsSince, TreesFollow, Follows, LastSynced, Edited

LEMMA UserKeepsFollow ==
  ASSUME "commit" \notin ForkMoves, Sane, TypeOK, UserNext, Forward, OnlyEditsSince, TreesFollow
  PROVE  Forward' /\ OnlyEditsSince' /\ TreesFollow'
<1>1. upstream' = upstream /\ state' = state /\ prs' = prs /\ commits' = commits
  BY DEF UserNext, UserEdits, UserAdds, ForkCommit, InitRecordsHead, CommitsState
<1>2. ASSUME NEW p \in Paths PROVE head'[p] = head[p] \/ Edited(head'[p])
  <2>1. SUFFICES ASSUME NEW q \in Paths, UserEdits(q) \/ UserAdds(q)
                 PROVE  head'[p] = head[p] \/ Edited(head'[p])
    BY DEF UserNext, InitRecordsHead, CommitsState
  <2>2. head \in Tree
    BY DEF TypeOK
  <2>3. CASE UserEdits(q)
    <3>1. head' = [head EXCEPT ![q] = [head[q] EXCEPT !.edited = TRUE]]
      BY <2>3 DEF UserEdits, ForkCommit
    <3>2. head[q] \in Content
      BY <2>2, <2>3 DEF UserEdits, Tree
    <3>3. Edited([head[q] EXCEPT !.edited = TRUE])
      <4>1. /\ [head[q] EXCEPT !.edited = TRUE] \in Content
            /\ [head[q] EXCEPT !.edited = TRUE].edited
        BY <3>2 DEF Content
      <4> QED
        BY <4>1 DEF Edited, Sane
    <3> QED
      BY <2>2, <3>1, <3>3 DEF Tree
  <2>4. CASE UserAdds(q)
    <3>1. head' = [head EXCEPT ![q] = [version |-> 0, edited |-> TRUE]]
      BY <2>4 DEF UserAdds, ForkCommit
    <3>2. Edited([version |-> 0, edited |-> TRUE])
      <4>1. [version |-> 0, edited |-> TRUE] \in Content
        BY DEF Content, Sane
      <4> QED
        BY <4>1 DEF Edited, Sane
    <3> QED
      BY <2>2, <3>1, <3>2 DEF Tree
  <2> QED
    BY <2>1, <2>3, <2>4
<1>3. Forward'
  BY <1>1 DEF Forward, Dated, Rank
<1>4. OnlyEditsSince'
  BY <1>1, <1>2 DEF OnlyEditsSince, Edited
<1>5. TreesFollow'
  BY <1>1, <1>2 DEF TreesFollow, Follows, LastSynced, Edited
<1> QED
  BY <1>3, <1>4, <1>5

LEMMA SyncKeepsFollow ==
  ASSUME Sane, TypeOK, Sync, History, Forward, OnlyEditsSince, TreesFollow
  PROVE  Forward' /\ OnlyEditsSince' /\ TreesFollow'
<1>1. PICK new \in Pr :
        /\ prs' = {pr \in prs : pr.state # Newest} \cup {new}
        /\ new.base = head /\ new.from = state /\ new.state = Newest /\ Leaves(new.tree)
  BY SyncOpens
<1>2. UNCHANGED <<upstream, head, state, commits>>
  BY DEF Sync
<1>3. /\ Newest # None /\ Newest.sha = commits /\ Newest.tree = upstream
      /\ commits \in Nat /\ new.tree \in Tree
  <2>1. Newest \in Commit
    BY DEF Newest, Commit, TypeOK
  <2> QED
    BY <2>1 DEF Newest, Sane, TypeOK, Pr
<1>4. Rank(state) < commits
  <2>1. LastSynced # upstream
    <3>1. Changed # {}
      BY SyncOpens DEF Changed
    <3> QED
      BY <3>1, RunReadsDiff
  <2>2. CASE state = None
    BY <2>1, <2>2, <1>3 DEF Rank, LastSynced, Forward
  <2>3. CASE state # None
    BY <2>1, <2>3, <1>3 DEF Rank, LastSynced, Forward, Dated
  <2> QED
    BY <2>2, <2>3
<1>5. Forward'
  <2>1. Dated(Newest) /\ Rank(Newest) = commits
    BY <1>3 DEF Dated, Rank
  <2>2. Newest # state
    BY <1>3, <1>4, <2>1
  <2>3. ASSUME NEW pr \in prs'
        PROVE  /\ Dated(pr.state) /\ Rank(pr.from) \in Nat /\ Rank(pr.from) < Rank(pr.state)
               /\ pr.from = state \/ Rank(pr.from) < Rank(state)
               /\ pr.state # state
    BY <1>1, <1>4, <2>1, <2>2 DEF Forward, Dated
  <2>4. \A pr, other \in prs' : pr.state = other.state => pr = other
    BY <1>1 DEF Forward
  <2> QED
    BY <1>2, <2>3, <2>4 DEF Forward, Dated, Rank
<1>6. OnlyEditsSince'
  BY <1>1, <1>2 DEF OnlyEditsSince, Edited
<1>7. TreesFollow'
  <2>1. Follows(new.tree, upstream)
    BY <1>1, <1>3, SyncFollows
  <2>2. \A pr \in prs' : Follows(pr.tree, pr.state.tree)
    BY <1>1, <1>3, <2>1 DEF TreesFollow
  <2> QED
    BY <1>2, <2>2 DEF TreesFollow, Follows, LastSynced, Edited
<1> QED
  BY <1>5, <1>6, <1>7

(* A pull request that git merges starts at the state file.                *)
LEMMA MergeKeepsFollow ==
  ASSUME Sane, TypeOK, NEW pr \in prs, MergePr(pr), Forward, OnlyEditsSince, TreesFollow
  PROVE  Forward' /\ OnlyEditsSince' /\ TreesFollow'
<1>1. /\ Dated(pr.state) /\ Rank(pr.from) \in Nat /\ Rank(pr.from) < Rank(pr.state)
      /\ pr.state # state
  BY DEF Forward
<1>2. pr.from # pr.state
  BY <1>1 DEF Dated
<1>3. pr.from = state
  BY <1>1, <1>2, CleanIsTwo DEF MergePr, Mergeable
<1>4. /\ state' = pr.state /\ prs' = prs \ {pr}
      /\ upstream' = upstream /\ commits' = commits
  BY <1>2 DEF MergePr
<1>5. ASSUME NEW other \in prs' PROVE Rank(other.from) < Rank(pr.state)
  BY <1>1, <1>3, <1>4, <1>5 DEF Forward, Dated
<1>6. Forward'
  <2>1. ASSUME NEW other \in prs'
        PROVE  /\ Dated(other.state) /\ Rank(other.from) \in Nat
               /\ Rank(other.from) < Rank(other.state)
               /\ Rank(other.from) < Rank(pr.state) /\ other.state # pr.state
    BY <1>4, <1>5 DEF Forward
  <2>2. \A one, other \in prs' : one.state = other.state => one = other
    BY <1>4 DEF Forward
  <2> QED
    BY <1>1, <1>4, <2>1, <2>2 DEF Forward, Dated, Rank
<1>7. OnlyEditsSince'
  <2>1. \A other \in prs' : other.from # pr.state
    BY <1>1, <1>5 DEF Dated
  <2> QED
    BY <1>4, <2>1 DEF OnlyEditsSince
<1>8. TreesFollow'
  <2>1. pr.state # None /\ LastSynced' = pr.state.tree
    BY <1>4 DEF LastSynced, TypeOK, Pr, Sane
  <2>2. ASSUME NEW p \in Paths \ User, ~Edited(head'[p]) PROVE head'[p] = pr.state.tree[p]
    <3>1. head'[p] = IF pr.tree[p] = pr.base[p] THEN head[p] ELSE pr.tree[p]
      BY DEF MergePr
    <3>2. head'[p] = pr.tree[p]
      BY <3>1, <2>2, <1>3 DEF OnlyEditsSince
    <3> QED
      BY <3>2, <2>2 DEF TreesFollow, Follows
  <2> QED
    BY <1>4, <2>1, <2>2 DEF TreesFollow, Follows, Edited
<1> QED
  BY <1>6, <1>7, <1>8

LEMMA FollowStep ==
  ASSUME Sane, TypeOK, FollowInv, [Next]_vars PROVE FollowInv'
<1> SUFFICES ASSUME "commit" \notin ForkMoves, "rename" \notin UpstreamMoves
             PROVE  (History /\ Forward /\ OnlyEditsSince /\ TreesFollow)'
  BY DEF FollowInv
<1>1. History /\ Forward /\ OnlyEditsSince /\ TreesFollow
  BY DEF FollowInv
<1>2. History'
  BY <1>1, HistoryStep
<1>3. CASE UpstreamNext
  BY <1>1, <1>2, <1>3, UpstreamKeepsFollow
<1>4. CASE UserNext
  BY <1>1, <1>2, <1>4, UserKeepsFollow
<1>5. CASE Sync
  BY <1>1, <1>2, <1>5, SyncKeepsFollow
<1>6. CASE MergeSome
  BY <1>1, <1>2, <1>6, MergeKeepsFollow DEF MergeSome
<1>7. CASE CloseSome \/ UNCHANGED vars
  <2>1. UNCHANGED <<upstream, head, state, commits>> /\ prs' \subseteq prs
    BY <1>7 DEF CloseSome, ClosePr, vars
  <2> QED
    BY <1>1, <1>2, <2>1 DEF Forward, Dated, Rank, OnlyEditsSince, TreesFollow, Follows,
                            LastSynced, Edited
<1> QED
  BY <1>3, <1>4, <1>5, <1>6, <1>7 DEF Next

(* Without renames, and unless init's state file is committed, a file      *)
(* outside [user] that the user has not edited is what upstream had at the *)
(* commit the state file names:                                            *)
(* for any files and lists, however runs, edits, merges and refused pull   *)
(* requests follow each other, and whatever the diff of a run lists.       *)
THEOREM UntouchedFilesAreUpstreams == ASSUME Sane PROVE Spec => []UntouchedFilesFollow
<1>1. Init => TypeOK /\ FollowInv
  <2> SUFFICES ASSUME Init PROVE FollowInv
    BY SyncInitTypes
  <2>1. Recorded = {ForkPoint} /\ Unedited
    BY ForkPointIsUnedited
  <2>2. \A p \in Paths : ForkPoint[p] # None => ForkPoint[p].version = 0
    BY DEF ForkPoint
  <2>3. History
    BY <2>1, <2>2 DEF Init, History, OnePath, AsForked, NotNewer
  <2>4. Forward /\ OnlyEditsSince /\ TreesFollow
    BY DEF Init, Forward, Dated, Rank, OnlyEditsSince, TreesFollow, Follows, LastSynced
  <2> QED
    BY <2>3, <2>4 DEF FollowInv
<1>2. TypeOK /\ FollowInv /\ [Next]_vars => (TypeOK /\ FollowInv)'
  BY TypeStep, FollowStep
<1>3. FollowInv => UntouchedFilesFollow
  BY DEF FollowInv, TreesFollow, Follows, LastSynced, UntouchedFilesFollow, Classify, Edited
<1> QED
  BY <1>1, <1>2, <1>3, PTL DEF Spec
=============================================================================
