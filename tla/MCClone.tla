------------------------------ MODULE MCClone -------------------------------
(***************************************************************************)
(* The scripts that own a clone, each on a small instance, for TLC: `npm   *)
(* run init`, `npm run init -- --post-bootstrap` and the upstream sync.    *)
(* They share no variable, so interleaving them shows nothing that each by *)
(* itself does not: script says which one a behaviour is about, the first  *)
(* two stay as they start when it is about another, and the variables of   *)
(* the sync say nothing when it is about none.                             *)
(*                                                                         *)
(* The sync has three instances.  In "sync" upstream renames nothing and   *)
(* the user adds files; in "renames" upstream renames files and the user   *)
(* adds none; in "weekly" the fork has two files, the user runs init and   *)
(* may commit its state file, and the workflow runs every week.  Each fork *)
(* may share upstream's history or not.                                    *)
(***************************************************************************)
EXTENDS InitClone, PostBootstrap

VARIABLES script, upstream, head, synced, written, related, prs, commits, edits

syncVars == <<upstream, head, synced, written, related, prs, commits, edits>>

-----------------------------------------------------------------------------
(* alice's login may be taken for a word, and 007's may not; at the        *)
(* prompts a blank follows alice's.  The flags fit a provider, or do not.  *)

MCTrimmed ==
  [x \in Regions \cup Names \cup Owners \cup Domains |-> IF x = "alice " THEN "alice" ELSE x]
MCAccounts == {<<"region", "alice ", "alice">>, <<"region", "alice", "007">>}
GithubFlags ==
  [region : {None}, owner : {"alice"}, repo : {"alice"}, provider : {None},
   strategy : {None, "byo"}, zone : {None, "zone"}, domain : {None, "pods.zone"},
   users : {None, {"alice", "007"}}, org : {None, "org"},
   tenant : {None}, groups : {None}, ownerOnly : BOOLEAN]
OtherFlags ==
  [region : {"region"}, owner : {"alice"}, repo : {"alice"},
   provider : {"entra-id", "oidc"}, strategy : {None, "alb-default"},
   zone : {"zone", "short", Blank}, domain : {"pods.zone"}, users : {None}, org : {None},
   tenant : {None, "tenant", Blank}, groups : {{"group"}}, ownerOnly : {FALSE}]
MCFlagSets == GithubFlags \cup OtherFlags
MCUserLists == {{}, {Blank}, {"alice", "007", Blank}}

(* A file of each class, one that both [user] and [tracked] match, and one *)
(* that nothing matches.                                                   *)
Sync == INSTANCE SyncUpstream WITH
  PathOrder <- <<"toml", "wf", "readme", "lib", "tool">>,
  Toml <- "toml", User <- {"readme", "local"}, Merged <- {"wf", "wfnew"},
  Tracked <- {"toml", "lib", "local"}, Reclassified <- {"lib"},
  Forked <- {"toml", "readme", "wf", "lib"}, MaxCommits <- 2, MaxEdits <- 2,
  UpstreamMoves <- {"modify", "add", "delete"}, ForkMoves <- {"edit", "add"}, state <- synced
Renames == INSTANCE SyncUpstream WITH
  PathOrder <- <<"toml", "wf", "readme", "lib", "local", "tool", "wfnew">>,
  Toml <- "toml", User <- {"readme", "local"}, Merged <- {"wf", "wfnew"},
  Tracked <- {"toml", "lib", "local"}, Reclassified <- {"lib"},
  Forked <- {"toml", "readme", "wf", "lib", "local"}, MaxCommits <- 2, MaxEdits <- 1,
  UpstreamMoves <- {"modify", "delete", "rename"}, ForkMoves <- {"edit"},
  state <- synced
Weekly == INSTANCE SyncUpstream WITH
  PathOrder <- <<"toml", "wf">>,
  Toml <- "toml", User <- {}, Merged <- {"wf"}, Tracked <- {"toml"},
  Reclassified <- {}, Forked <- {"toml", "wf"}, MaxCommits <- 2, MaxEdits <- 1,
  UpstreamMoves <- {"modify", "add", "delete"}, ForkMoves <- {"edit", "init", "commit"},
  state <- synced

-----------------------------------------------------------------------------

NoSync ==
  /\ upstream = None /\ head = None /\ synced = None /\ prs = None
  /\ written = None /\ related = FALSE
  /\ commits = None /\ edits = None

CloneInit ==
  /\ Init /\ BootInit
  /\ \/ script \in {"init", "bootstrap"} /\ NoSync
     \/ script = "sync" /\ Sync!Init
     \/ script = "renames" /\ Renames!Init
     \/ script = "weekly" /\ Weekly!Init

CloneNext ==
  \/ script = "init" /\ Next /\ UNCHANGED <<script, bootVars, syncVars>>
  \/ script = "bootstrap" /\ BootNext /\ UNCHANGED <<script, vars, syncVars>>
  \/ /\ \/ script = "sync" /\ Sync!Next
        \/ script = "renames" /\ Renames!Next
        \/ script = "weekly" /\ Weekly!Next
     /\ UNCHANGED <<script, vars, bootVars>>

cloneVars == <<script, vars, bootVars, syncVars>>

(* The workflow runs every week, and the user gets round to the pull       *)
(* request of the newest upstream, whenever git can merge it.              *)
InWeekly(A) == script = "weekly" /\ A /\ UNCHANGED <<script, vars, bootVars>>
CloneSpec ==
  /\ CloneInit /\ [][CloneNext]_cloneVars
  /\ WF_cloneVars(InWeekly(Weekly!Sync))
  /\ SF_cloneVars(InWeekly(\E pr \in prs : pr.state = Weekly!Newest /\ Weekly!MergePr(pr)))

-----------------------------------------------------------------------------

(* The variables of each script have their types.                          *)
CloneTypeOK ==
  /\ TypeOK /\ BootTypeOK
  /\ script = "sync" => Sync!TypeOK
  /\ script = "renames" => Renames!TypeOK
  /\ script = "weekly" => Weekly!TypeOK

(* Unless upstream renames files or main names init's commit of the fork,  *)
(* files the user has not edited are those of upstream's synced commit.    *)
UntouchedFilesFollow == script = "sync" => Sync!UntouchedFilesFollow
(* A file the user made or modified is never removed by a sync.            *)
ModifiedFilesAreKept ==
  [][/\ script = "sync" => Sync!KeptByMerge
     /\ script = "renames" => Renames!KeptByMerge]_syncVars
(* A sync loses no edit to a [user] or [merged] file.                      *)
EditsSurviveSync ==
  [][/\ script = "sync" => Sync!SurvivesMerge
     /\ script = "renames" => Renames!SurvivesMerge
     /\ script = "weekly" => Weekly!SurvivesMerge]_syncVars
(* The fork catches up with upstream, renames and a template apart.        *)
SyncCatchesUp == script = "weekly" => Weekly!SyncCatchesUp
=============================================================================
