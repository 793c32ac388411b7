---------------------------- MODULE GithubSource ----------------------------
(***************************************************************************)
(* createDraftChangeRequest of the GitHub source provider                   *)
(* (packages/provider-github/src/github-source-provider.ts): the reads and  *)
(* writes by which a publication puts the approved commit on a working      *)
(* branch and opens a draft pull request, each a call that may fail and     *)
(* between which other publications work on the same branch.  GitHub is     *)
(* external: it refuses a branch or a pull request that already exists.     *)
(***************************************************************************)
CONSTANTS Branches,   \* working branches
          Commits,    \* approved commits
          Publishers, \* publications, one change request each
          NoCommit

ASSUME NoCommitIsNone == NoCommit \notin Commits

VARIABLES archived, \* the repository was archived
          branch,   \* GitHub: the commit of each working branch
          pull,     \* GitHub: the open pull request of a branch, draft or ready
          request   \* what each publication is doing, and the pull request it saw

sourceVars == <<archived, branch, pull, request>>

NoRequest == [at |-> "idle", branch |-> "none", commit |-> NoCommit,
              head |-> NoCommit, draft |-> FALSE]

SourceTypeOK ==
  /\ archived \in BOOLEAN
  /\ branch \in [Branches -> Commits \cup {NoCommit}]
  /\ pull \in [Branches -> {"none", "draft", "ready"}]
  /\ request \in [Publishers ->
       [at : {"idle", "repository", "branch", "push", "find", "open", "check", "created", "failed"},
        branch : Branches \cup {"none"}, commit : Commits \cup {NoCommit},
        head : Commits \cup {NoCommit}, draft : BOOLEAN]]

SourceInit ==
  /\ archived = FALSE
  /\ branch = [b \in Branches |-> NoCommit]
  /\ pull = [b \in Branches |-> "none"]
  /\ request = [p \in Publishers |-> NoRequest]

-----------------------------------------------------------------------------
Step(p, at) == request' = [request EXCEPT ![p].at = at]

\* The pull request of the branch, as GitHub answers it.
See(p, at) ==
  LET b == request[p].branch
  IN  request' = [request EXCEPT ![p].at = at, ![p].head = branch[b],
                                 ![p].draft = pull[b] # "ready"]

\* The publication enters createDraftChangeRequest.
Ask(p, b, c) ==
  request' = [request EXCEPT ![p] =
    [at |-> "repository", branch |-> b, commit |-> c, head |-> NoCommit, draft |-> FALSE]]

\* The repository has kept its identity and is not archived, and GitHub
\* resolves the exact commit.
CheckRepository(p) ==
  /\ request[p].at = "repository" /\ ~archived
  /\ Step(p, "branch")
  /\ UNCHANGED <<archived, branch, pull>>

\* An existing branch has to be at the approved commit.
ReadBranch(p) ==
  LET at == branch[request[p].branch]
  IN  /\ request[p].at = "branch"
      /\ Step(p, IF at = NoCommit THEN "push"
                 ELSE IF at = request[p].commit THEN "find" ELSE "failed")
      /\ UNCHANGED <<archived, branch, pull>>

CreateBranch(p) ==
  /\ request[p].at = "push" /\ branch[request[p].branch] = NoCommit
  /\ branch' = [branch EXCEPT ![request[p].branch] = request[p].commit]
  /\ Step(p, "find")
  /\ UNCHANGED <<archived, pull>>

FindPullRequest(p) ==
  /\ request[p].at = "find"
  /\ IF pull[request[p].branch] = "none" THEN Step(p, "open") ELSE See(p, "check")
  /\ UNCHANGED <<archived, branch, pull>>

OpenPullRequest(p) ==
  /\ request[p].at = "open" /\ pull[request[p].branch] = "none"
  /\ pull' = [pull EXCEPT ![request[p].branch] = "draft"]
  /\ See(p, "check")
  /\ UNCHANGED <<archived, branch>>

\* The change request that was seen is a draft at exactly the approved commit.
AtSomeHead(p) == request[p].draft
AtApprovedHead(p) == request[p].draft /\ request[p].head = request[p].commit

CheckPullRequest(p) ==
  /\ request[p].at = "check"
  /\ Step(p, IF AtApprovedHead(p) THEN "created" ELSE "failed")
  /\ UNCHANGED <<archived, branch, pull>>

\* The repository was archived, or GitHub refuses what exists already.
SourceRefuses(p) ==
  LET b == request[p].branch
  IN  /\ \/ request[p].at = "repository" /\ archived
         \/ request[p].at = "push" /\ branch[b] # NoCommit
         \/ request[p].at = "open" /\ pull[b] # "none"
      /\ Step(p, "failed")
      /\ UNCHANGED <<archived, branch, pull>>

\* A call of GitHub fails, and a write may have taken effect all the same.
SourceFails(p) ==
  LET b == request[p].branch
  IN  /\ request[p].at \in {"repository", "branch", "push", "find", "open"}
      /\ Step(p, "failed")
      /\ \/ UNCHANGED <<branch, pull>>
         \/ /\ request[p].at = "push" /\ branch[b] = NoCommit
            /\ branch' = [branch EXCEPT ![b] = request[p].commit]
            /\ UNCHANGED pull
         \/ /\ request[p].at = "open" /\ pull[b] = "none"
            /\ pull' = [pull EXCEPT ![b] = "draft"]
            /\ UNCHANGED branch
      /\ UNCHANGED archived

SourceStep(p) ==
  \/ CheckRepository(p) \/ ReadBranch(p) \/ CreateBranch(p) \/ FindPullRequest(p)
  \/ OpenPullRequest(p) \/ CheckPullRequest(p) \/ SourceRefuses(p)

\* Developers push to a working branch, open its pull request or change its
\* draft status, or archive the repository.
Push(b) ==
  /\ \E c \in Commits \ {branch[b]} : branch' = [branch EXCEPT ![b] = c]
  /\ UNCHANGED <<archived, pull, request>>

OpenOrMark(b) ==
  /\ branch[b] # NoCommit
  /\ \E status \in {"draft", "ready"} \ {pull[b]} : pull' = [pull EXCEPT ![b] = status]
  /\ UNCHANGED <<archived, branch, request>>

Archive ==
  /\ archived' = TRUE
  /\ UNCHANGED <<branch, pull, request>>
=============================================================================
