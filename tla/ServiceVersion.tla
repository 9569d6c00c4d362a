--------------------------- MODULE ServiceVersion ---------------------------
(***************************************************************************)
(* Which release the process reports when the application names none: from *)
(* the environment, from the git checkout it runs in, from the platform's  *)
(* revision name.  The checkout is read file by file while git may commit  *)
(* to the branch or pack its references.                                   *)
(*                                                                         *)
(* A version is where it differs from others: [head, tail], with `long`    *)
(* for one past MAX_SERVICE_VERSION_LENGTH and `hex` for a commit id.      *)
(* A commit is a number; 0 is a file that is missing or holds none.        *)
(***************************************************************************)
EXTENDS Naturals, Sequences, FiniteSets

CONSTANTS
    Places,       \* starting points: the sequence of directories up to the root
    Checkouts,    \* what .git is in a directory: [dir -> kind]
    EnvVersions, Revisions,
    MaxCommits    \* bound: commits git makes meanwhile

\* The versions that are the first of some sequence.
Named(sequences) == {s[1] : s \in sequences \ {<<>>}}

\* A version is its head and tail, a commit id already its head; a revision is
\* its end once it is long.
ASSUME VersionsAssumption ==
  /\ \A places \in Places, checkout \in Checkouts : places \in Seq(Seq(DOMAIN checkout))
  /\ \A v, w \in Named(EnvVersions) :
       v.head = w.head /\ (v.tail = w.tail \/ (v.long /\ v.hex)) => v = w
  /\ \A v, w \in Named(Revisions) : v.tail = w.tail /\ (v.head = w.head \/ v.long) => v = w
  /\ MaxCommits \in Nat

VARIABLES
    env,         \* the version variables that are set, in the order trusted
    revision,
    searchFrom,  \* the places to look, as sequences of directories
    dotGit,      \* .git of each directory
    worktree,    \* the inner repository is a worktree: its branches are elsewhere
    files,       \* HEAD, the loose references and packed-refs of a repository
    git,         \* what git is in the middle of
    commits,
    reading,     \* the step of inferServiceVersion
    repo,        \* the repository being read
    inferred,    \* its result
    heads        \* what HEAD stood for while it was being read
versionVars == <<env, revision, searchFrom, dotGit, worktree, files, git, commits, reading, repo,
                 inferred, heads>>

None == [source |-> "none", head |-> 0, tail |-> 0]
Repos == {"inner", "outer"}

\* What HEAD stands for, to git.
HeadOf(r) ==
  LET f == files[r]
  IN IF f.detached # 0 THEN f.detached
     ELSE IF f.own # 0 THEN f.own ELSE IF f.shared # 0 THEN f.shared ELSE f.packed

-----------------------------------------------------------------------------
\* A commit keeps its head; anything else its head and a hash of the whole.
fitServiceVersion(v) == [head |-> v.head, tail |-> IF v.long /\ v.hex THEN 0 ELSE v.tail]
\* A revision keeps its end.
fitRevision(v) == [head |-> IF v.long THEN 0 ELSE v.head, tail |-> v.tail]
Result(source, v) == [source |-> source, head |-> v.head, tail |-> v.tail]
CommitVersion(c) == [head |-> c, tail |-> 0, long |-> FALSE, hex |-> TRUE]

\* A directory, or a file that points to one; one that does not is passed by.
resolveGitDir(path) == {i \in DOMAIN path : dotGit[path[i]] \in Repos}

VersionInit ==
  /\ env \in EnvVersions /\ revision \in Revisions
  /\ searchFrom \in Places /\ dotGit \in Checkouts /\ worktree \in BOOLEAN
  /\ files \in [Repos -> {[detached |-> 0, own |-> 0, shared |-> 0, packed |-> 0],
                          [detached |-> 1, own |-> 0, shared |-> 0, packed |-> 0],
                          [detached |-> 0, own |-> 0, shared |-> 0, packed |-> 1]}
                         \cup {[detached |-> 0, own |-> IF worktree THEN 0 ELSE 2,
                                shared |-> IF worktree THEN 2 ELSE 0, packed |-> 1]}]
  /\ git = "idle" /\ commits = 0
  /\ reading = "env" /\ repo = "none" /\ inferred = None /\ heads = {}

placeVars == <<env, revision, searchFrom, dotGit, worktree>>
Reads == UNCHANGED <<placeVars, files, git, commits>>

\* The environment, as trimmed: the first variable that is set wins.
envRead ==
  /\ reading = "env" /\ Reads /\ UNCHANGED <<repo, heads>>
  /\ IF env # <<>>
     THEN inferred' = Result("env", fitServiceVersion(env[1])) /\ reading' = "done"
     ELSE reading' = "walk" /\ UNCHANGED inferred

\* readCheckoutHead(): up from the place until a .git settles it.
readCheckoutHead ==
  /\ reading = "walk" /\ UNCHANGED <<env, revision, dotGit, worktree, files, git, commits, inferred>>
  /\ IF searchFrom = <<>> THEN reading' = "revision" /\ UNCHANGED <<searchFrom, repo, heads>>
     ELSE LET path == searchFrom[1]
              found == resolveGitDir(path)
          IN /\ searchFrom' = Tail(searchFrom)
             /\ IF found = {} THEN UNCHANGED <<reading, repo, heads>>
                ELSE LET r == dotGit[path[CHOOSE i \in found : \A j \in found : i <= j]]
                     IN repo' = r /\ reading' = "head" /\ heads' = {HeadOf(r)}

\* The commit is the release; without one, the next place is searched.
settle(commit) ==
  /\ repo' = "none" /\ heads' = heads
  /\ IF commit = 0 THEN reading' = "walk" /\ UNCHANGED inferred
     ELSE inferred' = Result("git", fitServiceVersion(CommitVersion(commit))) /\ reading' = "done"
goOn(step) == reading' = step /\ UNCHANGED <<repo, heads, inferred>>

\* readHeadCommit(): HEAD, the loose reference here and in commondir, packed-refs.
headRead ==
  /\ reading = "head" /\ Reads
  /\ IF files[repo].detached # 0 THEN settle(files[repo].detached) ELSE goOn("loose")
looseRead ==
  /\ reading = "loose" /\ Reads
  /\ IF files[repo].own # 0 THEN settle(files[repo].own)
     ELSE IF worktree THEN goOn("shared") ELSE goOn("packed")
sharedRead ==
  /\ reading = "shared" /\ Reads
  /\ IF files[repo].shared # 0 THEN settle(files[repo].shared) ELSE goOn("packed")
packedRead == reading = "packed" /\ Reads /\ settle(files[repo].packed)

\* Faulty: the packed references are read before the loose ones.
readHeadCommit_packedFirst ==
  \/ headRead \/ sharedRead \/ packedRead
  \/ /\ reading = "loose" /\ Reads
     /\ IF files[repo].packed # 0 THEN settle(files[repo].packed)
        ELSE IF files[repo].own # 0 THEN settle(files[repo].own) ELSE goOn("shared")
readHeadCommit == headRead \/ looseRead \/ sharedRead \/ packedRead

revisionRead ==
  /\ reading = "revision" /\ Reads /\ reading' = "done" /\ UNCHANGED <<repo, heads>>
  /\ inferred' = IF revision = <<>> THEN None ELSE Result("revision", fitRevision(revision[1]))

\* git, in another process: a commit to the branch, and a packing of it, which
\* writes packed-refs before it prunes the loose reference.
Meanwhile == reading # "done" /\ UNCHANGED <<placeVars, reading, repo, inferred>>
commit_ ==
  /\ Meanwhile /\ git = "idle" /\ repo \in Repos /\ files[repo].detached = 0 /\ commits < MaxCommits
  /\ commits' = commits + 1 /\ git' = git
  /\ files' = IF worktree THEN [files EXCEPT ![repo].shared = 10 + commits]
              ELSE [files EXCEPT ![repo].own = 10 + commits]
  /\ heads' = heads \cup {10 + commits}
packRefs ==
  /\ Meanwhile /\ git = "idle" /\ repo \in Repos /\ HeadOf(repo) # 0 /\ files[repo].detached = 0
  /\ git' = "pruning" /\ files' = [files EXCEPT ![repo].packed = HeadOf(repo)]
  /\ UNCHANGED <<commits, heads>>
pruneLoose ==
  /\ Meanwhile /\ git = "pruning" /\ repo \in Repos
  /\ git' = "idle" /\ files' = [files EXCEPT ![repo].own = 0, ![repo].shared = 0]
  /\ UNCHANGED <<commits, heads>>

VersionNext ==
  \/ envRead \/ readCheckoutHead \/ readHeadCommit \/ revisionRead
  \/ commit_ \/ packRefs \/ pruneLoose
VersionSpec == VersionInit /\ [][VersionNext]_versionVars

-----------------------------------------------------------------------------
\* The reader's types.
VersionTypeOK ==
  /\ reading \in {"env", "walk", "head", "loose", "shared", "packed", "revision", "done"}
  /\ repo \in Repos \cup {"none"} /\ inferred.source \in {"none", "env", "git", "revision"}

\* A commit reported is one HEAD stood for while it was being read, however git
\* moves the branch between its files meanwhile (readHeadCommit: loose before
\* packed, the worktree's own before the shared).
CommitWasCheckedOut == inferred.source = "git" => inferred.head \in heads

\* A checkout with a commit is never passed over: reading goes past it only if
\* HEAD stood for no commit at some time (readHeadCommit, packed-refs).
CheckoutNotMissed ==
  reading \in {"walk", "revision"} /\ heads # {} => 0 \in heads

\* Deploys that name themselves differently are reported as different releases,
\* although the part that differs may lie past the cut (fitServiceVersion,
\* inferServiceVersion's slice of a revision).
ReleasesToldApart ==
  /\ inferred.source = "env" => \A other \in EnvVersions :
       other # <<>> /\ other[1] # env[1] => Result("env", fitServiceVersion(other[1])) # inferred
  /\ inferred.source = "revision" => \A other \in Revisions :
       other # <<>> /\ other[1] # revision[1] => Result("revision", fitRevision(other[1])) # inferred

\* A checkout that is read is the innermost: reading "does not hand the question
\* to a repository that happens to enclose it" (readCheckoutHead).
InnermostIsRead ==
  repo' \in Repos /\ repo = "none" =>
    LET path == searchFrom[1]
        inside == {i \in DOMAIN path : dotGit[path[i]] \in Repos}
    IN \A i \in inside : dotGit[path[i]] = repo' \/ \E j \in inside : j < i

\* The release reported is the one deployed: a commit that was checked out
\* while it was read, from the innermost repository, and told apart from every
\* other release (inferServiceVersion, readCheckoutHead).
ReleaseKept ==
  VersionTypeOK' /\ CommitWasCheckedOut' /\ CheckoutNotMissed' /\ ReleasesToldApart' /\ InnermostIsRead
ReleaseIsTheDeployed == [][ReleaseKept]_versionVars
=============================================================================
