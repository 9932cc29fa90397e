-------------------------- MODULE ReleasePipeline --------------------------
(***************************************************************************)
(* The releases of the project: scripts/release.py and the jobs of         *)
(* .github/workflows/auto-release.yml that call it.                        *)
(*                                                                         *)
(* main is linear: commit n is the nth one, and it is an ancestor of every *)
(* later one.  A successful CI run of a commit triggers a workflow run;    *)
(* the concurrency group lets one run execute at a time.  A job may fail   *)
(* anywhere, and a failed run may be continued ("re-run failed jobs",      *)
(* which keeps the outputs of the jobs that succeeded, the plan included)  *)
(* or started over ("re-run all jobs") at any later time, other runs and   *)
(* pushes having come between.  A check of release.py that refuses is a    *)
(* guard: the job can then only fail.                                      *)
(*                                                                         *)
(* A build has a digest and need not be reproducible.  A bundle is known   *)
(* by its version, its commit and the digest of its packages; an asset of  *)
(* a release is a file of a bundle.                                        *)
(***************************************************************************)
EXTENDS Naturals, Sequences, FiniteSets, FiniteSetsExt

CONSTANTS
    MaxPushes,        \* bound: commits on main
    MaxRuns,          \* bound: workflow runs
    MaxFailures,      \* bound: failures of jobs
    Kinds,            \* the effects the nth commit may have
    Digests,          \* what building one commit may produce
    AssetNames        \* wheel, sdist, release-manifest.json, SHA256SUMS

ASSUME ReleaseAssumption ==
    /\ {MaxPushes, MaxRuns, MaxFailures} \subseteq Nat
    /\ \A n \in 1..MaxPushes :
          Kinds[n] \subseteq {"none", "patch", "minor", "major"}

VARIABLES
    main,             \* the effect of each commit of the default branch
    runs,             \* the workflow runs, in the order they were triggered
    candidates,       \* build artifacts and bundles uploaded by the runs
    tags,             \* annotated tags of the remote: version to commit
    releases,         \* GitHub releases: version to state and assets
    attested,         \* bundles with a provenance attestation
    failures          \* jobs that failed

releaseVars ==
    <<main, runs, candidates, tags, releases, attested, failures>>

NoPlan == <<0, 0, 0>>

ReleaseInit ==
    /\ main = <<>> /\ runs = <<>> /\ candidates = {}
    /\ tags = [v \in {} |-> 0] /\ releases = [v \in {} |-> {}]
    /\ attested = {} /\ failures = 0

(***************************************************************************)
(* Versions and plans                                                      *)
(***************************************************************************)

\* The order of Version.
Older(v, w) ==
    \/ v[1] < w[1]
    \/ v[1] = w[1] /\ v[2] < w[2]
    \/ v[1] = w[1] /\ v[2] = w[2] /\ v[3] < w[3]

Newest(versions) ==
    CHOOSE v \in versions : \A w \in versions \ {v} : Older(w, v)

\* Defect: a minor release keeps the patch number.
BumpKeepingPatch(v, kind) ==
    CASE kind = "major" -> <<v[1] + 1, 0, 0>>
      [] kind = "minor" -> <<v[1], v[2] + 1, v[3]>>
      [] kind = "patch" -> <<v[1], v[2], v[3] + 1>>

Bump(v, kind) ==
    CASE kind = "major" -> <<v[1] + 1, 0, 0>>
      [] kind = "minor" -> <<v[1], v[2] + 1, 0>>
      [] kind = "patch" -> <<v[1], v[2], v[3] + 1>>

Rank(kind) == CASE kind = "none" -> 0 [] kind = "patch" -> 1
                [] kind = "minor" -> 2 [] kind = "major" -> 3

\* Defect: the last commit decides.
ClassifyLast(commits) ==
    IF commits = {} THEN "none" ELSE main[Max(commits)]

\* classify_commits: the greatest effect.
Classify(commits) ==
    LET kinds == {main[c] : c \in commits} \cup {"none"}
    IN  CHOOSE k \in kinds : \A l \in kinds : Rank(l) <= Rank(k)

\* _validate_release_history, for tags sorted by version.
HistoryIsMonotonic ==
    \A v, w \in DOMAIN tags : Older(v, w) => tags[v] < tags[w]

\* plan_release: the set of its results; none when it refuses.
PlanRelease(source) ==
    LET all == DOMAIN tags
        reachable == {v \in all : tags[v] <= source}
        here == {v \in reachable : tags[v] = source}
        previous == IF reachable = {} THEN NoPlan ELSE Newest(reachable)
        since == IF reachable = {} THEN 0 ELSE tags[previous]
        kind == Classify(since + 1..source)
        next == Bump(previous, kind)
    IN  IF ~HistoryIsMonotonic \/ Cardinality(here) > 1 THEN {}
        ELSE IF here # {} THEN here \cap {Newest(reachable)}
        ELSE IF reachable # all THEN {}
        ELSE IF kind = "none" THEN {NoPlan}
        ELSE {next} \ all

(***************************************************************************)
(* The world around the workflow                                           *)
(***************************************************************************)

\* A commit is pushed to the default branch.
Push ==
    /\ Len(main) < MaxPushes
    /\ \E kind \in Kinds[Len(main) + 1] : main' = Append(main, kind)
    /\ UNCHANGED <<runs, candidates, tags, releases, attested, failures>>

\* CI of a commit succeeds, for the first time or again; the workflow run
\* gets the head of main as its own commit.
Trigger(c) ==
    /\ Len(runs) < MaxRuns
    /\ runs' = Append(runs, [commit |-> c, sha |-> Len(main),
                             status |-> "waiting", step |-> "plan",
                             built |-> {}, version |-> NoPlan])
    /\ UNCHANGED <<main, candidates, tags, releases, attested, failures>>

Idle == \A r \in DOMAIN runs : runs[r].status # "running"

\* A run leaves the concurrency group's queue, or its failed jobs are re-run.
Begin(r) ==
    /\ Idle /\ runs[r].status \in {"waiting", "failed"}
    /\ runs' = [runs EXCEPT ![r].status = "running"]
    /\ UNCHANGED <<main, candidates, tags, releases, attested, failures>>

\* All jobs of a run are re-run.
RerunAll(r) ==
    /\ Idle /\ runs[r].status \in {"failed", "done"}
    /\ runs' = [runs EXCEPT ![r] = [@ EXCEPT !.status = "running",
                    !.step = "plan", !.built = {}, !.version = NoPlan]]
    /\ UNCHANGED <<main, candidates, tags, releases, attested, failures>>

\* A job fails, because of a check or of anything else; it will be re-run
\* from its first step.
FailRun(r) ==
    /\ runs[r].status = "running" /\ failures < MaxFailures
    /\ failures' = failures + 1
    /\ runs' = [runs EXCEPT ![r].status = "failed",
                  ![r].step = CASE @ = "verifyTag" -> "tag"
                                [] @ = "reconcile" -> "publish"
                                [] OTHER -> @]
    /\ UNCHANGED <<main, candidates, tags, releases, attested>>

(***************************************************************************)
(* The jobs                                                                *)
(***************************************************************************)

At(r, step) == runs[r].status = "running" /\ runs[r].step = step

Go(r, step) == runs' = [runs EXCEPT ![r].step = step]

Finish(r) == runs' = [runs EXCEPT ![r].status = "done"]

\* The bundle run r makes of packages with a digest.
BundleOf(r, digest) ==
    [version |-> runs[r].version, commit |-> runs[r].commit,
     digest |-> digest]

\* validate_workflow_context and validate_checkout.
TrustedSource(r) ==
    runs[r].sha = runs[r].commit /\ runs[r].commit <= Len(main)

\* plan
Plan(r) ==
    /\ At(r, "plan") /\ TrustedSource(r)
    /\ \E v \in PlanRelease(runs[r].commit) :
          IF v = NoPlan THEN Finish(r)
          ELSE runs' = [runs EXCEPT ![r].step = "build", ![r].version = v]
    /\ UNCHANGED <<main, candidates, tags, releases, attested, failures>>

\* The tag is not there yet or marks this run's commit.
TagAgrees(r) ==
    LET v == runs[r].version
    IN  v \in DOMAIN tags => tags[v] = runs[r].commit

\* build and rebuild, in any order: prepare-tag, build, inspect, upload.
Build(r, kind) ==
    /\ At(r, "build") /\ kind \notin runs[r].built /\ TagAgrees(r)
    /\ \E d \in Digests :
          candidates' = candidates \cup
            {[run |-> r, kind |-> kind, version |-> runs[r].version,
              digest |-> d]}
    /\ runs' = [runs EXCEPT
                  ![r].built = @ \cup {kind},
                  ![r].step = IF runs[r].built = {} THEN "build"
                              ELSE "assemble"]
    /\ UNCHANGED <<main, tags, releases, attested, failures>>

\* The digests of the run's candidates of a kind, of all its attempts.
Candidates(r, kind) ==
    {c.digest : c \in {b \in candidates :
        b.run = r /\ b.kind = kind /\ b.version = runs[r].version}}

\* Defect: the rebuild is not compared with the primary build.
AssembleUnchecked(r) ==
    /\ At(r, "assemble")
    /\ \E d \in Digests :
          /\ Candidates(r, "primary") = {d}
          /\ candidates' = candidates \cup
               {[run |-> r, kind |-> "bundle", version |-> runs[r].version,
                 digest |-> d]}
    /\ Go(r, "tag")
    /\ UNCHANGED <<main, tags, releases, attested, failures>>

\* assemble: select-build on both kinds, finalize, upload.
Assemble(r) ==
    /\ At(r, "assemble")
    /\ \E d \in Digests :
          /\ Candidates(r, "primary") = {d} /\ Candidates(r, "rebuild") = {d}
          /\ candidates' = candidates \cup
               {[run |-> r, kind |-> "bundle", version |-> runs[r].version,
                 digest |-> d]}
    /\ Go(r, "tag")
    /\ UNCHANGED <<main, tags, releases, attested, failures>>

\* Defect: the tag is pushed with force.
ForceTag(r) ==
    /\ At(r, "tag") /\ TrustedSource(r)
    /\ LET v == runs[r].version
       IN  tags' = [w \in DOMAIN tags \cup {v} |->
                      IF w = v THEN runs[r].commit ELSE tags[w]]
    /\ Go(r, "verifyTag")
    /\ UNCHANGED <<main, candidates, releases, attested, failures>>

\* tag: ensure_annotated_tag up to its push ...
PushTag(r) ==
    /\ At(r, "tag") /\ TrustedSource(r) /\ TagAgrees(r)
    /\ LET v == runs[r].version
       IN  tags' = [w \in DOMAIN tags \cup {v} |->
                      IF w = v THEN runs[r].commit ELSE tags[w]]
    /\ Go(r, "verifyTag")
    /\ UNCHANGED <<main, candidates, releases, attested, failures>>

\* ... and the check of what the remote now has.
VerifyTag(r) ==
    /\ At(r, "verifyTag") /\ TagAgrees(r)
    /\ Go(r, "attest")
    /\ UNCHANGED <<main, candidates, tags, releases, attested, failures>>

\* select_release_candidate: the one bundle of all attempts.
Selected(r) ==
    {BundleOf(r, d) : d \in {e \in Digests : Candidates(r, "bundle") = {e}}}

\* attest: select-release, verify, the attestations.
Attest(r) ==
    /\ At(r, "attest")
    /\ \E b \in Selected(r) : attested' = attested \cup {b}
    /\ Go(r, "publish")
    /\ UNCHANGED <<main, candidates, tags, releases, failures>>

\* Defect: existing assets are matched by name.
AgreesByName(assets, b) == DOMAIN assets \subseteq AssetNames

\* reconcile_draft_assets: every asset there is the bundle's.
Agrees(assets, b) ==
    DOMAIN assets \subseteq AssetNames /\ \A n \in DOMAIN assets : assets[n] = b

\* compare_releases
Identical(assets, b) ==
    DOMAIN assets = AssetNames /\ \A n \in AssetNames : assets[n] = b

Store(v, release) ==
    releases' = [w \in DOMAIN releases \cup {v} |->
                   IF w = v THEN release ELSE releases[w]]

\* publish: verify-tag and verify, then a published release is compared, a
\* draft taken up, or a draft created.
TakeUpRelease(r) ==
    /\ At(r, "publish")
    /\ runs[r].version \in DOMAIN tags /\ TagAgrees(r)
    /\ \E b \in Selected(r) :
         LET v == runs[r].version
         IN  \/ /\ v \notin DOMAIN releases
                /\ Store(v, [draft |-> TRUE, assets |-> [n \in {} |-> b]])
                /\ Go(r, "reconcile")
             \/ /\ v \in DOMAIN releases /\ releases[v].draft
                /\ Go(r, "reconcile") /\ UNCHANGED releases
             \/ /\ v \in DOMAIN releases /\ ~releases[v].draft
                /\ Identical(releases[v].assets, b)
                /\ Finish(r) /\ UNCHANGED releases
    /\ UNCHANGED <<main, candidates, tags, attested, failures>>

\* The draft's assets are checked and a missing one is uploaded.
UploadAsset(r, name) ==
    /\ At(r, "reconcile")
    /\ \E b \in Selected(r) :
         LET v == runs[r].version
             assets == releases[v].assets
         IN  /\ Agrees(assets, b) /\ name \notin DOMAIN assets
             /\ Store(v, [releases[v] EXCEPT !.assets =
                    [n \in DOMAIN assets \cup {name} |->
                       IF n = name THEN b ELSE assets[n]]])
    /\ UNCHANGED <<main, runs, candidates, tags, attested, failures>>

\* The draft is downloaded, compared and published.
PublishRelease(r) ==
    /\ At(r, "reconcile")
    /\ \E b \in Selected(r) :
         /\ Identical(releases[runs[r].version].assets, b)
         /\ Store(runs[r].version, [draft |-> FALSE, assets |->
                                      releases[runs[r].version].assets])
    /\ Finish(r)
    /\ UNCHANGED <<main, candidates, tags, attested, failures>>

ReleaseNext ==
    \/ Push
    \/ \E c \in DOMAIN main : Trigger(c)
    \/ \E r \in DOMAIN runs :
          \/ Begin(r) \/ RerunAll(r) \/ FailRun(r)
          \/ Plan(r) \/ Assemble(r) \/ PushTag(r) \/ VerifyTag(r)
          \/ Attest(r) \/ TakeUpRelease(r) \/ PublishRelease(r)
          \/ \E kind \in {"primary", "rebuild"} : Build(r, kind)
          \/ \E name \in AssetNames : UploadAsset(r, name)

\* Nothing obliges a run to go on: jobs fail and stay failed.
ReleaseSpec == ReleaseInit /\ [][ReleaseNext]_releaseVars

(***************************************************************************)
(* Properties                                                              *)
(***************************************************************************)

\* However runs fail, are continued with old plans and started over, the
\* next release of the head of main can be planned: no sequence of releases
\* leaves tags that plan_release refuses (two on one commit, versions out of
\* order, a version that is taken).
HeadCanBePlanned ==
    main # <<>> => PlanRelease(Len(main)) # {}

\* Successive versions say what changed: each tag is the version before it
\* raised by the greatest effect of the commits between the two, though the
\* tag before it may have been pushed later, by a run with an old plan.
VersionsTellChanges ==
    \A w \in DOMAIN tags :
      LET before == {v \in DOMAIN tags : Older(v, w)}
          v == IF before = {} THEN NoPlan ELSE Newest(before)
          from == IF before = {} THEN 0 ELSE tags[v]
          kinds == {main[c] : c \in from + 1..tags[w]}
          greatest == CHOOSE k \in kinds : \A l \in kinds : Rank(l) <= Rank(k)
      IN  CASE greatest = "major" -> w = <<v[1] + 1, 0, 0>>
            [] greatest = "minor" -> w = <<v[1], v[2] + 1, 0>>
            [] greatest = "patch" -> w = <<v[1], v[2], v[3] + 1>>
            [] OTHER -> FALSE

\* The tags form a truthful history of versions that can be continued.
HistoryCanGoOn == HeadCanBePlanned /\ VersionsTellChanges

\* A release, draft or published, never mixes the files of two builds, and
\* its files are those of the commit its tag marks.
AssetsOfOneBuild ==
    \A v \in DOMAIN releases :
      \A m, n \in DOMAIN releases[v].assets :
        /\ releases[v].assets[m] = releases[v].assets[n]
        /\ v \in DOMAIN tags /\ releases[v].assets[n].commit = tags[v]

\* What is published is complete and attested, and two builds of its commit
\* for its version produced exactly it.
PublishedIsReproduced ==
    \A v \in DOMAIN releases : ~releases[v].draft =>
      /\ DOMAIN releases[v].assets = AssetNames
      /\ \A n \in AssetNames :
           LET b == releases[v].assets[n]
               made(kind) == \E c \in candidates :
                   /\ c.kind = kind /\ c.version = v /\ c.digest = b.digest
                   /\ runs[c.run].commit = b.commit
           IN  b \in attested /\ made("primary") /\ made("rebuild")

\* What is published is one attested build that another one reproduced.
PublishedIsOneBuild == AssetsOfOneBuild /\ PublishedIsReproduced

\* A tag never moves and never goes, and a published release never changes.
ReleasesImmutable ==
    [][/\ \A v \in DOMAIN tags : v \in DOMAIN tags' /\ tags'[v] = tags[v]
       /\ \A v \in DOMAIN releases : ~releases[v].draft =>
             v \in DOMAIN releases' /\ releases'[v] = releases[v]
      ]_releaseVars

=============================================================================
