----------------------- MODULE ReleasePipelineProofs -----------------------
(***************************************************************************)
(* Theorems about the releases, for any number of commits, runs, failures  *)
(* and digests: what is published is one attested build that another one   *)
(* reproduced, tags and published releases never change, and the tags tell *)
(* what changed and can always be continued.                               *)
(*                                                                         *)
(* None is inductive.  A publish job compares the release with the one     *)
(* bundle its run selects, so the invariant says what a selection is: a    *)
(* bundle exists only with the two builds it was assembled from, and it is *)
(* attested before the publish job begins.  And the job stores without     *)
(* looking at the release again: one run executes at a time, so a release  *)
(* that it found to be a draft is still one, under its own tag.            *)
(***************************************************************************)
EXTENDS ReleasePipeline, TLAPS, SequenceTheorems, FiniteSetTheorems

(***************************************************************************)
(* The builds and the releases                                             *)
(***************************************************************************)

\* The records the model builds are functions on these names.
RunFields == {"commit", "sha", "status", "step", "built", "version"}

IsRun(x) == DOMAIN x = RunFields /\ x = [k \in RunFields |-> x[k]]

IsRelease(x) ==
    /\ DOMAIN x = {"draft", "assets"}
    /\ x = [k \in {"draft", "assets"} |-> x[k]]
    /\ x.draft \in BOOLEAN

ReleaseShape ==
    /\ \E S : runs \in Seq(S)
    /\ \A r \in DOMAIN runs : IsRun(runs[r])
    /\ \A v \in DOMAIN releases : IsRelease(releases[v])
    /\ \A c \in candidates : c.run \in DOMAIN runs

\* The concurrency group.
OneRunning ==
    \A q, r \in DOMAIN runs :
        runs[q].status = "running" /\ runs[r].status = "running" => q = r

\* A run that reconciles a draft has it, under a tag that marks its commit;
\* a run that failed begins its publish job again.
Reconciling ==
    \A r \in DOMAIN runs : runs[r].step = "reconcile" =>
        /\ runs[r].status \in {"running", "done"}
        /\ runs[r].status = "running" =>
              /\ runs[r].version \in DOMAIN releases
              /\ releases[runs[r].version].draft
        /\ runs[r].version \in DOMAIN tags
        /\ tags[runs[r].version] = runs[r].commit

\* A bundle is made of a primary build and a rebuild with the same digest.
BundlesReproduced ==
    \A c \in candidates : c.kind = "bundle" =>
        \A kind \in {"primary", "rebuild"} :
            \E b \in candidates :
                /\ b.kind = kind /\ b.run = c.run
                /\ b.version = c.version /\ b.digest = c.digest

\* What a run may publish has been attested.
SelectionAttested ==
    \A r \in DOMAIN runs : runs[r].step \in {"publish", "reconcile"} =>
        Selected(r) \subseteq attested

\* A primary build and a rebuild for version v produced bundle b.
BuiltTwice(v, b) ==
    \A kind \in {"primary", "rebuild"} :
        \E c \in candidates :
            /\ c.kind = kind /\ c.version = v /\ c.digest = b.digest
            /\ runs[c.run].commit = b.commit

\* A release of version v holds files of bundle b only, all of them and
\* built twice once it is published.
HoldsBundle(release, v, b) ==
    /\ \A n \in DOMAIN release.assets : release.assets[n] = b
    /\ ~release.draft => DOMAIN release.assets = AssetNames /\ BuiltTwice(v, b)

ReleaseInv ==
    /\ ReleaseShape /\ OneRunning /\ Reconciling /\ BundlesReproduced
    /\ SelectionAttested /\ AssetsOfOneBuild /\ PublishedIsReproduced

-----------------------------------------------------------------------------

LEMMA ReleaseInitInv == ReleaseInit => ReleaseInv
<1> SUFFICES ASSUME ReleaseInit PROVE ReleaseInv
  OBVIOUS
<1>1. runs \in Seq({}) /\ DOMAIN runs = {} /\ DOMAIN releases = {}
      /\ candidates = {}
  BY DEF ReleaseInit
<1>. QED
  BY <1>1 DEF ReleaseInv, ReleaseShape, OneRunning, Reconciling,
     BundlesReproduced, SelectionAttested, AssetsOfOneBuild,
     PublishedIsReproduced

\* One run moves on: the others stay, and no run changes its commit.
LEMMA RunMoves ==
    ASSUME ReleaseShape, NEW r \in DOMAIN runs, NEW y, IsRun(y),
           runs' = [runs EXCEPT ![r] = y]
    PROVE  /\ \E S : runs' \in Seq(S)
           /\ DOMAIN runs' = DOMAIN runs
           /\ runs'[r] = y
           /\ \A q \in DOMAIN runs : q # r => runs'[q] = runs[q]
           /\ \A q \in DOMAIN runs' : IsRun(runs'[q])
<1>1. PICK S : runs \in Seq(S)
  BY DEF ReleaseShape
<1>2. r \in 1..Len(runs) /\ runs \in Seq(S \cup {y})
  BY <1>1, LenProperties, SeqMonotonic
<1>3. runs' \in Seq(S \cup {y})
  BY <1>2, ExceptSeq
<1>. QED
  BY <1>3 DEF ReleaseShape

\* What the bundles of a run depend on.
LEMMA SelectedSame ==
    ASSUME NEW q, runs'[q].version = runs[q].version,
           runs'[q].commit = runs[q].commit,
           \A d : (\E c \in candidates' :
                      c.run = q /\ c.kind = "bundle"
                        /\ c.version = runs[q].version /\ c.digest = d)
                  <=> (\E c \in candidates :
                      c.run = q /\ c.kind = "bundle"
                        /\ c.version = runs[q].version /\ c.digest = d)
    PROVE  Selected(q)' = Selected(q)
<1>1. Candidates(q, "bundle")' = Candidates(q, "bundle")
  BY DEF Candidates
<1>2. \A d : BundleOf(q, d)' = BundleOf(q, d)
  BY DEF BundleOf
<1>. QED
  BY <1>1, <1>2 DEF Selected

\* What is said of the releases stays true while builds, attestations and
\* tags are only added and the runs keep their commits.
LEMMA ReleasesStay ==
    ASSUME ReleaseInv, UNCHANGED releases,
           candidates \subseteq candidates', attested \subseteq attested',
           \A v \in DOMAIN tags : v \in DOMAIN tags' /\ tags'[v] = tags[v],
           \A q \in DOMAIN runs : runs'[q].commit = runs[q].commit
    PROVE  AssetsOfOneBuild' /\ PublishedIsReproduced'
<1>1. AssetsOfOneBuild'
  BY DEF ReleaseInv, AssetsOfOneBuild
<1>2. PublishedIsReproduced'
  <2> SUFFICES ASSUME NEW v \in DOMAIN releases, ~releases[v].draft
               PROVE  /\ DOMAIN releases[v].assets = AssetNames
                      /\ \A n \in AssetNames :
                           /\ releases[v].assets[n] \in attested'
                           /\ \A kind \in {"primary", "rebuild"} :
                                \E c \in candidates' :
                                  /\ c.kind = kind /\ c.version = v
                                  /\ c.digest = releases[v].assets[n].digest
                                  /\ runs'[c.run].commit =
                                       releases[v].assets[n].commit
    BY DEF PublishedIsReproduced
  <2>1. DOMAIN releases[v].assets = AssetNames
    BY DEF ReleaseInv, PublishedIsReproduced
  <2>2. ASSUME NEW n \in AssetNames
        PROVE  releases[v].assets[n] \in attested'
    BY DEF ReleaseInv, PublishedIsReproduced
  <2>3. ASSUME NEW n \in AssetNames, NEW kind \in {"primary", "rebuild"}
        PROVE  \E c \in candidates' :
                  /\ c.kind = kind /\ c.version = v
                  /\ c.digest = releases[v].assets[n].digest
                  /\ runs'[c.run].commit = releases[v].assets[n].commit
    <3>1. PICK c \in candidates :
                  /\ c.kind = kind /\ c.version = v
                  /\ c.digest = releases[v].assets[n].digest
                  /\ runs[c.run].commit = releases[v].assets[n].commit
      BY <2>3 DEF ReleaseInv, PublishedIsReproduced
    <3>2. runs'[c.run].commit = runs[c.run].commit /\ c \in candidates'
      BY <3>1 DEF ReleaseInv, ReleaseShape
    <3>. QED
      BY <3>1, <3>2
  <2>. QED
    BY <2>1, <2>2, <2>3
<1>. QED
  BY <1>1, <1>2

\* One run at a time executes: a run starts only when none does.
LEMMA StillOneRunning ==
    ASSUME ReleaseInv, NEW r \in DOMAIN runs, NEW y,
           DOMAIN runs' = DOMAIN runs, runs'[r] = y,
           \A q \in DOMAIN runs : q # r => runs'[q] = runs[q],
           y.status = "running" => runs[r].status = "running" \/ Idle
    PROVE  OneRunning'
BY DEF ReleaseInv, OneRunning, Idle

\* A step that changes one run only.
LEMMA QuietRunKeeps ==
    ASSUME ReleaseInv, NEW r \in DOMAIN runs, NEW y, IsRun(y),
           runs' = [runs EXCEPT ![r] = y],
           y.commit = runs[r].commit,
           y.status = "running" => runs[r].status = "running" \/ Idle,
           y.step \in {"publish", "reconcile"} =>
              /\ y.version = runs[r].version
              /\ runs[r].step \in {"publish", "reconcile"},
           y.step = "reconcile" =>
              runs[r].step = "reconcile" /\ y.status = "done",
           UNCHANGED <<tags, releases, attested, candidates>>
    PROVE  ReleaseInv'
<1>1. /\ \E S : runs' \in Seq(S)
      /\ DOMAIN runs' = DOMAIN runs
      /\ runs'[r] = y
      /\ \A q \in DOMAIN runs : q # r => runs'[q] = runs[q]
      /\ \A q \in DOMAIN runs' : IsRun(runs'[q])
  BY RunMoves DEF ReleaseInv
<1>2. ReleaseShape'
  BY <1>1 DEF ReleaseInv, ReleaseShape
<1>3. OneRunning'
  BY <1>1, StillOneRunning
<1>4. Reconciling'
  BY <1>1 DEF ReleaseInv, Reconciling
<1>5. BundlesReproduced'
  BY DEF ReleaseInv, BundlesReproduced
<1>6. SelectionAttested'
  <2> SUFFICES ASSUME NEW q \in DOMAIN runs,
                      runs'[q].step \in {"publish", "reconcile"}
               PROVE  Selected(q)' \subseteq attested
    BY <1>1 DEF SelectionAttested
  <2>1. runs'[q].version = runs[q].version /\ runs'[q].commit = runs[q].commit
        /\ runs[q].step \in {"publish", "reconcile"}
    BY <1>1
  <2>2. Selected(q)' = Selected(q)
    BY <2>1, SelectedSame
  <2>. QED
    BY <2>1, <2>2 DEF ReleaseInv, SelectionAttested
<1>7. AssetsOfOneBuild' /\ PublishedIsReproduced'
  BY <1>1, ReleasesStay
<1>. QED
  BY <1>2, <1>3, <1>4, <1>5, <1>6, <1>7 DEF ReleaseInv

LEMMA PushKeeps == ASSUME ReleaseInv, Push PROVE ReleaseInv'
<1>1. UNCHANGED <<runs, candidates, tags, releases, attested>>
  BY DEF Push
<1>2. \A r : Selected(r)' = Selected(r)
  BY <1>1, SelectedSame
<1>. QED
  BY <1>1, <1>2 DEF ReleaseInv, ReleaseShape, OneRunning, Reconciling,
     BundlesReproduced, SelectionAttested, AssetsOfOneBuild,
     PublishedIsReproduced

LEMMA TriggerKeeps ==
    ASSUME ReleaseInv, NEW c \in DOMAIN main, Trigger(c)
    PROVE  ReleaseInv'
<1> DEFINE y == [commit |-> c, sha |-> Len(main), status |-> "waiting",
                 step |-> "plan", built |-> {}, version |-> NoPlan]
<1>1. runs' = Append(runs, y) /\ UNCHANGED <<candidates, tags, releases, attested>>
  BY DEF Trigger
<1>2. IsRun(y) /\ y.status = "waiting" /\ y.step = "plan"
  BY DEF IsRun, RunFields
<1>. HIDE DEF y
<1>3. PICK S : runs \in Seq(S)
  BY DEF ReleaseInv, ReleaseShape
<1>4. runs \in Seq(S \cup {y}) /\ DOMAIN runs = 1..Len(runs) /\ Len(runs) \in Nat
  BY <1>3, SeqMonotonic, LenProperties
<1>5. /\ runs' \in Seq(S \cup {y}) /\ Len(runs') = Len(runs) + 1
      /\ \A r \in 1..Len(runs) : runs'[r] = runs[r]
      /\ runs'[Len(runs) + 1] = y
  BY <1>1, <1>4
<1>6. DOMAIN runs' = 1..Len(runs')
  BY <1>5
<1>7. /\ \A r \in DOMAIN runs' : r \in DOMAIN runs \/ runs'[r] = y
      /\ \A r \in DOMAIN runs : r \in DOMAIN runs' /\ runs'[r] = runs[r]
  BY <1>4, <1>5, <1>6
<1>8. ReleaseShape'
  BY <1>1, <1>2, <1>5, <1>7 DEF ReleaseInv, ReleaseShape
<1>9. OneRunning' /\ Reconciling'
  BY <1>1, <1>2, <1>7 DEF ReleaseInv, OneRunning, Reconciling
<1>10. BundlesReproduced'
  BY <1>1 DEF ReleaseInv, BundlesReproduced
<1>11. SelectionAttested'
  <2> SUFFICES ASSUME NEW q \in DOMAIN runs',
                      runs'[q].step \in {"publish", "reconcile"}
               PROVE  Selected(q)' \subseteq attested
    BY <1>1 DEF SelectionAttested
  <2>1. q \in DOMAIN runs /\ runs'[q] = runs[q]
    BY <1>2, <1>7
  <2>2. Selected(q)' = Selected(q)
    BY <1>1, <2>1, SelectedSame
  <2>. QED
    BY <2>1, <2>2 DEF ReleaseInv, SelectionAttested
<1>12. AssetsOfOneBuild' /\ PublishedIsReproduced'
  BY <1>1, <1>7, ReleasesStay
<1>. QED
  BY <1>8, <1>9, <1>10, <1>11, <1>12 DEF ReleaseInv

LEMMA BeginKeeps ==
    ASSUME ReleaseInv, NEW r \in DOMAIN runs, Begin(r)
    PROVE  ReleaseInv'
<1> DEFINE y == [runs[r] EXCEPT !.status = "running"]
<1>1. IsRun(runs[r])
  BY DEF ReleaseInv, ReleaseShape
<1>2. runs' = [runs EXCEPT ![r] = y]
  BY DEF Begin
<1>3. /\ IsRun(y) /\ y.commit = runs[r].commit /\ y.step = runs[r].step
      /\ y.version = runs[r].version
  BY <1>1 DEF IsRun, RunFields
<1>4. runs[r].step # "reconcile" /\ Idle
  BY DEF Begin, ReleaseInv, Reconciling
<1>. HIDE DEF y
<1>. QED
  BY <1>2, <1>3, <1>4, QuietRunKeeps DEF Begin

LEMMA RerunAllKeeps ==
    ASSUME ReleaseInv, NEW r \in DOMAIN runs, RerunAll(r)
    PROVE  ReleaseInv'
<1> DEFINE y == [runs[r] EXCEPT !.status = "running", !.step = "plan",
                                !.built = {}, !.version = NoPlan]
<1>1. IsRun(runs[r])
  BY DEF ReleaseInv, ReleaseShape
<1>2. runs' = [runs EXCEPT ![r] = y]
  BY DEF RerunAll
<1>3. IsRun(y) /\ y.commit = runs[r].commit /\ y.step = "plan"
  BY <1>1 DEF IsRun, RunFields
<1>. HIDE DEF y
<1>. QED
  BY <1>2, <1>3, QuietRunKeeps DEF RerunAll

LEMMA FailRunKeeps ==
    ASSUME ReleaseInv, NEW r \in DOMAIN runs, FailRun(r)
    PROVE  ReleaseInv'
<1> DEFINE s == CASE runs[r].step = "verifyTag" -> "tag"
                  [] runs[r].step = "reconcile" -> "publish"
                  [] OTHER -> runs[r].step
           y == [runs[r] EXCEPT !.status = "failed", !.step = s]
<1>1. IsRun(runs[r])
  BY DEF ReleaseInv, ReleaseShape
<1>2. runs' = [runs EXCEPT ![r] = y]
  BY <1>1 DEF FailRun, IsRun, RunFields
<1>3. /\ IsRun(y) /\ y.commit = runs[r].commit /\ y.step = s
      /\ y.version = runs[r].version /\ y.status = "failed"
  BY <1>1 DEF IsRun, RunFields
<1>4. /\ s # "reconcile"
      /\ s = "publish" => runs[r].step \in {"publish", "reconcile"}
  OBVIOUS
<1>. HIDE DEF y, s
<1>. QED
  BY <1>2, <1>3, <1>4, QuietRunKeeps DEF FailRun

LEMMA PlanKeeps ==
    ASSUME ReleaseInv, NEW r \in DOMAIN runs, Plan(r)
    PROVE  ReleaseInv'
<1>1. IsRun(runs[r]) /\ runs[r].status = "running" /\ runs[r].step = "plan"
      /\ UNCHANGED <<tags, releases, attested, candidates>>
  BY DEF ReleaseInv, ReleaseShape, Plan, At
<1>2. CASE Finish(r)
  <2> DEFINE y == [runs[r] EXCEPT !.status = "done"]
  <2>1. runs' = [runs EXCEPT ![r] = y]
    BY <1>2 DEF Finish
  <2>2. IsRun(y) /\ y.commit = runs[r].commit /\ y.step = "plan"
    BY <1>1 DEF IsRun, RunFields
  <2>. HIDE DEF y
  <2>. QED
    BY <1>1, <2>1, <2>2, QuietRunKeeps
<1>3. ASSUME NEW v, runs' = [runs EXCEPT ![r].step = "build", ![r].version = v]
      PROVE  ReleaseInv'
  <2> DEFINE y == [runs[r] EXCEPT !.step = "build", !.version = v]
  <2>1. runs' = [runs EXCEPT ![r] = y]
    BY <1>1, <1>3 DEF IsRun, RunFields
  <2>2. IsRun(y) /\ y.commit = runs[r].commit /\ y.step = "build"
    BY <1>1 DEF IsRun, RunFields
  <2>. HIDE DEF y
  <2>. QED
    BY <1>1, <2>1, <2>2, QuietRunKeeps
<1>. QED
  BY <1>2, <1>3 DEF Plan

LEMMA VerifyTagKeeps ==
    ASSUME ReleaseInv, NEW r \in DOMAIN runs, VerifyTag(r)
    PROVE  ReleaseInv'
<1> DEFINE y == [runs[r] EXCEPT !.step = "attest"]
<1>1. IsRun(runs[r]) /\ runs[r].status = "running"
  BY DEF ReleaseInv, ReleaseShape, VerifyTag, At
<1>2. runs' = [runs EXCEPT ![r] = y]
  BY DEF VerifyTag, Go
<1>3. IsRun(y) /\ y.commit = runs[r].commit /\ y.step = "attest"
  BY <1>1 DEF IsRun, RunFields
<1>. HIDE DEF y
<1>. QED
  BY <1>1, <1>2, <1>3, QuietRunKeeps DEF VerifyTag

\* A candidate is added for the running run, whose steps before "tag" no
\* one relies on; a bundle only with both builds.
LEMMA CandidateKeeps ==
    ASSUME ReleaseInv, NEW r \in DOMAIN runs, NEW y, IsRun(y),
           runs' = [runs EXCEPT ![r] = y],
           y.commit = runs[r].commit, runs[r].status = "running",
           y.step \notin {"publish", "reconcile"},
           NEW new, new.run = r,
           candidates' = candidates \cup {new},
           new.kind = "bundle" =>
              \A kind \in {"primary", "rebuild"} :
                \E b \in candidates :
                   /\ b.kind = kind /\ b.run = r
                   /\ b.version = new.version /\ b.digest = new.digest,
           UNCHANGED <<tags, releases, attested>>
    PROVE  ReleaseInv'
<1>1. /\ \E S : runs' \in Seq(S)
      /\ DOMAIN runs' = DOMAIN runs
      /\ runs'[r] = y
      /\ \A q \in DOMAIN runs : q # r => runs'[q] = runs[q]
      /\ \A q \in DOMAIN runs' : IsRun(runs'[q])
  BY RunMoves DEF ReleaseInv
<1>2. ReleaseShape'
  BY <1>1 DEF ReleaseInv, ReleaseShape
<1>3. OneRunning'
  BY <1>1, StillOneRunning
<1>4. Reconciling'
  BY <1>1 DEF ReleaseInv, Reconciling
<1>5. BundlesReproduced'
  BY DEF ReleaseInv, BundlesReproduced
<1>6. SelectionAttested'
  <2> SUFFICES ASSUME NEW q \in DOMAIN runs,
                      runs'[q].step \in {"publish", "reconcile"}
               PROVE  Selected(q)' \subseteq attested
    BY <1>1 DEF SelectionAttested
  <2>1. q # r /\ runs'[q] = runs[q]
    BY <1>1
  <2>2. Selected(q)' = Selected(q)
    BY <2>1, SelectedSame
  <2>. QED
    BY <2>1, <2>2 DEF ReleaseInv, SelectionAttested
<1>7. AssetsOfOneBuild' /\ PublishedIsReproduced'
  BY <1>1, ReleasesStay
<1>. QED
  BY <1>2, <1>3, <1>4, <1>5, <1>6, <1>7 DEF ReleaseInv

LEMMA BuildKeeps ==
    ASSUME ReleaseInv, NEW r \in DOMAIN runs,
           NEW kind \in {"primary", "rebuild"}, Build(r, kind)
    PROVE  ReleaseInv'
<1> DEFINE s == IF runs[r].built = {} THEN "build" ELSE "assemble"
           y == [runs[r] EXCEPT !.built = @ \cup {kind}, !.step = s]
<1>1. IsRun(runs[r]) /\ runs[r].status = "running"
  BY DEF ReleaseInv, ReleaseShape, Build, At
<1>2. runs' = [runs EXCEPT ![r] = y]
  BY <1>1 DEF Build, IsRun, RunFields
<1>3. IsRun(y) /\ y.commit = runs[r].commit /\ y.step = s
  BY <1>1 DEF IsRun, RunFields
<1>4. PICK d \in Digests : candidates' = candidates \cup
         {[run |-> r, kind |-> kind, version |-> runs[r].version, digest |-> d]}
  BY DEF Build
<1> DEFINE new == [run |-> r, kind |-> kind, version |-> runs[r].version,
                   digest |-> d]
<1>5. new.run = r /\ new.kind # "bundle"
  OBVIOUS
<1>6. s \notin {"publish", "reconcile"}
  OBVIOUS
<1>7. candidates' = candidates \cup {new} /\ UNCHANGED <<tags, releases, attested>>
  BY <1>4 DEF Build
<1>. HIDE DEF y, s, new
<1>. QED
  BY <1>1, <1>2, <1>3, <1>5, <1>6, <1>7, CandidateKeeps

LEMMA AssembleKeeps ==
    ASSUME ReleaseInv, NEW r \in DOMAIN runs, Assemble(r)
    PROVE  ReleaseInv'
<1> DEFINE y == [runs[r] EXCEPT !.step = "tag"]
<1>1. IsRun(runs[r]) /\ runs[r].status = "running"
  BY DEF ReleaseInv, ReleaseShape, Assemble, At
<1>2. runs' = [runs EXCEPT ![r] = y]
  BY DEF Assemble, Go
<1>3. IsRun(y) /\ y.commit = runs[r].commit /\ y.step = "tag"
  BY <1>1 DEF IsRun, RunFields
<1>4. PICK d \in Digests :
          /\ Candidates(r, "primary") = {d} /\ Candidates(r, "rebuild") = {d}
          /\ candidates' = candidates \cup
               {[run |-> r, kind |-> "bundle", version |-> runs[r].version,
                 digest |-> d]}
  BY DEF Assemble
<1> DEFINE new == [run |-> r, kind |-> "bundle", version |-> runs[r].version,
                   digest |-> d]
<1>5. new.run = r /\ new.version = runs[r].version /\ new.digest = d
  OBVIOUS
<1>6. ASSUME NEW kind \in {"primary", "rebuild"}
      PROVE  \E b \in candidates :
                /\ b.kind = kind /\ b.run = r
                /\ b.version = runs[r].version /\ b.digest = d
  <2>1. d \in Candidates(r, kind)
    BY <1>4, <1>6
  <2>. QED
    BY <2>1 DEF Candidates
<1>7. candidates' = candidates \cup {new} /\ UNCHANGED <<tags, releases, attested>>
  BY <1>4 DEF Assemble
<1>8. \A kind \in {"primary", "rebuild"} :
         \E b \in candidates :
            /\ b.kind = kind /\ b.run = r
            /\ b.version = new.version /\ b.digest = new.digest
  BY <1>5, <1>6, Zenon
<1>9. y.step \notin {"publish", "reconcile"}
  BY <1>3
<1>. HIDE DEF y, new
<1>. QED
  BY <1>1, <1>2, <1>3, <1>5, <1>7, <1>8, <1>9, CandidateKeeps, Zenon

\* ensure_annotated_tag adds a tag or finds its own.
LEMMA PushTagKeepsTags ==
    ASSUME NEW r \in DOMAIN runs, PushTag(r)
    PROVE  \A v \in DOMAIN tags : v \in DOMAIN tags' /\ tags'[v] = tags[v]
BY DEF PushTag, TagAgrees

LEMMA PushTagKeeps ==
    ASSUME ReleaseInv, NEW r \in DOMAIN runs, PushTag(r)
    PROVE  ReleaseInv'
<1> DEFINE y == [runs[r] EXCEPT !.step = "verifyTag"]
<1>1. IsRun(runs[r]) /\ runs[r].status = "running"
      /\ UNCHANGED <<candidates, releases, attested>>
  BY DEF ReleaseInv, ReleaseShape, PushTag, At
<1>2. runs' = [runs EXCEPT ![r] = y]
  BY DEF PushTag, Go
<1>3. IsRun(y) /\ y.commit = runs[r].commit /\ y.step = "verifyTag"
  BY <1>1 DEF IsRun, RunFields
<1>. HIDE DEF y
<1>4. /\ \E S : runs' \in Seq(S)
      /\ DOMAIN runs' = DOMAIN runs
      /\ runs'[r] = y
      /\ \A q \in DOMAIN runs : q # r => runs'[q] = runs[q]
      /\ \A q \in DOMAIN runs' : IsRun(runs'[q])
  BY <1>2, <1>3, RunMoves DEF ReleaseInv
<1>5. \A v \in DOMAIN tags : v \in DOMAIN tags' /\ tags'[v] = tags[v]
  BY PushTagKeepsTags
<1>6. ReleaseShape'
  BY <1>1, <1>4 DEF ReleaseInv, ReleaseShape
<1>7. OneRunning'
  BY <1>1, <1>4, StillOneRunning
<1>8. Reconciling'
  BY <1>1, <1>3, <1>4, <1>5 DEF ReleaseInv, Reconciling
<1>9. BundlesReproduced'
  BY <1>1 DEF ReleaseInv, BundlesReproduced
<1>10. SelectionAttested'
  <2> SUFFICES ASSUME NEW q \in DOMAIN runs,
                      runs'[q].step \in {"publish", "reconcile"}
               PROVE  Selected(q)' \subseteq attested
    BY <1>1, <1>4 DEF SelectionAttested
  <2>1. q # r /\ runs'[q] = runs[q]
    BY <1>3, <1>4
  <2>2. Selected(q)' = Selected(q)
    BY <1>1, <2>1, SelectedSame
  <2>. QED
    BY <2>1, <2>2 DEF ReleaseInv, SelectionAttested
<1>11. AssetsOfOneBuild' /\ PublishedIsReproduced'
  BY <1>1, <1>3, <1>4, <1>5, ReleasesStay
<1>. QED
  BY <1>6, <1>7, <1>8, <1>9, <1>10, <1>11 DEF ReleaseInv

\* attest: of a run at "publish", the one bundle selected is attested.
LEMMA AttestKeeps ==
    ASSUME ReleaseInv, NEW r \in DOMAIN runs, Attest(r)
    PROVE  ReleaseInv'
<1> DEFINE y == [runs[r] EXCEPT !.step = "publish"]
<1>1. IsRun(runs[r]) /\ runs[r].status = "running"
      /\ UNCHANGED <<candidates, tags, releases>>
  BY DEF ReleaseInv, ReleaseShape, Attest, At
<1>2. runs' = [runs EXCEPT ![r] = y]
  BY DEF Attest, Go
<1>3. IsRun(y) /\ y.commit = runs[r].commit /\ y.version = runs[r].version
      /\ y.step = "publish"
  BY <1>1 DEF IsRun, RunFields
<1>. HIDE DEF y
<1>4. /\ \E S : runs' \in Seq(S)
      /\ DOMAIN runs' = DOMAIN runs
      /\ runs'[r] = y
      /\ \A q \in DOMAIN runs : q # r => runs'[q] = runs[q]
      /\ \A q \in DOMAIN runs' : IsRun(runs'[q])
  BY <1>2, <1>3, RunMoves DEF ReleaseInv
<1>5. PICK b \in Selected(r) : attested' = attested \cup {b}
  BY DEF Attest
<1>6. \A q \in DOMAIN runs : Selected(q)' = Selected(q)
  BY <1>1, <1>3, <1>4, SelectedSame
<1>7. Selected(r) = {b}
  <2>1. \A d, e \in Digests :
           Candidates(r, "bundle") = {d} /\ Candidates(r, "bundle") = {e} => d = e
    OBVIOUS
  <2>. QED
    BY <1>5, <2>1 DEF Selected
<1>8. ReleaseShape'
  BY <1>1, <1>4 DEF ReleaseInv, ReleaseShape
<1>9. OneRunning'
  BY <1>1, <1>4, StillOneRunning
<1>10. Reconciling'
  BY <1>1, <1>3, <1>4 DEF ReleaseInv, Reconciling
<1>11. BundlesReproduced'
  BY <1>1 DEF ReleaseInv, BundlesReproduced
<1>12. SelectionAttested'
  <2> SUFFICES ASSUME NEW q \in DOMAIN runs,
                      runs'[q].step \in {"publish", "reconcile"}
               PROVE  Selected(q) \subseteq attested'
    BY <1>4, <1>6 DEF SelectionAttested
  <2>1. CASE q = r
    BY <2>1, <1>5, <1>7
  <2>2. CASE q # r
    BY <2>2, <1>4, <1>5 DEF ReleaseInv, SelectionAttested
  <2>. QED
    BY <2>1, <2>2
<1>13. AssetsOfOneBuild' /\ PublishedIsReproduced'
  BY <1>1, <1>3, <1>4, <1>5, ReleasesStay
<1>. QED
  BY <1>8, <1>9, <1>10, <1>11, <1>12, <1>13 DEF ReleaseInv

\* The steps of the publish job: run r has release v under its own tag and
\* the others do not work on theirs.
LEMMA PublishJobKeeps ==
    ASSUME ReleaseInv, NEW r \in DOMAIN runs, runs[r].status = "running",
           runs[r].step \in {"publish", "reconcile"},
           NEW y, IsRun(y), runs' = [runs EXCEPT ![r] = y],
           y.commit = runs[r].commit, y.version = runs[r].version,
           y.step \in {"publish", "reconcile"},
           y.status \in {"running", "done"},
           runs[r].version \in DOMAIN tags,
           tags[runs[r].version] = runs[r].commit,
           NEW release, IsRelease(release), Store(runs[r].version, release),
           y.step = "reconcile" /\ y.status = "running" => release.draft,
           UNCHANGED <<candidates, tags, attested>>,
           NEW b, b \in attested, b.commit = runs[r].commit,
           HoldsBundle(release, runs[r].version, b)
    PROVE  ReleaseInv'
<1> DEFINE v == runs[r].version
<1>1. /\ \E S : runs' \in Seq(S)
      /\ DOMAIN runs' = DOMAIN runs
      /\ runs'[r] = y
      /\ \A q \in DOMAIN runs : q # r => runs'[q] = runs[q]
      /\ \A q \in DOMAIN runs' : IsRun(runs'[q])
  BY RunMoves DEF ReleaseInv
<1>2. /\ DOMAIN releases' = DOMAIN releases \cup {v}
      /\ releases'[v] = release
      /\ \A w \in DOMAIN releases : w # v => releases'[w] = releases[w]
  BY DEF Store
<1>3. \A q \in DOMAIN runs : Selected(q)' = Selected(q)
  BY <1>1, SelectedSame
<1>4. \A q \in DOMAIN runs : runs'[q].commit = runs[q].commit
  BY <1>1
<1>5. ReleaseShape'
  BY <1>1, <1>2 DEF ReleaseInv, ReleaseShape
<1>6. OneRunning'
  BY <1>1, StillOneRunning
<1>7. Reconciling'
  <2> SUFFICES ASSUME NEW q \in DOMAIN runs, runs'[q].step = "reconcile"
               PROVE  /\ runs'[q].status \in {"running", "done"}
                      /\ runs'[q].status = "running" =>
                            /\ runs'[q].version \in DOMAIN releases'
                            /\ releases'[runs'[q].version].draft
                      /\ runs'[q].version \in DOMAIN tags'
                      /\ tags'[runs'[q].version] = runs'[q].commit
    BY <1>1 DEF Reconciling
  <2>1. CASE q = r
    BY <2>1, <1>1, <1>2
  <2>2. CASE q # r
    <3>1. runs'[q] = runs[q] /\ runs[q].status # "running"
      BY <2>2, <1>1 DEF ReleaseInv, OneRunning
    <3>. QED
      BY <3>1 DEF ReleaseInv, Reconciling
  <2>. QED
    BY <2>1, <2>2
<1>8. BundlesReproduced'
  BY DEF ReleaseInv, BundlesReproduced
<1>9. SelectionAttested'
  BY <1>1, <1>3 DEF ReleaseInv, SelectionAttested
<1>. HIDE DEF v
<1>10. AssetsOfOneBuild'
  <2> SUFFICES ASSUME NEW w \in DOMAIN releases',
                      NEW m \in DOMAIN releases'[w].assets,
                      NEW n \in DOMAIN releases'[w].assets
               PROVE  /\ releases'[w].assets[m] = releases'[w].assets[n]
                      /\ w \in DOMAIN tags
                      /\ releases'[w].assets[n].commit = tags[w]
    BY DEF AssetsOfOneBuild
  <2>1. CASE w = v
    BY <2>1, <1>2 DEF v, HoldsBundle
  <2>2. CASE w # v
    BY <2>2, <1>2 DEF ReleaseInv, AssetsOfOneBuild
  <2>. QED
    BY <2>1, <2>2
<1>11. PublishedIsReproduced'
  <2> SUFFICES ASSUME NEW w \in DOMAIN releases', ~releases'[w].draft
               PROVE  /\ DOMAIN releases'[w].assets = AssetNames
                      /\ \A n \in AssetNames :
                           /\ releases'[w].assets[n] \in attested
                           /\ \A kind \in {"primary", "rebuild"} :
                                \E c \in candidates :
                                  /\ c.kind = kind /\ c.version = w
                                  /\ c.digest = releases'[w].assets[n].digest
                                  /\ runs'[c.run].commit =
                                       releases'[w].assets[n].commit
    BY DEF PublishedIsReproduced
  <2>1. \A c \in candidates : runs'[c.run].commit = runs[c.run].commit
    BY <1>4 DEF ReleaseInv, ReleaseShape
  <2>2. CASE w = v
    <3>1. DOMAIN releases'[w].assets = AssetNames
      BY <2>2, <1>2 DEF HoldsBundle
    <3>2. \A n \in AssetNames : releases'[w].assets[n] = b
      BY <2>2, <3>1, <1>2 DEF HoldsBundle
    <3>3. \A kind \in {"primary", "rebuild"} :
             \E c \in candidates :
                /\ c.kind = kind /\ c.version = w /\ c.digest = b.digest
                /\ runs'[c.run].commit = b.commit
      BY <2>1, <2>2, <1>2 DEF v, HoldsBundle, BuiltTwice
    <3>. QED
      BY <3>1, <3>2, <3>3
  <2>3. CASE w # v
    <3>1. w \in DOMAIN releases /\ releases'[w] = releases[w]
      BY <2>3, <1>2
    <3>2. /\ DOMAIN releases[w].assets = AssetNames
          /\ \A n \in AssetNames :
               /\ releases[w].assets[n] \in attested
               /\ \A kind \in {"primary", "rebuild"} :
                    \E c \in candidates :
                      /\ c.kind = kind /\ c.version = w
                      /\ c.digest = releases[w].assets[n].digest
                      /\ runs[c.run].commit = releases[w].assets[n].commit
      BY <3>1 DEF ReleaseInv, PublishedIsReproduced
    <3>. QED
      BY <2>1, <3>1, <3>2
  <2>. QED
    BY <2>2, <2>3
<1>. QED
  BY <1>5, <1>6, <1>7, <1>8, <1>9, <1>10, <1>11 DEF ReleaseInv

\* The bundle a run selects in its publish job: attested, of its commit, and
\* built twice.
LEMMA SelectedIsReproduced ==
    ASSUME ReleaseInv, NEW r \in DOMAIN runs,
           runs[r].step \in {"publish", "reconcile"}, NEW b \in Selected(r)
    PROVE  /\ b \in attested /\ b.commit = runs[r].commit
           /\ BuiltTwice(runs[r].version, b)
<1>1. b \in attested
  BY DEF ReleaseInv, SelectionAttested
<1>2. PICK d \in Digests : Candidates(r, "bundle") = {d} /\ b = BundleOf(r, d)
  BY DEF Selected
<1>3. b.commit = runs[r].commit /\ b.digest = d
  BY <1>2 DEF BundleOf
<1>4. d \in Candidates(r, "bundle")
  BY <1>2
<1>5. PICK e \in candidates : /\ e.run = r /\ e.kind = "bundle"
                              /\ e.version = runs[r].version /\ e.digest = d
  BY <1>4 DEF Candidates
<1>6. ASSUME NEW kind \in {"primary", "rebuild"}
      PROVE  \E c \in candidates :
                /\ c.kind = kind /\ c.version = runs[r].version
                /\ c.digest = b.digest /\ runs[c.run].commit = b.commit
  <2>1. PICK c \in candidates : /\ c.kind = kind /\ c.run = e.run
                                /\ c.version = e.version /\ c.digest = e.digest
    BY <1>5, <1>6 DEF ReleaseInv, BundlesReproduced
  <2>. QED
    BY <1>3, <1>5, <2>1
<1>. QED
  BY <1>1, <1>3, <1>6 DEF BuiltTwice

\* A draft that is there is taken up.
LEMMA TakeUpDraftKeeps ==
    ASSUME ReleaseInv, NEW r \in DOMAIN runs, At(r, "publish"),
           runs[r].version \in DOMAIN tags, TagAgrees(r),
           runs[r].version \in DOMAIN releases,
           releases[runs[r].version].draft, Go(r, "reconcile"),
           UNCHANGED <<releases, candidates, tags, attested>>
    PROVE  ReleaseInv'
<1> DEFINE y == [runs[r] EXCEPT !.step = "reconcile"]
<1>1. IsRun(runs[r]) /\ runs[r].status = "running" /\ runs[r].step = "publish"
      /\ tags[runs[r].version] = runs[r].commit
  BY DEF ReleaseInv, ReleaseShape, At, TagAgrees
<1>2. runs' = [runs EXCEPT ![r] = y]
  BY DEF Go
<1>3. IsRun(y) /\ y.commit = runs[r].commit /\ y.version = runs[r].version
      /\ y.step = "reconcile" /\ y.status = "running"
  BY <1>1 DEF IsRun, RunFields
<1>. HIDE DEF y
<1>4. /\ \E S : runs' \in Seq(S)
      /\ DOMAIN runs' = DOMAIN runs
      /\ runs'[r] = y
      /\ \A q \in DOMAIN runs : q # r => runs'[q] = runs[q]
      /\ \A q \in DOMAIN runs' : IsRun(runs'[q])
  BY <1>2, <1>3, RunMoves DEF ReleaseInv
<1>5. \A q \in DOMAIN runs : Selected(q)' = Selected(q)
  BY <1>3, <1>4, SelectedSame
<1>6. ReleaseShape'
  BY <1>4 DEF ReleaseInv, ReleaseShape
<1>7. OneRunning'
  BY <1>1, <1>4, StillOneRunning
<1>8. Reconciling'
  BY <1>1, <1>3, <1>4 DEF ReleaseInv, Reconciling
<1>9. BundlesReproduced'
  BY DEF ReleaseInv, BundlesReproduced
<1>10. SelectionAttested'
  BY <1>1, <1>4, <1>5 DEF ReleaseInv, SelectionAttested
<1>11. AssetsOfOneBuild' /\ PublishedIsReproduced'
  BY <1>3, <1>4, ReleasesStay
<1>. QED
  BY <1>6, <1>7, <1>8, <1>9, <1>10, <1>11 DEF ReleaseInv

LEMMA TakeUpReleaseKeeps ==
    ASSUME ReleaseInv, NEW r \in DOMAIN runs, TakeUpRelease(r)
    PROVE  ReleaseInv'
<1> DEFINE v == runs[r].version
<1>1. /\ IsRun(runs[r]) /\ runs[r].status = "running"
      /\ runs[r].step = "publish" /\ v \in DOMAIN tags
      /\ tags[v] = runs[r].commit /\ At(r, "publish") /\ TagAgrees(r)
      /\ UNCHANGED <<candidates, tags, attested>>
  BY DEF ReleaseInv, ReleaseShape, TakeUpRelease, At, TagAgrees
<1>2. PICK b \in Selected(r) :
         \/ /\ Store(v, [draft |-> TRUE, assets |-> [n \in {} |-> b]])
            /\ Go(r, "reconcile")
         \/ /\ v \in DOMAIN releases /\ releases[v].draft
            /\ Go(r, "reconcile") /\ UNCHANGED releases
         \/ Finish(r) /\ UNCHANGED releases
  BY DEF TakeUpRelease
<1>3. CASE Store(v, [draft |-> TRUE, assets |-> [n \in {} |-> b]])
           /\ Go(r, "reconcile")
  <2> DEFINE y == [runs[r] EXCEPT !.step = "reconcile"]
             release == [draft |-> TRUE, assets |-> [n \in {} |-> b]]
  <2>1. runs' = [runs EXCEPT ![r] = y]
    BY <1>3 DEF Go
  <2>2. IsRun(y) /\ y.commit = runs[r].commit /\ y.version = v
        /\ y.step = "reconcile" /\ y.status = "running"
    BY <1>1 DEF IsRun, RunFields
  <2>3. IsRelease(release) /\ release.draft /\ DOMAIN release.assets = {}
    BY DEF IsRelease
  <2>4. b \in attested /\ b.commit = runs[r].commit
    BY <1>1, SelectedIsReproduced
  <2>5. Store(v, release)
    BY <1>3
  <2>6. HoldsBundle(release, v, b)
    BY <2>3 DEF HoldsBundle
  <2>. HIDE DEF y, release
  <2>. QED
    BY <1>1, <2>1, <2>2, <2>3, <2>4, <2>5, <2>6, PublishJobKeeps
<1>4. CASE /\ v \in DOMAIN releases /\ releases[v].draft
           /\ Go(r, "reconcile") /\ UNCHANGED releases
  BY <1>1, <1>4, TakeUpDraftKeeps
<1>5. CASE Finish(r) /\ UNCHANGED releases
  <2> DEFINE y == [runs[r] EXCEPT !.status = "done"]
  <2>1. runs' = [runs EXCEPT ![r] = y]
    BY <1>5 DEF Finish
  <2>2. IsRun(y) /\ y.commit = runs[r].commit /\ y.version = v
        /\ y.step = "publish" /\ y.status = "done"
    BY <1>1 DEF IsRun, RunFields
  <2>. HIDE DEF y
  <2>. QED
    BY <1>1, <1>5, <2>1, <2>2, QuietRunKeeps
<1>. QED
  BY <1>2, <1>3, <1>4, <1>5

LEMMA UploadAssetKeeps ==
    ASSUME ReleaseInv, NEW r \in DOMAIN runs, NEW name \in AssetNames,
           UploadAsset(r, name)
    PROVE  ReleaseInv'
<1> DEFINE v == runs[r].version
           y == runs[r]
<1>1. /\ IsRun(y) /\ y.status = "running" /\ y.step = "reconcile"
      /\ UNCHANGED <<runs, candidates, tags, attested>>
  BY DEF ReleaseInv, ReleaseShape, UploadAsset, At
<1>2. /\ v \in DOMAIN releases /\ releases[v].draft
      /\ v \in DOMAIN tags /\ tags[v] = runs[r].commit
      /\ IsRelease(releases[v])
  BY <1>1 DEF ReleaseInv, Reconciling, ReleaseShape
<1>3. PICK b \in Selected(r) :
         /\ Agrees(releases[v].assets, b)
         /\ Store(v, [releases[v] EXCEPT !.assets =
                [n \in DOMAIN releases[v].assets \cup {name} |->
                   IF n = name THEN b ELSE releases[v].assets[n]]])
  BY DEF UploadAsset
<1> DEFINE files == [n \in DOMAIN releases[v].assets \cup {name} |->
                       IF n = name THEN b ELSE releases[v].assets[n]]
           release == [releases[v] EXCEPT !.assets = files]
<1>4. \A n \in DOMAIN files : files[n] = b
  BY <1>3 DEF Agrees
<1>. HIDE DEF files
<1>5. IsRelease(release) /\ release.draft /\ release.assets = files
  BY <1>2 DEF IsRelease
<1>6. b \in attested /\ b.commit = runs[r].commit
  BY <1>1, SelectedIsReproduced
<1>7. Store(v, release)
  BY <1>3 DEF files
<1>8. runs' = [runs EXCEPT ![r] = y]
  <2>1. PICK S : runs \in Seq(S)
    BY DEF ReleaseInv, ReleaseShape
  <2>. QED
    BY <1>1, <2>1
<1>9. HoldsBundle(release, v, b)
  BY <1>4, <1>5 DEF HoldsBundle
<1>. HIDE DEF release
<1>. QED
  BY <1>1, <1>2, <1>5, <1>6, <1>7, <1>8, <1>9, PublishJobKeeps

LEMMA PublishReleaseKeeps ==
    ASSUME ReleaseInv, NEW r \in DOMAIN runs, PublishRelease(r)
    PROVE  ReleaseInv'
<1> DEFINE v == runs[r].version
           y == [runs[r] EXCEPT !.status = "done"]
           release == [draft |-> FALSE, assets |-> releases[v].assets]
<1>1. /\ IsRun(runs[r]) /\ runs[r].status = "running"
      /\ runs[r].step = "reconcile" /\ UNCHANGED <<candidates, tags, attested>>
  BY DEF ReleaseInv, ReleaseShape, PublishRelease, At
<1>2. v \in DOMAIN tags /\ tags[v] = runs[r].commit
  BY <1>1 DEF ReleaseInv, Reconciling
<1>3. runs' = [runs EXCEPT ![r] = y]
  BY DEF PublishRelease, Finish
<1>4. IsRun(y) /\ y.commit = runs[r].commit /\ y.version = v
      /\ y.step = "reconcile" /\ y.status = "done"
  BY <1>1 DEF IsRun, RunFields
<1>5. PICK b \in Selected(r) :
         Identical(releases[v].assets, b) /\ Store(v, release)
  BY DEF PublishRelease
<1>6. IsRelease(release) /\ ~release.draft /\ release.assets = releases[v].assets
  BY DEF IsRelease
<1>. HIDE DEF y, release
<1>7. DOMAIN release.assets = AssetNames
      /\ \A n \in DOMAIN release.assets : release.assets[n] = b
  BY <1>5, <1>6 DEF Identical
<1>8. /\ b \in attested /\ b.commit = runs[r].commit
      /\ BuiltTwice(v, b)
  BY <1>1, SelectedIsReproduced
<1>9. /\ runs[r].step \in {"publish", "reconcile"}
      /\ y.step \in {"publish", "reconcile"} /\ y.status \in {"running", "done"}
      /\ (y.step = "reconcile" /\ y.status = "running" => release.draft)
  BY <1>1, <1>4
<1>10. HoldsBundle(release, v, b)
  BY <1>7, <1>8 DEF HoldsBundle
<1>. QED
  BY <1>1, <1>2, <1>3, <1>4, <1>5, <1>6, <1>8, <1>9, <1>10, PublishJobKeeps

LEMMA ReleaseNextKeeps ==
    ASSUME ReleaseInv, [ReleaseNext]_releaseVars
    PROVE  ReleaseInv'
<1>1. CASE UNCHANGED releaseVars
  <2>1. UNCHANGED <<runs, candidates, tags, releases, attested>>
    BY <1>1 DEF releaseVars
  <2>2. \A r : Selected(r)' = Selected(r)
    BY <2>1, SelectedSame
  <2>. QED
    BY <2>1, <2>2 DEF ReleaseInv, ReleaseShape, OneRunning, Reconciling,
       BundlesReproduced, SelectionAttested, AssetsOfOneBuild,
       PublishedIsReproduced
<1>2. CASE ReleaseNext
  BY <1>2, PushKeeps, TriggerKeeps, BeginKeeps, RerunAllKeeps, FailRunKeeps,
     PlanKeeps, AssembleKeeps, PushTagKeeps, VerifyTagKeeps, AttestKeeps,
     TakeUpReleaseKeeps, PublishReleaseKeeps, BuildKeeps, UploadAssetKeeps
     DEF ReleaseNext
<1>. QED
  BY <1>1, <1>2

\* However jobs fail, are continued with old plans and started over, a
\* release never mixes two builds and what is published was attested and
\* reproduced, for any number of commits, runs and failures.
THEOREM PublishedAlwaysOneBuild == ReleaseSpec => []PublishedIsOneBuild
<1>1. ReleaseInv => PublishedIsOneBuild
  BY DEF ReleaseInv, PublishedIsOneBuild
<1>. QED
  BY ReleaseInitInv, ReleaseNextKeeps, <1>1, PTL DEF ReleaseSpec

\* Storing a release that is a draft.
LEMMA PublishedReleasesStay ==
    ASSUME ReleaseInv, NEW r \in DOMAIN runs, NEW release,
           Store(runs[r].version, release),
           \/ runs[r].version \notin DOMAIN releases
           \/ runs[r].status = "running" /\ runs[r].step = "reconcile"
    PROVE  \A v \in DOMAIN releases : ~releases[v].draft =>
              v \in DOMAIN releases' /\ releases'[v] = releases[v]
BY DEF ReleaseInv, Reconciling, Store

\* No step of any run moves or removes a tag or changes what is published:
\* ensure_annotated_tag refuses a tag of another commit, and the publish job
\* stores only over a draft.
THEOREM ReleasesStayImmutable == ReleaseSpec => ReleasesImmutable
<1> DEFINE TagsStay == \A v \in DOMAIN tags : v \in DOMAIN tags' /\ tags'[v] = tags[v]
           PublishedStay == \A v \in DOMAIN releases : ~releases[v].draft =>
              v \in DOMAIN releases' /\ releases'[v] = releases[v]
<1>1. ASSUME ReleaseInv, [ReleaseNext]_releaseVars
      PROVE  TagsStay /\ PublishedStay
  <2>1. CASE UNCHANGED <<tags, releases>>
    BY <2>1
  <2>2. ASSUME NEW r \in DOMAIN runs, PushTag(r)
        PROVE  TagsStay /\ PublishedStay
    BY <2>2, PushTagKeepsTags DEF PushTag
  <2>3. ASSUME NEW r \in DOMAIN runs, TakeUpRelease(r)
        PROVE  TagsStay /\ PublishedStay
    <3>1. TagsStay
      BY <2>3 DEF TakeUpRelease
    <3>2. UNCHANGED releases \/
          \E release : /\ runs[r].version \notin DOMAIN releases
                       /\ Store(runs[r].version, release)
      BY <2>3 DEF TakeUpRelease
    <3>. QED
      BY <1>1, <3>1, <3>2, PublishedReleasesStay
  <2>4. ASSUME NEW r \in DOMAIN runs, NEW name \in AssetNames,
               UploadAsset(r, name)
        PROVE  TagsStay /\ PublishedStay
    <3>1. TagsStay
      BY <2>4 DEF UploadAsset
    <3>2. /\ runs[r].status = "running" /\ runs[r].step = "reconcile"
          /\ \E release : Store(runs[r].version, release)
      BY <2>4 DEF UploadAsset, At
    <3>. QED
      BY <1>1, <3>1, <3>2, PublishedReleasesStay
  <2>5. ASSUME NEW r \in DOMAIN runs, PublishRelease(r)
        PROVE  TagsStay /\ PublishedStay
    <3>1. TagsStay
      BY <2>5 DEF PublishRelease
    <3>2. /\ runs[r].status = "running" /\ runs[r].step = "reconcile"
          /\ \E release : Store(runs[r].version, release)
      BY <2>5 DEF PublishRelease, At
    <3>. QED
      BY <1>1, <3>1, <3>2, PublishedReleasesStay
  <2>6. CASE ReleaseNext
    <3>1. \/ UNCHANGED <<tags, releases>>
          \/ \E r \in DOMAIN runs :
               \/ PushTag(r) \/ TakeUpRelease(r) \/ PublishRelease(r)
               \/ \E name \in AssetNames : UploadAsset(r, name)
      BY <2>6 DEF ReleaseNext, Push, Trigger, Begin, RerunAll, FailRun, Plan,
         Assemble, VerifyTag, Attest, Build
    <3>. QED
      BY <3>1, <2>1, <2>2, <2>3, <2>4, <2>5
  <2>7. CASE UNCHANGED releaseVars
    BY <2>7 DEF releaseVars
  <2>. QED
    BY <1>1, <2>6, <2>7
<1>. QED
  BY <1>1, ReleaseInitInv, ReleaseNextKeeps, PTL DEF ReleaseSpec, ReleasesImmutable

-----------------------------------------------------------------------------
(***************************************************************************)
(* The history of versions                                                 *)
(*                                                                         *)
(* A run that failed may push the tag of an old plan after later commits   *)
(* were released.  The inductive invariant therefore says the same of the  *)
(* tags and of the plans that may still become tags: a version follows the *)
(* last tag before its commit.  A tag pushed late between the two raises   *)
(* that tag by less than the version does, since it would have the same    *)
(* name otherwise, and then the version follows the new tag as well.       *)
(***************************************************************************)

Effects == {"none", "patch", "minor", "major"}
Versions == Nat \X Nat \X Nat

\* The commit a version was released from, 0 for the version before all.
From(p) == IF p \in DOMAIN tags THEN tags[p] ELSE 0

\* Version p is the last one released before commit c.
IsPrevious(p, c) ==
    /\ p \in DOMAIN tags \cup {NoPlan} /\ From(p) < c
    /\ \A w \in DOMAIN tags : tags[w] < c => tags[w] <= From(p)

\* Version v tells what changed between the last release and commit c.
Follows(v, c) ==
    \E p \in DOMAIN tags \cup {NoPlan} :
        LET kind == Classify(From(p) + 1..c)
        IN  IsPrevious(p, c) /\ kind # "none" /\ v = Bump(p, kind)

\* A plan that may still become a tag.
Pending(v, c) ==
    /\ v \in Versions /\ c \in 1..Len(main) /\ Follows(v, c)
    /\ \A w \in DOMAIN tags : tags[w] # c /\ (tags[w] > c => Older(v, w))

TagsTell ==
    /\ \A v \in DOMAIN tags : /\ v \in Versions /\ tags[v] \in 1..Len(main)
                              /\ Follows(v, tags[v])
    /\ NoPlan \notin DOMAIN tags

TagsOrdered ==
    \A v, w \in DOMAIN tags : /\ tags[v] = tags[w] => v = w
                              /\ tags[v] < tags[w] => Older(v, w)

HasNewest ==
    \/ DOMAIN tags = {}
    \/ \E v \in DOMAIN tags : \A w \in DOMAIN tags : tags[w] <= tags[v]

\* What a run has planned is a tag already or may become one.
PlanFits(run) ==
    /\ run.commit \in 1..Len(main)
    /\ run.step # "plan" => run.version # NoPlan
    /\ run.version # NoPlan =>
          run.version \in DOMAIN tags \/ Pending(run.version, run.commit)

\* The tags form a history.
History ==
    /\ main \in Seq(Effects) /\ TagsTell /\ TagsOrdered /\ HasNewest

HistoryInv ==
    /\ History
    /\ \A r \in DOMAIN runs : PlanFits(runs[r])

-----------------------------------------------------------------------------
(***************************************************************************)
(* Versions and effects                                                    *)
(***************************************************************************)

LEMMA OlderIsOrder ==
    ASSUME NEW u \in Versions, NEW v \in Versions
    PROVE  /\ ~(Older(u, v) /\ (Older(v, u) \/ u = v))
           /\ u = v \/ Older(u, v) \/ Older(v, u)
           /\ \A w \in Versions : Older(u, v) /\ Older(v, w) => Older(u, w)
<1>1. /\ ~(Older(u, v) /\ (Older(v, u) \/ u = v))
      /\ u = v \/ Older(u, v) \/ Older(v, u)
  BY DEF Older, Versions
<1>2. ASSUME NEW w \in Versions, Older(u, v), Older(v, w)
      PROVE  Older(u, w)
  BY <1>2 DEF Older, Versions
<1>. QED
  BY <1>1, <1>2

LEMMA NothingBeforeNoPlan == \A v \in Versions : ~Older(v, NoPlan)
BY DEF Older, NoPlan, Versions

LEMMA BumpRises ==
    ASSUME NEW v \in Versions, NEW k \in Effects \ {"none"}
    PROVE  Bump(v, k) \in Versions /\ Older(v, Bump(v, k))
BY DEF Bump, Older, Versions, Effects

\* The greater effect wins, whether or not the smaller one is released first.
LEMMA BumpAbsorbs ==
    ASSUME NEW v \in Versions, NEW k \in Effects \ {"none"},
           NEW l \in Effects \ {"none"}, Rank(k) < Rank(l)
    PROVE  Bump(Bump(v, k), l) = Bump(v, l) /\ Older(Bump(v, k), Bump(v, l))
BY DEF Bump, Older, Versions, Effects, Rank

LEMMA RankIsOrder ==
    ASSUME NEW k \in Effects, NEW l \in Effects
    PROVE  /\ Rank(k) \in Nat /\ (Rank(k) = Rank(l) => k = l)
           /\ Rank("none") = 0
BY DEF Effects, Rank

Greatest(kinds) == CHOOSE k \in kinds : \A l \in kinds : Rank(l) <= Rank(k)

LEMMA GreatestIs ==
    ASSUME NEW kinds \in SUBSET Effects, NEW k \in kinds,
           \A l \in kinds : Rank(l) <= Rank(k)
    PROVE  Greatest(kinds) = k
<1>1. /\ Greatest(kinds) \in kinds
      /\ \A l \in kinds : Rank(l) <= Rank(Greatest(kinds))
  BY DEF Greatest
<1>. QED
  BY <1>1, RankIsOrder

LEMMA GreatestExists ==
    ASSUME NEW kinds \in SUBSET Effects, kinds # {}
    PROVE  /\ Greatest(kinds) \in kinds
           /\ \A l \in kinds : Rank(l) <= Rank(Greatest(kinds))
<1>1. \E k \in kinds : \A l \in kinds : Rank(l) <= Rank(k)
  <2>1. CASE "major" \in kinds
    BY <2>1 DEF Effects, Rank
  <2>2. CASE "major" \notin kinds /\ "minor" \in kinds
    BY <2>2 DEF Effects, Rank
  <2>3. CASE "major" \notin kinds /\ "minor" \notin kinds /\ "patch" \in kinds
    BY <2>3 DEF Effects, Rank
  <2>4. CASE kinds \subseteq {"none"}
    BY <2>4 DEF Effects, Rank
  <2>. QED
    BY <2>1, <2>2, <2>3, <2>4 DEF Effects
<1>. QED
  BY <1>1 DEF Greatest

EffectsOf(commits) == {main[c] : c \in commits} \cup {"none"}

LEMMA ClassifyIsGreatest ==
    \A commits : Classify(commits) = Greatest(EffectsOf(commits))
BY DEF Classify, Greatest, EffectsOf

LEMMA ClassifyProperties ==
    ASSUME main \in Seq(Effects), NEW commits \in SUBSET (1..Len(main))
    PROVE  /\ Classify(commits) \in Effects
           /\ \A c \in commits : /\ main[c] \in Effects
                                 /\ Rank(main[c]) <= Rank(Classify(commits))
           /\ Classify(commits) = "none"
                \/ \E c \in commits : main[c] = Classify(commits)
<1>1. \A c \in commits : main[c] \in Effects
  OBVIOUS
<1>2. EffectsOf(commits) \in SUBSET Effects /\ EffectsOf(commits) # {}
  BY <1>1 DEF EffectsOf, Effects
<1>3. /\ Classify(commits) \in EffectsOf(commits)
      /\ \A l \in EffectsOf(commits) : Rank(l) <= Rank(Classify(commits))
  BY <1>2, GreatestExists, ClassifyIsGreatest
<1>. QED
  BY <1>1, <1>2, <1>3 DEF EffectsOf

\* The effect of a range of commits and of its two parts.
LEMMA ClassifySplits ==
    ASSUME main \in Seq(Effects), NEW a \in Nat, NEW b \in Nat, NEW c \in Nat,
           a <= b, b <= c, c <= Len(main)
    PROVE  /\ Rank(Classify(a + 1..b)) <= Rank(Classify(a + 1..c))
           /\ Classify(a + 1..b) # Classify(a + 1..c) =>
                 Classify(b + 1..c) = Classify(a + 1..c)
<1> DEFINE A == a + 1..b
           B == b + 1..c
           C == a + 1..c
<1>1. /\ A \in SUBSET (1..Len(main)) /\ B \in SUBSET (1..Len(main))
      /\ C \in SUBSET (1..Len(main)) /\ C = A \cup B
  BY LenProperties
<1>. HIDE DEF A, B, C
<1>2. /\ Classify(A) \in Effects /\ Classify(B) \in Effects
      /\ Classify(C) \in Effects
      /\ Rank(Classify(A)) \in Nat /\ Rank(Classify(B)) \in Nat
      /\ Rank(Classify(C)) \in Nat
  BY <1>1, ClassifyProperties, RankIsOrder
<1>3. Rank(Classify(A)) <= Rank(Classify(C))
      /\ Rank(Classify(B)) <= Rank(Classify(C))
  <2>1. ASSUME NEW S \in {A, B} PROVE Rank(Classify(S)) <= Rank(Classify(C))
    <3>1. CASE Classify(S) = "none"
      BY <3>1, <1>2, RankIsOrder
    <3>2. CASE \E n \in S : main[n] = Classify(S)
      BY <3>2, <1>1, ClassifyProperties
    <3>. QED
      BY <3>1, <3>2, <1>1, ClassifyProperties
  <2>. QED
    BY <2>1
<1>4. ASSUME Classify(A) # Classify(C) PROVE Classify(B) = Classify(C)
  <2>1. Rank(Classify(A)) < Rank(Classify(C))
    BY <1>2, <1>3, <1>4, RankIsOrder
  <2>2. Classify(C) # "none"
    BY <2>1, <1>2, RankIsOrder
  <2>3. PICK n \in C : main[n] = Classify(C)
    BY <1>1, <2>2, ClassifyProperties
  <2>4. n \in B
    BY <1>1, <1>2, <2>1, <2>3, ClassifyProperties
  <2>5. Rank(Classify(C)) <= Rank(Classify(B))
    BY <1>1, <2>3, <2>4, ClassifyProperties
  <2>. QED
    BY <1>2, <1>3, <2>5, RankIsOrder
<1>. QED
  BY <1>3, <1>4 DEF A, B, C

\* Commits keep their effects when others are pushed.
LEMMA ClassifyStays ==
    ASSUME NEW commits, \A c \in commits : main'[c] = main[c]
    PROVE  Classify(commits)' = Classify(commits)
<1>1. EffectsOf(commits)' = EffectsOf(commits)
  BY DEF EffectsOf
<1>2. Classify(commits)' = Greatest(EffectsOf(commits)')
  BY DEF Classify, Greatest, EffectsOf
<1>. QED
  BY <1>1, <1>2, ClassifyIsGreatest

LEMMA NewestIs ==
    ASSUME NEW S \in SUBSET Versions, NEW v \in S,
           \A w \in S : w # v => Older(w, v)
    PROVE  Newest(S) = v
<1>1. /\ Newest(S) \in S /\ \A w \in S \ {Newest(S)} : Older(w, Newest(S))
  BY DEF Newest
<1>. QED
  BY <1>1, OlderIsOrder

-----------------------------------------------------------------------------
(***************************************************************************)
(* The tags                                                                *)
(***************************************************************************)

\* Version v has its place among the tags at commit c: no other tag there,
\* and only newer ones later.
Placed(v, c) ==
    \A w \in DOMAIN tags : /\ tags[w] = c => w = v
                           /\ tags[w] > c => Older(v, w)

\* Version v is p raised by the effect of what follows p, up to commit c.
Raises(v, p, c) ==
    /\ IsPrevious(p, c) /\ Classify(From(p) + 1..c) # "none"
    /\ v = Bump(p, Classify(From(p) + 1..c))

LEMMA PreviousFacts ==
    ASSUME History, NEW c \in 1..Len(main), NEW p, IsPrevious(p, c)
    PROVE  /\ p \in Versions /\ From(p) \in 0..(c - 1) /\ c \in Nat
           /\ c <= Len(main) /\ Len(main) \in Nat
           /\ \A q : IsPrevious(q, c) => q = p
           /\ Classify(From(p) + 1..c) \in Effects
<1>1. Len(main) \in Nat /\ c \in Nat /\ c <= Len(main)
  BY LenProperties DEF History
<1>2. p \in Versions /\ From(p) \in 0..(c - 1)
  BY <1>1 DEF History, TagsTell, IsPrevious, From, NoPlan, Versions
<1>3. ASSUME NEW q, IsPrevious(q, c) PROVE q = p
  BY <1>1, <1>3 DEF History, TagsTell, TagsOrdered, IsPrevious, From
<1>4. From(p) + 1..c \in SUBSET (1..Len(main))
  BY <1>1, <1>2
<1>5. Classify(From(p) + 1..c) \in Effects
  BY <1>4, ClassifyProperties DEF History
<1>. QED
  BY <1>1, <1>2, <1>3, <1>5

LEMMA RaisesFacts ==
    ASSUME History, NEW c \in 1..Len(main), NEW p, NEW v, Raises(v, p, c)
    PROVE  v \in Versions /\ Older(p, v)
BY PreviousFacts, BumpRises DEF Raises

LEMMA FollowsRaises ==
    ASSUME NEW v, NEW c, Follows(v, c)
    PROVE  \E p : Raises(v, p, c)
BY DEF Follows, Raises

\* Two versions of the same commit are the same; of two that follow the same
\* release, the later one is the newer one and follows the earlier one too.
LEMMA SamePrevious ==
    ASSUME History, NEW p, NEW u, NEW v, NEW b \in 1..Len(main),
           NEW c \in 1..Len(main), Raises(u, p, b), Raises(v, p, c), b <= c
    PROVE  /\ b = c => u = v
           /\ u # v => /\ Older(u, v) /\ Classify(b + 1..c) # "none"
                       /\ v = Bump(u, Classify(b + 1..c))
<1> DEFINE a == From(p)
           k == Classify(a + 1..b)
           l == Classify(a + 1..c)
<1>1. /\ p \in Versions /\ a \in Nat /\ b \in Nat /\ c \in Nat /\ a <= b
      /\ c <= Len(main) /\ k \in Effects \ {"none"} /\ l \in Effects \ {"none"}
      /\ u = Bump(p, k) /\ v = Bump(p, l)
  BY PreviousFacts DEF Raises
<1>. HIDE DEF a
<1>2. Rank(k) <= Rank(l) /\ (k # l => Classify(b + 1..c) = l)
  BY <1>1, ClassifySplits DEF History
<1>3. b = c => u = v
  BY <1>1
<1>4. ASSUME u # v
      PROVE  /\ Older(u, v) /\ Classify(b + 1..c) # "none"
             /\ v = Bump(u, Classify(b + 1..c))
  <2>1. k # l
    BY <1>1, <1>4
  <2>. HIDE DEF k, l
  <2>2. Rank(k) < Rank(l)
    BY <1>1, <1>2, <2>1, RankIsOrder
  <2>. QED
    BY <1>1, <1>2, <2>1, <2>2, BumpAbsorbs
<1>. QED
  BY <1>3, <1>4

LEMMA NewestTag ==
    ASSUME History, DOMAIN tags # {}
    PROVE  \E v \in DOMAIN tags :
              /\ Newest(DOMAIN tags) = v
              /\ \A w \in DOMAIN tags :
                    tags[w] <= tags[v] /\ (w # v => Older(w, v))
<1>1. PICK v \in DOMAIN tags : \A w \in DOMAIN tags : tags[w] <= tags[v]
  BY DEF History, HasNewest
<1>2. \A w \in DOMAIN tags : tags[w] \in Nat /\ w \in Versions
  BY DEF History, TagsTell
<1>3. \A w \in DOMAIN tags : w # v => Older(w, v)
  BY <1>1, <1>2 DEF History, TagsOrdered
<1>4. Newest(DOMAIN tags) = v
  BY <1>2, <1>3, NewestIs
<1>. QED
  BY <1>1, <1>3, <1>4

-----------------------------------------------------------------------------
(***************************************************************************)
(* A tag is pushed, perhaps late                                           *)
(***************************************************************************)

Inserted(u, d) ==
    /\ u \notin DOMAIN tags /\ main' = main
    /\ tags' = [w \in DOMAIN tags \cup {u} |-> IF w = u THEN d ELSE tags[w]]

\* A version that has its place keeps it, and follows the new tag if that is
\* now the last one before it.
LEMMA InsertionKeeps ==
    ASSUME History, NEW u, NEW d, Pending(u, d), Inserted(u, d),
           NEW v, NEW c \in 1..Len(main), v # u, Follows(v, c), Placed(v, c)
    PROVE  /\ c # d /\ Follows(v, c)'
           /\ c < d => Older(v, u)
           /\ d < c => Older(u, v)
<1>1. PICK p : Raises(v, p, c)
  BY FollowsRaises
<1>2. PICK q : Raises(u, q, d)
  BY FollowsRaises DEF Pending
<1>3. /\ IsPrevious(p, c) /\ IsPrevious(q, d) /\ d \in 1..Len(main)
      /\ c \in Nat /\ d \in Nat /\ c <= Len(main) /\ d <= Len(main)
      /\ p \in Versions /\ q \in Versions /\ u \in Versions /\ v \in Versions
      /\ From(p) \in Nat /\ From(q) \in Nat /\ From(p) < c /\ From(q) < d
      /\ Older(p, v) /\ Older(q, u)
  BY <1>1, <1>2, PreviousFacts, RaisesFacts DEF Raises, Pending
<1>4. c # d
  <2>1. SUFFICES ASSUME c = d PROVE FALSE
    OBVIOUS
  <2>2. p = q
    BY <1>3, <2>1, PreviousFacts
  <2>3. Raises(u, p, c) /\ c <= c
    BY <1>2, <1>3, <2>1, <2>2
  <2>4. u = v
    BY <1>1, <2>3 DEF Raises
  <2>. QED
    BY <2>4
<1>5. \A w \in DOMAIN tags : w \in DOMAIN tags' /\ tags'[w] = tags[w] /\ w # u
  BY DEF Inserted
<1>6. u \in DOMAIN tags' /\ tags'[u] = d
      /\ \A w \in DOMAIN tags' : w \in DOMAIN tags \/ w = u
  BY DEF Inserted
<1>7. \A S : Classify(S)' = Classify(S)
  BY ClassifyStays DEF Inserted
<1>8. u # NoPlan
  BY <1>3, NothingBeforeNoPlan
<1>9. CASE c < d
  <2>1. From(p)' = From(p) /\ IsPrevious(p, c)'
    BY <1>3, <1>5, <1>6, <1>8, <1>9 DEF IsPrevious, From
  <2>2. Follows(v, c)'
    BY <1>1, <1>7, <2>1 DEF Follows, Raises, IsPrevious
  <2>3. CASE From(q) < c
    <3>1. IsPrevious(q, c)
      BY <1>3, <1>9, <2>3 DEF IsPrevious, History, TagsTell
    <3>2. p = q
      BY <1>3, <3>1, PreviousFacts
    <3>. QED
      BY <1>1, <1>2, <1>3, <1>4, <1>9, <2>2, <3>2, SamePrevious
  <2>4. CASE ~(From(q) < c)
    <3>1. q \in DOMAIN tags /\ tags[q] = From(q)
      BY <1>3, <2>4 DEF From
    <3>2. q = v \/ Older(v, q)
      BY <1>3, <2>4, <3>1 DEF Placed
    <3>3. Older(v, u)
      BY <1>3, <3>2, OlderIsOrder
    <3>. QED
      BY <1>3, <1>4, <1>9, <2>2, <3>3
  <2>. QED
    BY <2>3, <2>4
<1>10. CASE d < c
  <2>1. CASE From(p) < d
    <3>1. IsPrevious(p, d)
      BY <1>3, <1>10, <2>1 DEF IsPrevious, History, TagsTell
    <3>2. p = q
      BY <1>3, <3>1, PreviousFacts
    <3>3. /\ Older(u, v) /\ Classify(d + 1..c) # "none"
          /\ v = Bump(u, Classify(d + 1..c))
      BY <1>1, <1>2, <1>3, <1>10, <3>2, SamePrevious
    <3>4. From(u)' = d /\ IsPrevious(u, c)'
      BY <1>3, <1>5, <1>6, <1>10, <2>1 DEF IsPrevious, From, History, TagsTell
    <3>5. Follows(v, c)'
      BY <1>6, <1>7, <3>3, <3>4 DEF Follows
    <3>. QED
      BY <1>3, <1>10, <3>3, <3>5
  <2>2. CASE ~(From(p) < d)
    <3>1. p \in DOMAIN tags /\ tags[p] = From(p)
      BY <1>3, <2>2 DEF From
    <3>2. tags[p] > d
      BY <1>3, <2>2, <3>1 DEF Pending
    <3>3. Older(u, v)
      BY <1>3, <3>1, <3>2, OlderIsOrder DEF Pending
    <3>4. From(p)' = From(p) /\ IsPrevious(p, c)'
      BY <1>3, <1>5, <1>6, <3>1, <3>2 DEF IsPrevious, From, History, TagsTell
    <3>5. Follows(v, c)'
      BY <1>1, <1>7, <3>4 DEF Follows, Raises, IsPrevious
    <3>. QED
      BY <1>3, <1>10, <3>3, <3>5
  <2>. QED
    BY <2>1, <2>2
<1>. QED
  BY <1>3, <1>4, <1>9, <1>10

\* A plan becomes a tag: the tags still form a history, and what other runs
\* have planned still fits.
LEMMA PushedTagFits ==
    ASSUME HistoryInv, NEW u, NEW d, Pending(u, d), Inserted(u, d)
    PROVE  /\ History'
           /\ \A run : PlanFits(run) => PlanFits(run)'
<1>1. History /\ u \in Versions /\ d \in 1..Len(main) /\ d \in Nat
      /\ Len(main) \in Nat
  BY LenProperties DEF HistoryInv, History, Pending
<1>2. /\ \A w \in DOMAIN tags : /\ w \in DOMAIN tags' /\ tags'[w] = tags[w]
                                /\ w # u
      /\ u \in DOMAIN tags' /\ tags'[u] = d /\ main' = main
      /\ \A w \in DOMAIN tags' : w \in DOMAIN tags \/ w = u
  BY DEF Inserted
<1>3. /\ \A w \in DOMAIN tags : /\ w \in Versions /\ tags[w] \in 1..Len(main)
                                /\ tags[w] \in Nat /\ Follows(w, tags[w])
                                /\ tags[w] # d
      /\ NoPlan \notin DOMAIN tags
  BY <1>1 DEF History, TagsTell, Pending
<1>4. \A w \in DOMAIN tags : Placed(w, tags[w])
  BY <1>1 DEF Placed, History, TagsOrdered
<1>5. \A w \in DOMAIN tags : /\ Follows(w, tags[w])'
                             /\ tags[w] < d => Older(w, u)
                             /\ d < tags[w] => Older(u, w)
  <2> SUFFICES ASSUME NEW w \in DOMAIN tags
               PROVE  /\ Follows(w, tags[w])'
                      /\ tags[w] < d => Older(w, u)
                      /\ d < tags[w] => Older(u, w)
    OBVIOUS
  <2>1. PICK c : c = tags[w]
    OBVIOUS
  <2>2. c \in 1..Len(main) /\ Follows(w, c) /\ Placed(w, c) /\ w # u
    BY <1>2, <1>3, <1>4, <2>1
  <2>3. Follows(w, c)' /\ (c < d => Older(w, u)) /\ (d < c => Older(u, w))
    BY <1>1, <2>2, InsertionKeeps
  <2>4. c = tags'[w]
    BY <1>2, <2>1
  <2>. QED
    BY <2>1, <2>3, <2>4
<1>6. Follows(u, d)'
  <2>1. PICK p : Raises(u, p, d)
    BY FollowsRaises DEF Pending
  <2>2. IsPrevious(p, d) /\ Older(p, u) /\ p \in Versions
    BY <1>1, <2>1, PreviousFacts, RaisesFacts DEF Raises
  <2>3. p # u
    BY <1>1, <2>2, OlderIsOrder
  <2>4. From(p)' = From(p) /\ IsPrevious(p, d)'
    BY <1>1, <1>2, <2>2, <2>3 DEF IsPrevious, From
  <2>5. \A S : Classify(S)' = Classify(S)
    BY <1>2, ClassifyStays
  <2>. QED
    BY <2>1, <2>4, <2>5 DEF Follows, Raises, IsPrevious
<1>7. NoPlan \notin DOMAIN tags'
  <2>1. PICK p : Raises(u, p, d)
    BY FollowsRaises DEF Pending
  <2>2. Older(p, u) /\ p \in Versions
    BY <1>1, <2>1, PreviousFacts, RaisesFacts DEF Raises
  <2>3. u # NoPlan
    BY <2>2, NothingBeforeNoPlan
  <2>. QED
    BY <1>2, <1>3, <2>3
<1>8. TagsTell'
  <2>1. ASSUME NEW w \in DOMAIN tags'
        PROVE  /\ w \in Versions /\ tags'[w] \in 1..Len(main')
               /\ Follows(w, tags[w])'
    <3>1. CASE w \in DOMAIN tags
      BY <1>2, <1>3, <1>5, <3>1
    <3>2. CASE w = u
      <4>1. Follows(w, tags[w])'
        BY <1>2, <1>6, <3>2
      <4>. QED
        BY <1>1, <1>2, <3>2, <4>1
    <3>. QED
      BY <1>2, <3>1, <3>2
  <2>. QED
    BY <1>7, <2>1 DEF TagsTell
<1>9. TagsOrdered'
  <2> SUFFICES ASSUME NEW v \in DOMAIN tags', NEW w \in DOMAIN tags'
               PROVE  /\ tags'[v] = tags'[w] => v = w
                      /\ tags'[v] < tags'[w] => Older(v, w)
    BY DEF TagsOrdered
  <2>1. CASE v = u /\ w = u
    BY <1>1, <1>2, <2>1
  <2>2. CASE v = u /\ w # u
    BY <1>1, <1>2, <1>3, <1>5, <2>2
  <2>3. CASE v # u /\ w = u
    BY <1>1, <1>2, <1>3, <1>5, <2>3
  <2>4. CASE v # u /\ w # u
    BY <1>1, <1>2, <2>4 DEF History, TagsOrdered
  <2>. QED
    BY <2>1, <2>2, <2>3, <2>4
<1>10. HasNewest'
  <2>1. CASE DOMAIN tags = {}
    BY <1>1, <1>2, <2>1 DEF HasNewest
  <2>2. CASE DOMAIN tags # {}
    <3>1. PICK v \in DOMAIN tags : \A w \in DOMAIN tags : tags[w] <= tags[v]
      BY <1>1, <2>2 DEF History, HasNewest
    <3>2. CASE tags[v] <= d
      BY <1>1, <1>2, <1>3, <3>1, <3>2 DEF HasNewest
    <3>3. CASE d <= tags[v]
      BY <1>1, <1>2, <1>3, <3>1, <3>3 DEF HasNewest
    <3>. QED
      BY <1>1, <1>3, <3>2, <3>3
  <2>. QED
    BY <2>1, <2>2
<1>11. ASSUME NEW v, NEW c, Pending(v, c), v # u
       PROVE  Pending(v, c)'
  <2>1. c \in 1..Len(main) /\ v \in Versions /\ Follows(v, c) /\ Placed(v, c)
    BY <1>11 DEF Pending, Placed
  <2>2. /\ c # d /\ Follows(v, c)'
        /\ c < d => Older(v, u)
    BY <1>1, <1>11, <2>1, InsertionKeeps
  <2>3. \A w \in DOMAIN tags' :
           tags'[w] # c /\ (tags'[w] > c => Older(v, w))
    BY <1>2, <1>11, <2>1, <2>2 DEF Pending
  <2>. QED
    BY <1>2, <2>1, <2>2, <2>3 DEF Pending
<1>12. ASSUME NEW run, PlanFits(run) PROVE PlanFits(run)'
  BY <1>2, <1>11, <1>12 DEF PlanFits
<1>. QED
  BY <1>1, <1>2, <1>8, <1>9, <1>10, <1>12 DEF History

-----------------------------------------------------------------------------
(***************************************************************************)
(* The steps of the runs                                                   *)
(***************************************************************************)

\* While no tag is pushed, what follows a tag goes on following it.
LEMMA TagsStayFit ==
    ASSUME History, DOMAIN tags' = DOMAIN tags,
           \A w \in DOMAIN tags : tags'[w] = tags[w],
           main' \in Seq(Effects), Len(main) <= Len(main'),
           \A c \in 1..Len(main) : main'[c] = main[c]
    PROVE  /\ History'
           /\ \A run : PlanFits(run) => PlanFits(run)'
<1>1. Len(main) \in Nat /\ Len(main') \in Nat
  BY LenProperties DEF History
<1>2. ASSUME NEW v, NEW c \in 1..Len(main), Follows(v, c) PROVE Follows(v, c)'
  <2>1. PICK p : Raises(v, p, c)
    BY <1>2, FollowsRaises
  <2>2. From(p)' = From(p) /\ (IsPrevious(p, c) => IsPrevious(p, c)')
    BY DEF IsPrevious, From
  <2>3. From(p) \in 0..(c - 1)
    BY <2>1, PreviousFacts DEF Raises
  <2>4. PICK a : a = From(p)
    OBVIOUS
  <2>5. a + 1..c \in SUBSET (1..Len(main))
    BY <1>1, <2>3, <2>4
  <2>6. Classify(a + 1..c)' = Classify(a + 1..c)
    BY <2>5, ClassifyStays
  <2>. QED
    BY <2>1, <2>2, <2>4, <2>6 DEF Follows, Raises, IsPrevious
<1>3. TagsTell'
  <2>1. ASSUME NEW w \in DOMAIN tags'
        PROVE  /\ w \in Versions /\ tags'[w] \in 1..Len(main')
               /\ Follows(w, tags[w])'
    <3>1. PICK c : c = tags[w]
      OBVIOUS
    <3>2. c \in 1..Len(main) /\ Follows(w, c) /\ w \in Versions
      BY <2>1, <3>1 DEF History, TagsTell
    <3>3. Follows(w, c)' /\ c = tags'[w]
      BY <1>2, <3>1, <3>2
    <3>. QED
      BY <1>1, <3>2, <3>3
  <2>. QED
    BY <2>1 DEF History, TagsTell
<1>4. TagsOrdered' /\ HasNewest'
  BY DEF History, TagsOrdered, HasNewest
<1>5. ASSUME NEW v, NEW c, Pending(v, c) PROVE Pending(v, c)'
  BY <1>1, <1>2, <1>5 DEF Pending
<1>6. ASSUME NEW run, PlanFits(run) PROVE PlanFits(run)'
  BY <1>1, <1>5, <1>6 DEF PlanFits
<1>. QED
  BY <1>3, <1>4, <1>6 DEF History

\* One run moves on, and what it has planned fits.
LEMMA RunStepFits ==
    ASSUME HistoryInv, NEW r \in DOMAIN runs, UNCHANGED <<main, tags>>,
           DOMAIN runs' = DOMAIN runs,
           \A q \in DOMAIN runs : q # r => runs'[q] = runs[q],
           PlanFits(runs'[r])
    PROVE  HistoryInv'
<1>1. History /\ \A q \in DOMAIN runs : PlanFits(runs[q])
  BY DEF HistoryInv, History
<1>2. main' \in Seq(Effects) /\ Len(main) <= Len(main')
  BY <1>1, LenProperties DEF History
<1>3. History' /\ \A run : PlanFits(run) => PlanFits(run)'
  BY <1>1, <1>2, TagsStayFit
<1>4. ASSUME NEW q \in DOMAIN runs' PROVE PlanFits(runs[q])'
  <2>1. PICK run : run = runs'[q]
    OBVIOUS
  <2>2. PlanFits(run)
    BY <1>1, <1>4, <2>1
  <2>. QED
    BY <1>3, <2>1, <2>2
<1>. QED
  BY <1>3, <1>4 DEF HistoryInv, History

\* A run that keeps its plan.
KeepsPlan(r) ==
    /\ UNCHANGED <<main, tags>> /\ DOMAIN runs' = DOMAIN runs
    /\ \A q \in DOMAIN runs : q # r => runs'[q] = runs[q]
    /\ runs'[r].commit = runs[r].commit
    /\ runs'[r].version = runs[r].version
    /\ runs'[r].step # "plan" => runs[r].step # "plan"

LEMMA KeptPlanFits ==
    ASSUME HistoryInv, NEW r \in DOMAIN runs, KeepsPlan(r)
    PROVE  HistoryInv'
<1>1. PlanFits(runs'[r])
  BY DEF HistoryInv, PlanFits, KeepsPlan
<1>. QED
  BY <1>1, RunStepFits DEF KeepsPlan

LEMMA PushFits == ASSUME HistoryInv, Push PROVE HistoryInv'
<1>1. History /\ \A q \in DOMAIN runs : PlanFits(runs[q])
  BY DEF HistoryInv, History
<1>2. Len(main) \in Nat /\ Len(main) + 1 \in 1..MaxPushes
  BY <1>1, ReleaseAssumption, LenProperties DEF Push, History
<1>3. PICK kind \in Effects : main' = Append(main, kind)
  BY <1>2, ReleaseAssumption DEF Push, Effects
<1>4. /\ main' \in Seq(Effects) /\ Len(main) <= Len(main')
      /\ \A c \in 1..Len(main) : main'[c] = main[c]
  BY <1>1, <1>2, <1>3 DEF History
<1>5. UNCHANGED <<runs, tags>>
  BY DEF Push
<1>6. History' /\ \A run : PlanFits(run) => PlanFits(run)'
  BY <1>1, <1>4, <1>5, TagsStayFit
<1>7. ASSUME NEW q \in DOMAIN runs' PROVE PlanFits(runs[q])'
  <2>1. PICK run : run = runs'[q]
    OBVIOUS
  <2>. QED
    BY <1>1, <1>5, <1>6, <1>7, <2>1
<1>. QED
  BY <1>6, <1>7 DEF HistoryInv, History

LEMMA TriggerFits ==
    ASSUME ReleaseInv, HistoryInv, NEW c \in DOMAIN main, Trigger(c)
    PROVE  HistoryInv'
<1> DEFINE y == [commit |-> c, sha |-> Len(main), status |-> "waiting",
                 step |-> "plan", built |-> {}, version |-> NoPlan]
<1>1. History /\ \A q \in DOMAIN runs : PlanFits(runs[q])
  BY DEF HistoryInv, History
<1>2. PICK S : runs \in Seq(S)
  BY DEF ReleaseInv, ReleaseShape
<1>3. runs' = Append(runs, y) /\ UNCHANGED <<main, tags>>
  BY DEF Trigger
<1>4. c \in 1..Len(main)
  BY <1>1 DEF History
<1>5. PlanFits(y)
  BY <1>4 DEF PlanFits
<1>. HIDE DEF y
<1>6. \A q \in DOMAIN runs' :
         runs'[q] = y \/ (q \in DOMAIN runs /\ runs'[q] = runs[q])
  <2>1. runs \in Seq(S \cup {y})
    BY <1>2, SeqMonotonic
  <2>. QED
    BY <1>3, <2>1
<1>7. main' \in Seq(Effects) /\ Len(main) <= Len(main')
  BY <1>1, <1>3, LenProperties DEF History
<1>8. History' /\ \A run : PlanFits(run) => PlanFits(run)'
  BY <1>1, <1>3, <1>7, TagsStayFit
<1>9. ASSUME NEW q \in DOMAIN runs' PROVE PlanFits(runs[q])'
  <2>1. PICK run : run = runs'[q]
    OBVIOUS
  <2>2. PlanFits(run)
    BY <1>1, <1>5, <1>6, <1>9, <2>1
  <2>. QED
    BY <1>8, <2>1, <2>2
<1>. QED
  BY <1>8, <1>9 DEF HistoryInv, History

\* The steps of a run that has its plan, and those that start it again.
LEMMA OtherStepsKeepPlans ==
    ASSUME ReleaseInv, NEW r \in DOMAIN runs
    PROVE  /\ Begin(r) => KeepsPlan(r)
           /\ FailRun(r) => KeepsPlan(r)
           /\ Assemble(r) => KeepsPlan(r)
           /\ VerifyTag(r) => KeepsPlan(r)
           /\ Attest(r) => KeepsPlan(r)
           /\ TakeUpRelease(r) => KeepsPlan(r)
           /\ PublishRelease(r) => KeepsPlan(r)
           /\ \A kind : Build(r, kind) => KeepsPlan(r)
           /\ \A name : UploadAsset(r, name) => KeepsPlan(r)
<1>1. IsRun(runs[r])
  BY DEF ReleaseInv, ReleaseShape
<1>2. ASSUME NEW step, runs[r].step # "plan", Go(r, step), UNCHANGED <<main, tags>>
      PROVE  KeepsPlan(r)
  BY <1>1, <1>2 DEF KeepsPlan, Go, IsRun, RunFields
<1>3. ASSUME Finish(r), UNCHANGED <<main, tags>> PROVE KeepsPlan(r)
  BY <1>1, <1>3 DEF KeepsPlan, Finish, IsRun, RunFields
<1>4. Begin(r) => KeepsPlan(r)
  BY <1>1 DEF Begin, KeepsPlan, IsRun, RunFields
<1>5. ASSUME FailRun(r) PROVE KeepsPlan(r)
  <2> DEFINE s == CASE runs[r].step = "verifyTag" -> "tag"
                    [] runs[r].step = "reconcile" -> "publish"
                    [] OTHER -> runs[r].step
             y == [runs[r] EXCEPT !.status = "failed", !.step = s]
  <2>1. runs' = [runs EXCEPT ![r] = y]
    BY <1>1, <1>5 DEF FailRun, IsRun, RunFields
  <2>2. /\ y.commit = runs[r].commit /\ y.version = runs[r].version
        /\ y.step = s
    BY <1>1 DEF IsRun, RunFields
  <2>3. s # "plan" => runs[r].step # "plan"
    OBVIOUS
  <2>. HIDE DEF y, s
  <2>. QED
    BY <1>5, <2>1, <2>2, <2>3 DEF KeepsPlan, FailRun
<1>6. /\ Assemble(r) => KeepsPlan(r)
      /\ VerifyTag(r) => KeepsPlan(r)
      /\ Attest(r) => KeepsPlan(r)
  BY <1>2 DEF Assemble, VerifyTag, Attest, At
<1>7. TakeUpRelease(r) => KeepsPlan(r)
  BY <1>2, <1>3 DEF TakeUpRelease, At
<1>8. PublishRelease(r) => KeepsPlan(r)
  BY <1>3 DEF PublishRelease
<1>9. ASSUME NEW kind, Build(r, kind) PROVE KeepsPlan(r)
  BY <1>1, <1>9 DEF Build, At, KeepsPlan, IsRun, RunFields
<1>10. ASSUME NEW name, UploadAsset(r, name) PROVE KeepsPlan(r)
  BY <1>10 DEF UploadAsset, KeepsPlan
<1>. QED
  BY <1>4, <1>5, <1>6, <1>7, <1>8, <1>9, <1>10

LEMMA RerunAllFits ==
    ASSUME ReleaseInv, HistoryInv, NEW r \in DOMAIN runs, RerunAll(r)
    PROVE  HistoryInv'
<1>1. IsRun(runs[r]) /\ PlanFits(runs[r])
  BY DEF ReleaseInv, ReleaseShape, HistoryInv
<1>2. /\ DOMAIN runs' = DOMAIN runs /\ UNCHANGED <<main, tags>>
      /\ \A q \in DOMAIN runs : q # r => runs'[q] = runs[q]
      /\ runs'[r].commit = runs[r].commit
      /\ runs'[r].version = NoPlan /\ runs'[r].step = "plan"
  BY <1>1 DEF RerunAll, IsRun, RunFields
<1>3. PlanFits(runs'[r])
  BY <1>1, <1>2 DEF PlanFits
<1>. QED
  BY <1>2, <1>3, RunStepFits

\* plan_release returns no release, the version of a tag of the commit, or a
\* version that may become a tag.
LEMMA PlannedFits ==
    ASSUME History, NEW c \in 1..Len(main), NEW v \in PlanRelease(c), v # NoPlan
    PROVE  v \in DOMAIN tags \/ Pending(v, c)
<1> DEFINE all == DOMAIN tags
           reachable == {w \in all : tags[w] <= c}
           here == {w \in reachable : tags[w] = c}
           previous == IF reachable = {} THEN NoPlan ELSE Newest(reachable)
           since == IF reachable = {} THEN 0 ELSE tags[previous]
           kind == Classify(since + 1..c)
<1>1. SUFFICES ASSUME v \notin all PROVE Pending(v, c)
  OBVIOUS
<1>2. /\ here = {} /\ reachable = all
      /\ kind # "none" /\ v = Bump(previous, kind)
  <2>1. v \notin here
    BY <1>1
  <2>. QED
    BY <1>1, <2>1 DEF PlanRelease
<1>3. \A w \in all : /\ w \in Versions /\ tags[w] \in 1..Len(main)
                     /\ tags[w] \in Nat /\ tags[w] < c
  BY <1>2 DEF History, TagsTell
<1>4. c \in Nat /\ NoPlan \notin all
  BY DEF History, TagsTell
<1>5. IsPrevious(previous, c) /\ From(previous) = since
  <2>1. CASE all = {}
    BY <1>2, <1>4, <2>1 DEF IsPrevious, From
  <2>2. CASE all # {}
    <3>1. PICK w \in all : /\ Newest(all) = w
                           /\ \A x \in all : tags[x] <= tags[w]
      BY <2>2, NewestTag
    <3>2. previous = w /\ since = tags[w]
      BY <1>2, <2>2, <3>1
    <3>. HIDE DEF previous, since
    <3>. QED
      BY <1>3, <3>1, <3>2 DEF IsPrevious, From
  <2>. QED
    BY <2>1, <2>2
<1>6. Raises(v, previous, c)
  <2>. HIDE DEF previous, since
  <2>. QED
    BY <1>2, <1>5 DEF Raises
<1>7. v \in Versions
  BY <1>6, RaisesFacts
<1>8. Follows(v, c)
  <2>. HIDE DEF previous
  <2>. QED
    BY <1>6 DEF Follows, Raises, IsPrevious
<1>. QED
  BY <1>3, <1>4, <1>7, <1>8 DEF Pending

LEMMA PlanFitsStep ==
    ASSUME ReleaseInv, HistoryInv, NEW r \in DOMAIN runs, Plan(r)
    PROVE  HistoryInv'
<1>1. IsRun(runs[r]) /\ PlanFits(runs[r]) /\ History
  BY DEF ReleaseInv, ReleaseShape, HistoryInv, History
<1>2. UNCHANGED <<main, tags>> /\ runs[r].step = "plan"
  BY DEF Plan, At
<1>3. CASE Finish(r)
  <2>1. KeepsPlan(r)
    BY <1>1, <1>2, <1>3 DEF KeepsPlan, Finish, IsRun, RunFields
  <2>. QED
    BY <2>1, KeptPlanFits
<1>4. CASE ~Finish(r)
  <2>1. PICK v \in PlanRelease(runs[r].commit) :
           /\ v # NoPlan
           /\ runs' = [runs EXCEPT ![r].step = "build", ![r].version = v]
    BY <1>4 DEF Plan
  <2>2. PICK c : c = runs[r].commit
    OBVIOUS
  <2>3. c \in 1..Len(main) /\ v \in PlanRelease(c)
    BY <1>1, <2>1, <2>2 DEF PlanFits
  <2>4. v \in DOMAIN tags \/ Pending(v, c)
    BY <1>1, <2>1, <2>3, PlannedFits
  <2>5. /\ DOMAIN runs' = DOMAIN runs
        /\ \A q \in DOMAIN runs : q # r => runs'[q] = runs[q]
        /\ runs'[r].commit = c /\ runs'[r].version = v
    BY <1>1, <2>1, <2>2 DEF IsRun, RunFields
  <2>6. PlanFits(runs'[r])
    BY <2>1, <2>3, <2>4, <2>5 DEF PlanFits
  <2>. QED
    BY <1>2, <2>5, <2>6, RunStepFits
<1>. QED
  BY <1>3, <1>4

LEMMA PushTagFits ==
    ASSUME ReleaseInv, HistoryInv, NEW r \in DOMAIN runs, PushTag(r)
    PROVE  HistoryInv'
<1>1. /\ IsRun(runs[r]) /\ History /\ main' = main /\ runs[r].step = "tag"
      /\ \A q \in DOMAIN runs : PlanFits(runs[q])
  BY DEF ReleaseInv, ReleaseShape, HistoryInv, History, PushTag, At
<1>2. PICK u, d : u = runs[r].version /\ d = runs[r].commit
  OBVIOUS
<1>3. /\ tags' = [w \in DOMAIN tags \cup {u} |-> IF w = u THEN d ELSE tags[w]]
      /\ u \in DOMAIN tags => tags[u] = d
  BY <1>2 DEF PushTag, TagAgrees
<1>4. /\ DOMAIN runs' = DOMAIN runs
      /\ \A q \in DOMAIN runs : q # r => runs'[q] = runs[q]
      /\ runs'[r].commit = d /\ runs'[r].version = u
      /\ runs'[r].step = "verifyTag"
  BY <1>1, <1>2 DEF PushTag, Go, IsRun, RunFields
<1>5. PlanFits(runs'[r])
  BY <1>1, <1>2, <1>4 DEF PlanFits
<1>6. History' /\ \A run : PlanFits(run) => PlanFits(run)'
  <2>1. CASE u \in DOMAIN tags
    <3>1. main' \in Seq(Effects) /\ Len(main) <= Len(main')
      BY <1>1, LenProperties DEF History
    <3>2. DOMAIN tags' = DOMAIN tags /\ \A w \in DOMAIN tags : tags'[w] = tags[w]
      BY <1>3, <2>1
    <3>. QED
      BY <1>1, <3>1, <3>2, TagsStayFit
  <2>2. CASE u \notin DOMAIN tags
    <3>1. Pending(u, d)
      BY <1>1, <1>2, <2>2 DEF PlanFits
    <3>2. Inserted(u, d)
      BY <1>1, <1>3, <2>2 DEF Inserted
    <3>. QED
      BY <3>1, <3>2, PushedTagFits
  <2>. QED
    BY <2>1, <2>2
<1>7. ASSUME NEW q \in DOMAIN runs' PROVE PlanFits(runs[q])'
  <2>1. PICK run : run = runs'[q]
    OBVIOUS
  <2>2. PlanFits(run)
    BY <1>1, <1>4, <1>5, <1>7, <2>1
  <2>. QED
    BY <1>6, <2>1, <2>2
<1>. QED
  BY <1>6, <1>7 DEF HistoryInv, History

LEMMA HistoryInitInv == ReleaseInit => HistoryInv
BY DEF ReleaseInit, HistoryInv, History, TagsTell, TagsOrdered, HasNewest

LEMMA HistoryNextKeeps ==
    ASSUME ReleaseInv, HistoryInv, [ReleaseNext]_releaseVars
    PROVE  HistoryInv'
<1>1. CASE UNCHANGED releaseVars
  <2>1. History /\ UNCHANGED <<main, tags, runs>>
    BY <1>1 DEF releaseVars, HistoryInv, History
  <2>2. main' \in Seq(Effects) /\ Len(main) <= Len(main')
    BY <2>1, LenProperties DEF History
  <2>3. History' /\ \A run : PlanFits(run) => PlanFits(run)'
    BY <2>1, <2>2, TagsStayFit
  <2>4. ASSUME NEW q \in DOMAIN runs' PROVE PlanFits(runs[q])'
    <3>1. PICK run : run = runs'[q]
      OBVIOUS
    <3>2. PlanFits(run)
      BY <2>1, <2>4, <3>1 DEF HistoryInv
    <3>. QED
      BY <2>3, <3>1, <3>2
  <2>. QED
    BY <2>3, <2>4 DEF HistoryInv, History
<1>2. ASSUME NEW r \in DOMAIN runs,
             \/ Begin(r) \/ FailRun(r) \/ Assemble(r) \/ VerifyTag(r)
             \/ Attest(r) \/ TakeUpRelease(r) \/ PublishRelease(r)
             \/ \E kind \in {"primary", "rebuild"} : Build(r, kind)
             \/ \E name \in AssetNames : UploadAsset(r, name)
      PROVE  HistoryInv'
  <2>1. KeepsPlan(r)
    BY <1>2, OtherStepsKeepPlans
  <2>. QED
    BY <2>1, KeptPlanFits
<1>3. CASE ReleaseNext
  BY <1>2, <1>3, PushFits, TriggerFits, RerunAllFits, PlanFitsStep, PushTagFits
     DEF ReleaseNext
<1>. QED
  BY <1>1, <1>3

-----------------------------------------------------------------------------
(***************************************************************************)
(* What the invariant says                                                 *)
(***************************************************************************)

\* plan_release does not refuse the head of main.
LEMMA HeadIsPlanned == ASSUME History PROVE HeadCanBePlanned
<1> SUFFICES ASSUME main # <<>> PROVE PlanRelease(Len(main)) # {}
  BY DEF HeadCanBePlanned
<1>1. PICK n : n = Len(main)
  OBVIOUS
<1>2. n \in Nat /\ n >= 1
  BY <1>1, EmptySeq, LenProperties DEF History
<1> DEFINE all == DOMAIN tags
           reachable == {w \in all : tags[w] <= n}
           here == {w \in reachable : tags[w] = n}
           previous == IF reachable = {} THEN NoPlan ELSE Newest(reachable)
           since == IF reachable = {} THEN 0 ELSE tags[previous]
           kind == Classify(since + 1..n)
           next == Bump(previous, kind)
<1>3. /\ \A w \in all : w \in Versions /\ tags[w] \in 1..n /\ tags[w] \in Nat
      /\ reachable = all
  <2>1. ASSUME NEW w \in all
        PROVE  w \in Versions /\ tags[w] \in 1..n /\ tags[w] \in Nat
    BY <1>1, <1>2 DEF History, TagsTell
  <2>2. \A w \in all : tags[w] <= n
    BY <1>2, <2>1
  <2>3. reachable = all
    BY <2>2
  <2>. QED
    BY <2>1, <2>3
<1>4. HistoryIsMonotonic
  BY <1>3, OlderIsOrder DEF HistoryIsMonotonic, History, TagsOrdered
<1>5. PlanRelease(n) =
         IF Cardinality(here) > 1 THEN {}
         ELSE IF here # {} THEN here \cap {Newest(reachable)}
         ELSE IF kind = "none" THEN {NoPlan}
         ELSE {next} \ all
  BY <1>3, <1>4 DEF PlanRelease
<1>6. CASE here = {}
  <2>1. Cardinality(here) = 0
    BY <1>6, FS_EmptySet
  <2>2. CASE kind # "none"
    <3>1. CASE all = {}
      <4>. HIDE DEF next, kind, here, reachable
      <4>. QED
        BY <1>1, <1>5, <1>6, <2>1, <2>2, <3>1
    <3>2. CASE all # {}
      <4>1. PICK w \in all :
               /\ Newest(all) = w
               /\ \A x \in all : tags[x] <= tags[w] /\ (x # w => Older(x, w))
        BY <3>2, NewestTag
      <4>2. previous = w /\ since = tags[w]
        BY <1>3, <3>2, <4>1
      <4>3. since + 1..n \in SUBSET (1..Len(main))
        BY <1>1, <1>2, <1>3, <4>2
      <4>. HIDE DEF previous, since
      <4>4. kind \in Effects \ {"none"}
        BY <2>2, <4>3, ClassifyProperties DEF History
      <4>. HIDE DEF kind
      <4>5. next \in Versions /\ Older(w, next)
        BY <1>3, <4>2, <4>4, BumpRises
      <4>6. next \notin all
        BY <1>3, <4>1, <4>5, OlderIsOrder
      <4>. HIDE DEF next, here, all, reachable
      <4>. QED
        BY <1>1, <1>5, <1>6, <2>1, <2>2, <4>6
    <3>. QED
      BY <3>1, <3>2
  <2>. HIDE DEF kind, next, here, reachable, all
  <2>3. CASE kind = "none"
    BY <1>1, <1>5, <1>6, <2>1, <2>3
  <2>. QED
    BY <2>2, <2>3
<1>7. CASE here # {}
  <2>1. PICK w : w \in here
    BY <1>7
  <2>2. w \in all /\ tags[w] = n
    BY <2>1
  <2>3. here = {w}
    BY <1>3, <2>1, <2>2 DEF History, TagsOrdered
  <2>4. Cardinality(here) = 1
    BY <2>3, FS_Singleton
  <2>5. \A x \in all : x # w => Older(x, w)
    BY <1>3, <2>2 DEF History, TagsOrdered
  <2>6. Newest(reachable) = w
    BY <1>3, <2>2, <2>5, NewestIs
  <2>. HIDE DEF kind, next, here, reachable, all
  <2>. QED
    BY <1>1, <1>5, <1>7, <2>3, <2>4, <2>6
<1>. QED
  BY <1>6, <1>7

\* Each tag is the one before it raised by what changed between the two.
LEMMA TagsTellChanges == ASSUME History PROVE VersionsTellChanges
<1> SUFFICES ASSUME NEW w \in DOMAIN tags
             PROVE  LET before == {v \in DOMAIN tags : Older(v, w)}
                        v == IF before = {} THEN NoPlan ELSE Newest(before)
                        from == IF before = {} THEN 0 ELSE tags[v]
                        kinds == {main[c] : c \in from + 1..tags[w]}
                        greatest == Greatest(kinds)
                    IN  CASE greatest = "major" -> w = <<v[1] + 1, 0, 0>>
                          [] greatest = "minor" -> w = <<v[1], v[2] + 1, 0>>
                          [] greatest = "patch" -> w = <<v[1], v[2], v[3] + 1>>
                          [] OTHER -> FALSE
  BY DEF VersionsTellChanges, Greatest
<1> DEFINE before == {v \in DOMAIN tags : Older(v, w)}
           v == IF before = {} THEN NoPlan ELSE Newest(before)
           from == IF before = {} THEN 0 ELSE tags[v]
           kinds == {main[c] : c \in from + 1..tags[w]}
<1>1. PICK n : n = tags[w]
  OBVIOUS
<1>2. /\ \A x \in DOMAIN tags : /\ x \in Versions /\ tags[x] \in 1..Len(main)
                                /\ tags[x] \in Nat
      /\ NoPlan \notin DOMAIN tags /\ n \in 1..Len(main) /\ Follows(w, n)
  BY <1>1 DEF History, TagsTell
<1>3. PICK p : Raises(w, p, n)
  BY <1>2, FollowsRaises
<1>4. /\ IsPrevious(p, n) /\ p \in Versions /\ From(p) \in 0..(n - 1)
      /\ Classify(From(p) + 1..n) \in Effects \ {"none"}
      /\ w = Bump(p, Classify(From(p) + 1..n)) /\ Len(main) \in Nat /\ n \in Nat
  BY <1>2, <1>3, PreviousFacts DEF Raises
<1>5. before = {x \in DOMAIN tags : tags[x] < n}
  BY <1>1, <1>2, OlderIsOrder DEF History, TagsOrdered
<1>6. v = p /\ from = From(p)
  <2>1. CASE p \in DOMAIN tags
    <3>1. p \in before /\ From(p) = tags[p]
      BY <1>4, <1>5, <2>1 DEF From
    <3>2. \A x \in before : x # p => Older(x, p)
      BY <1>2, <1>4, <1>5, <2>1, <3>1 DEF IsPrevious, History, TagsOrdered
    <3>3. Newest(before) = p
      BY <1>2, <3>1, <3>2, NewestIs
    <3>. QED
      BY <3>1, <3>3
  <2>2. CASE p \notin DOMAIN tags
    <3>1. p = NoPlan /\ From(p) = 0
      BY <1>4, <2>2 DEF IsPrevious, From
    <3>2. before = {}
      BY <1>2, <1>4, <1>5, <3>1 DEF IsPrevious
    <3>. QED
      BY <3>1, <3>2
  <2>. QED
    BY <2>1, <2>2
<1>7. Greatest(kinds) = Classify(From(p) + 1..n)
  <2> DEFINE S == From(p) + 1..n
  <2>1. S \in SUBSET (1..Len(main)) /\ kinds = {main[c] : c \in S}
    <3>1. S \in SUBSET (1..Len(main))
      BY <1>2, <1>4
    <3>. HIDE DEF from
    <3>. QED
      BY <1>1, <1>6, <3>1
  <2>. HIDE DEF S, kinds
  <2>2. /\ Classify(S) \in Effects
        /\ \A c \in S : main[c] \in Effects /\ Rank(main[c]) <= Rank(Classify(S))
        /\ Classify(S) = "none" \/ \E c \in S : main[c] = Classify(S)
    BY <2>1, ClassifyProperties DEF History
  <2>3. Classify(S) # "none"
    BY <1>4 DEF S
  <2>4. /\ kinds \in SUBSET Effects /\ Classify(S) \in kinds
        /\ \A l \in kinds : Rank(l) <= Rank(Classify(S))
    BY <2>1, <2>2, <2>3
  <2>. QED
    BY <2>4, GreatestIs DEF S
<1>8. /\ Greatest(kinds) \in Effects \ {"none"} /\ w = Bump(v, Greatest(kinds))
  BY <1>4, <1>6, <1>7
<1>9. (CASE Greatest(kinds) = "major" -> w = <<v[1] + 1, 0, 0>>
         [] Greatest(kinds) = "minor" -> w = <<v[1], v[2] + 1, 0>>
         [] Greatest(kinds) = "patch" -> w = <<v[1], v[2], v[3] + 1>>
         [] OTHER -> FALSE)
  <2>. HIDE DEF kinds, v
  <2>. QED
    BY <1>8 DEF Bump, Effects
<1>. QED
  BY <1>9

\* However runs fail, are continued with old plans and started over, the tags
\* tell what changed from each version to the next, and plan_release accepts
\* the head of main, for any number of commits, runs and failures.
THEOREM HistoryCanAlwaysGoOn == ReleaseSpec => []HistoryCanGoOn
<1>1. HistoryInv => HistoryCanGoOn
  BY HeadIsPlanned, TagsTellChanges DEF HistoryInv, History, HistoryCanGoOn
<1>. QED
  BY ReleaseInitInv, ReleaseNextKeeps, HistoryInitInv, HistoryNextKeeps, <1>1,
     PTL DEF ReleaseSpec
=============================================================================
