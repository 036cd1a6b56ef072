-------------------------- MODULE ReleaseWorkflow --------------------------
(***************************************************************************)
(* The release workflow (.github/workflows/release.yml) with the scripts   *)
(* its jobs run: phase-a, sign-tag, admission, asset-staging, publish and  *)
(* release-promotion.                                                      *)
(*                                                                         *)
(* A run releases the version that one commit of main carries.  Its jobs   *)
(* start from what the job before them stored, so a job that is run again  *)
(* forgets what it did; what it did outside - the tag, the release with    *)
(* its assets, the version on the registry - stays.  Runs of different     *)
(* versions overlap; runs of one version do not.  Meanwhile main moves on, *)
(* the independent authority repeats its run, its evidence expires, and    *)
(* somebody else may publish to the registry.                              *)
(***************************************************************************)
EXTENDS Naturals, Sequences

CONSTANTS
  LastCommit,   \* commits of main are numbered from 1
  VersionOf,    \* which version each of them carries
  RefName,      \* what GITHUB_REF_NAME says in the publish job: "main" for a
                \* run that phase A lets pass, "tag" or "unset" elsewhere
  Faults,       \* whether anything goes wrong outside: TLC's only
  MaxAttempts,  \* bound on the attempts of an authority run: TLC's only
  MaxRestarts   \* bound on the restarts of a workflow run: TLC's only

Commits == 1..LastCommit
None == 0
Foreign == LastCommit + 1   \* a package that no commit of main is behind

ASSUME ReleaseAssumption ==
  /\ LastCommit \in Nat
  /\ VersionOf \in [Commits -> Nat \ {0}]
  /\ RefName \in {"main", "tag", "unset"}
  /\ Faults \in BOOLEAN
  /\ MaxAttempts \in Nat \ {0} /\ MaxRestarts \in Nat

Versions == {VersionOf[c] : c \in Commits}
Attempts == 0..MaxAttempts
Starts == 0..MaxRestarts

VARIABLES
  tip,          \* the commit main is at
  authority,    \* by commit: how often the authority's run was attempted
  lapsed,       \* by commit: attempts up to here have expired evidence
  tag,          \* by version: the commit the tag names, and the attempt
                \* that was approved when it was signed
  release,      \* by version: the GitHub release: "none", "draft", "public"
  assets,       \* by version: the assets of the release
  registry,     \* by version: whose package the registry holds
  latest,       \* the version the dist-tag names
  at,           \* by commit: job and step its run has come to
  restarts,     \* by commit: how often its run was started again
  approved,     \* by commit: the attempt phase A hands to the other jobs
  base,         \* by commit: the workspace its job started from
  ws            \* by commit: the workspace

outside == <<tip, authority, lapsed>>
services == <<tag, release, assets, registry, latest>>
vars == <<outside, services, at, restarts, approved, base, ws>>

\* A workspace: the attempt in evidence/authority-run.json, the attempt the
\* downloaded bundle is of, and the states of the release manifest envelope.
\* A state is abstracted to the start of the run that wrote it.
Fresh == [run |-> 0, bundle |-> 0, chain |-> << >>]

\* The assets; "package" stands for the archive, the manifest core, the SBOM
\* and the attestation, which the commit determines.
NoAssets == [package |-> None, admitted |-> << >>, attested |-> << >>,
             envelope |-> << >>, receipt |-> None]
NoTag == [commit |-> None, attempt |-> 0]

First ==
  [phaseA |-> "verifyRun", signTag |-> "sign", admission |-> "verifyTag",
   staging |-> "record", publish |-> "mapping", promotion |-> "attach"]
Jobs == DOMAIN First

Idle == [job |-> "none", step |-> "idle"]
Steps ==
  {"idle", "failed", "done", "verifyRun", "download", "import", "registry",
   "sign", "verifyTag", "readiness", "record", "create", "upload", "assets",
   "mapping", "revalidate", "publish", "uploaded", "final", "attach",
   "promote"}

Workspaces == [run : Attempts, bundle : Attempts, chain : Seq(Starts)]

TypeOK ==
  /\ tip \in Commits \cup {None}
  /\ authority \in [Commits -> Attempts] /\ lapsed \in [Commits -> Attempts]
  /\ tag \in [Versions ->
                 [commit : Commits \cup {None}, attempt : Attempts]]
  /\ release \in [Versions -> {"none", "draft", "public"}]
  /\ assets \in [Versions ->
       [package : Commits \cup {None}, admitted : Seq(Starts),
        attested : Seq(Starts), envelope : Seq(Starts),
        receipt : Commits \cup {None}]]
  /\ registry \in [Versions -> Commits \cup {None, Foreign}]
  /\ latest \in Versions \cup {None}
  /\ at \in [Commits -> [job : Jobs, step : Steps] \cup {Idle}]
  /\ restarts \in [Commits -> Starts]
  /\ approved \in [Commits -> Attempts]
  /\ base \in [Commits -> Workspaces] /\ ws \in [Commits -> Workspaces]

Init ==
  /\ tip = 0
  /\ authority = [c \in Commits |-> 1] /\ lapsed = [c \in Commits |-> 0]
  /\ tag = [v \in Versions |-> NoTag]
  /\ release = [v \in Versions |-> "none"]
  /\ assets = [v \in Versions |-> NoAssets]
  /\ registry = [v \in Versions |-> None] /\ latest = None
  /\ at = [c \in Commits |-> Idle] /\ restarts = [c \in Commits |-> 0]
  /\ approved = [c \in Commits |-> 0]
  /\ base = [c \in Commits |-> Fresh] /\ ws = [c \in Commits |-> Fresh]

----------------------------------------------------------------------------
(* The world around the workflow *)

Merge ==
  /\ tip < LastCommit
  /\ tip' = tip + 1
  /\ UNCHANGED <<authority, lapsed, services, at, restarts, approved, base, ws>>

\* The authority's run is attempted again, with a bundle of its own.
Reattempt(c) ==
  /\ Faults /\ authority[c] < MaxAttempts
  /\ authority' = [authority EXCEPT ![c] = @ + 1]
  /\ UNCHANGED <<tip, lapsed, services, at, restarts, approved, base, ws>>

Lapse(c) ==
  /\ Faults /\ lapsed[c] < authority[c]
  /\ lapsed' = [lapsed EXCEPT ![c] = @ + 1]
  /\ UNCHANGED <<tip, authority, services, at, restarts, approved, base, ws>>

PublishElsewhere(v) ==
  /\ Faults /\ registry[v] = None
  /\ registry' = [registry EXCEPT ![v] = Foreign] /\ latest' = v
  /\ UNCHANGED <<outside, tag, release, assets, at, restarts, approved, base,
                 ws>>

----------------------------------------------------------------------------
(* Runs, jobs and steps *)

Over(c) == at[c].step \in {"idle", "failed", "done"}

\* The concurrency group: one run of a version at a time.
Free(c) == \A d \in Commits : VersionOf[d] = VersionOf[c] => Over(d)

\* A job begins in a workspace made of what was stored for it.
Begin(c, job, w) ==
  /\ at' = [at EXCEPT ![c] = [job |-> job, step |-> First[job]]]
  /\ base' = [base EXCEPT ![c] = w] /\ ws' = [ws EXCEPT ![c] = w]

Dispatch(c) ==
  /\ at[c] = Idle /\ tip = c /\ Free(c)
  /\ Begin(c, "phaseA", Fresh)
  /\ UNCHANGED <<outside, services, restarts, approved>>

\* The failed job is run again, or all of them are.
Restart(c) ==
  /\ at[c].step \in {"failed", "done"} /\ Free(c)
  /\ restarts[c] < MaxRestarts
  /\ restarts' = [restarts EXCEPT ![c] = @ + 1]
  /\ \/ at[c].step = "failed" /\ Begin(c, at[c].job, base[c])
     \/ Begin(c, "phaseA", Fresh)
  /\ UNCHANGED <<outside, services, approved>>

At(c, job, step) == at[c] = [job |-> job, step |-> step]

\* The step succeeds and leaves the workspace as w.
Advance(c, step, w) ==
  /\ at' = [at EXCEPT ![c].step = step]
  /\ ws' = [ws EXCEPT ![c] = w]
  /\ UNCHANGED base

Stop(c) ==
  /\ at' = [at EXCEPT ![c].step = "failed"]
  /\ UNCHANGED <<base, ws>>

\* A job stops on its own at any point.
Crash(c) ==
  /\ Faults /\ ~Over(c) /\ Stop(c)
  /\ UNCHANGED <<outside, services, restarts, approved>>

\* A step that only looks, and stops its job unless it likes what it sees.
Check(c, job, step, ok, next) ==
  /\ At(c, job, step)
  /\ IF ok THEN Advance(c, next, ws[c]) ELSE Stop(c)
  /\ UNCHANGED <<outside, services, restarts, approved>>

\* The last step of a job, after which another begins in the workspace w.
Close(c, job, step, ok, next, w) ==
  /\ At(c, job, step)
  /\ IF ok THEN Begin(c, next, w) ELSE Stop(c)
  /\ UNCHANGED <<outside, services, restarts, approved>>

----------------------------------------------------------------------------
(* The authority's evidence *)

\* verify-authority-run.mjs
VerifyRun(c) ==
  /\ \E job \in {"phaseA", "admission"} : At(c, job, "verifyRun")
  /\ Advance(c, "download", [ws[c] EXCEPT !.run = authority[c]])
  /\ UNCHANGED <<outside, services, restarts, approved>>

\* download-public-authority-bundle.mjs in phase A: what it finds is approved.
DownloadFirst(c) ==
  /\ At(c, "phaseA", "download")
  /\ Advance(c, "import", [ws[c] EXCEPT !.bundle = authority[c]])
  /\ approved' = [approved EXCEPT ![c] = authority[c]]
  /\ UNCHANGED <<outside, services, restarts>>

\* Mutant: the other jobs take whatever evidence there is by now.
ContinuesAnything(c) == TRUE

\* validateAuthorityContinuity
Continues(c) == approved[c] = authority[c]

DownloadAgain(c) ==
  /\ At(c, "admission", "download")
  /\ IF Continues(c)
     THEN Advance(c, "import", [ws[c] EXCEPT !.bundle = authority[c]])
     ELSE Stop(c)
  /\ UNCHANGED <<outside, services, restarts, approved>>

\* verifyAuthorityAssets
Genuine(c) == ws[c].bundle = ws[c].run /\ ws[c].bundle > lapsed[c]

\* import-release-authority.mjs as a preflight
ImportFirst(c) == Check(c, "phaseA", "import", Genuine(c), "registry")

\* appendReleaseManifestState
Appended(c) == [ws[c] EXCEPT !.chain = Append(@, restarts[c])]

Import(c) ==
  /\ At(c, "admission", "import")
  /\ IF Genuine(c) /\ ws[c].chain = << >>
     THEN Advance(c, "readiness", Appended(c)) ELSE Stop(c)
  /\ UNCHANGED <<outside, services, restarts, approved>>

Revalidate(c) ==
  Check(c, "publish", "revalidate",
        Genuine(c) /\ ws[c].bundle = approved[c], "publish")

----------------------------------------------------------------------------
(* From the tag to the staged release *)

\* assertRegistryVersionAbsent
Absent(c) == registry[VersionOf[c]] = None

PreflightFirst(c) ==
  Close(c, "phaseA", "registry", Absent(c), "signTag", ws[c])

Signable(c) ==
  /\ tip = c
  /\ Genuine(c) /\ ws[c].bundle = approved[c]

\* The job may stop once the tag is pushed.
SignWhen(c, ok) ==
  /\ At(c, "signTag", "sign")
  /\ IF ok
     THEN /\ tag' = [tag EXCEPT ![VersionOf[c]] =
                       [commit |-> c, attempt |-> approved[c]]]
          /\ Begin(c, "admission", Fresh) \/ (Faults /\ Stop(c))
     ELSE Stop(c) /\ UNCHANGED tag
  /\ UNCHANGED <<outside, release, assets, registry, latest, restarts,
                 approved>>

\* Mutant: the tag is pushed by force.
SignByForce(c) == SignWhen(c, Signable(c))

Sign(c) == SignWhen(c, Signable(c) /\ tag[VersionOf[c]] = NoTag)

\* verify-release-tag.mjs
VerifyTag(c) ==
  Check(c, "admission", "verifyTag", tag[VersionOf[c]].commit = c, "verifyRun")

\* release-readiness.mjs
Readiness(c) ==
  Close(c, "admission", "readiness",
        ws[c].bundle > lapsed[c] /\ Len(ws[c].chain) = 1, "staging", ws[c])

\* record-provenance-state.mjs
Record(c) ==
  /\ At(c, "staging", "record")
  /\ Advance(c, "create", Appended(c))
  /\ UNCHANGED <<outside, services, restarts, approved>>

\* gh release create --draft --verify-tag
CreateDraft(c) ==
  LET v == VersionOf[c] IN
  /\ At(c, "staging", "create")
  /\ IF release[v] = "none" /\ tag[v] # NoTag
     THEN /\ release' = [release EXCEPT ![v] = "draft"]
          /\ Advance(c, "upload", ws[c])
     ELSE Stop(c) /\ UNCHANGED release
  /\ UNCHANGED <<outside, tag, assets, registry, latest, restarts, approved>>

Assets(c, envelope, receipt) ==
  LET chain == ws[c].chain IN
  [package |-> c, admitted |-> <<chain[1]>>,
   attested |-> <<chain[1], chain[2]>>, envelope |-> envelope,
   receipt |-> receipt]
Staged(c) == Assets(c, << >>, None)
Complete(c) == Assets(c, ws[c].chain, c)

\* gh release upload: refuses a name that is there already, and may stop with
\* some of the assets uploaded.
Upload(c, job, step, names, files, next) ==
  LET v == VersionOf[c]
      Uploaded(done) == [n \in DOMAIN NoAssets |->
                           IF n \in done THEN files[n] ELSE assets[v][n]]
  IN
  /\ At(c, job, step)
  /\ IF \A n \in names : assets[v][n] = NoAssets[n]
     THEN \E done \in SUBSET names :
            /\ assets' = [assets EXCEPT ![v] = Uploaded(done)]
            /\ IF done = names THEN Advance(c, next, ws[c])
                               ELSE Faults /\ Stop(c)
     ELSE Stop(c) /\ UNCHANGED assets
  /\ UNCHANGED <<outside, tag, release, registry, latest, restarts, approved>>

UploadStaged(c) ==
  Upload(c, "staging", "upload", {"package", "admitted", "attested"},
         Staged(c), "assets")

\* verify-github-release-assets.mjs
VerifyStaged(c) ==
  Close(c, "staging", "assets", assets[VersionOf[c]] = Staged(c), "publish",
        ws[c])

----------------------------------------------------------------------------
(* Publication and promotion *)

\* resolve-release-channel.mjs
Mapping(c) == Check(c, "publish", "mapping", RefName # "main", "registry")

Preflight(c) == Check(c, "publish", "registry", Absent(c), "revalidate")

\* npm publish, whose answer may be lost.
Publish(c) ==
  LET v == VersionOf[c] IN
  /\ At(c, "publish", "publish")
  /\ IF Absent(c)
     THEN /\ registry' = [registry EXCEPT ![v] = c] /\ latest' = v
          /\ Advance(c, "uploaded", ws[c]) \/ (Faults /\ Stop(c))
     ELSE Stop(c) /\ UNCHANGED <<registry, latest>>
  /\ UNCHANGED <<outside, tag, release, assets, restarts, approved>>

\* verify-postpublish.mjs, which runs twice
OnRegistry(c) == registry[VersionOf[c]] = c /\ latest = VersionOf[c]

VerifyUploaded(c) ==
  /\ At(c, "publish", "uploaded")
  /\ IF OnRegistry(c) THEN Advance(c, "final", Appended(c)) ELSE Stop(c)
  /\ UNCHANGED <<outside, services, restarts, approved>>

\* Mutant: the last state is missing from the envelope.
VerifyFinalUnrecorded(c) ==
  Close(c, "publish", "final", OnRegistry(c), "promotion", ws[c])

VerifyFinal(c) ==
  Close(c, "publish", "final", OnRegistry(c), "promotion", Appended(c))

Attach(c) ==
  Upload(c, "promotion", "attach", {"envelope", "receipt"}, Complete(c),
         "assets")

VerifyAttached(c) ==
  Check(c, "promotion", "assets", assets[VersionOf[c]] = Complete(c), "promote")

\* gh release edit --draft=false
Promote(c) ==
  /\ At(c, "promotion", "promote")
  /\ release' = [release EXCEPT ![VersionOf[c]] = "public"]
  /\ Advance(c, "done", ws[c])
  /\ UNCHANGED <<outside, tag, assets, registry, latest, restarts, approved>>

Step(c) ==
  \/ VerifyRun(c) \/ DownloadFirst(c) \/ ImportFirst(c) \/ PreflightFirst(c)
  \/ Sign(c)
  \/ VerifyTag(c) \/ DownloadAgain(c) \/ Import(c) \/ Readiness(c)
  \/ Record(c) \/ CreateDraft(c) \/ UploadStaged(c) \/ VerifyStaged(c)
  \/ Mapping(c) \/ Preflight(c) \/ Revalidate(c) \/ Publish(c)
  \/ VerifyUploaded(c) \/ VerifyFinal(c)
  \/ Attach(c) \/ VerifyAttached(c) \/ Promote(c)

Next ==
  \/ Merge
  \/ \E v \in Versions : PublishElsewhere(v)
  \/ \E c \in Commits :
       \/ Reattempt(c) \/ Lapse(c)
       \/ Dispatch(c) \/ Restart(c) \/ Crash(c) \/ Step(c)

Spec == Init /\ [][Next]_vars

\* The runners run what a dispatched run has to do.
FairSpec == Spec /\ \A c \in Commits : WF_vars(Step(c))

----------------------------------------------------------------------------
(* Properties *)

\* The evidence a release is admitted on is the evidence that was approved when
\* its tag was signed, although every job looks for itself and the authority's
\* run may have been attempted again (download-public-authority-bundle.mjs
\* 19-29, import-release-authority.mjs 66-99).
AdmittedAsSigned ==
  \A c \in Commits :
    ws[c].chain # << >> =>
      tag[VersionOf[c]] = [commit |-> c, attempt |-> ws[c].bundle]

\* A version that the workflow put on the registry is backed by the tag of its
\* commit and by a release that held its package and both early envelopes
\* before, whatever was run again (release.yml 146, 264-283, 331).
PublishedIsBacked ==
  \A v \in Versions :
    registry[v] \in Commits =>
      /\ tag[v].commit = registry[v]
      /\ release[v] # "none"
      /\ assets[v].package = registry[v]
      /\ Len(assets[v].admitted) = 1 /\ Len(assets[v].attested) = 2

\* What verify-release-recovery.mjs demands of a release, but for the dist-tag.
Coherent(v) ==
  /\ registry[v] \in Commits
  /\ tag[v].commit = registry[v]
  /\ assets[v].package = registry[v] /\ assets[v].receipt = registry[v]
  /\ Len(assets[v].envelope) = 4
  /\ assets[v].admitted = <<assets[v].envelope[1]>>
  /\ assets[v].attested = <<assets[v].envelope[1], assets[v].envelope[2]>>

\* A release that was made public is one package, one tag and one chain of
\* states, whichever jobs of whichever runs contributed to it.
PromotedIsCoherent ==
  \A v \in Versions : release[v] = "public" => Coherent(v)

(* The inductive invariant behind the three. *)

\* A run that is past its signature owns the tag, and what it carries is of the
\* evidence it was approved with.
Owned(c) ==
  /\ \A w \in {base[c], ws[c]} : w.chain # << >> => w.bundle = approved[c]
  /\ IF at[c].job \in {"none", "phaseA", "signTag"}
     THEN base[c].chain = << >> /\ ws[c].chain = << >>
     ELSE tag[VersionOf[c]] = [commit |-> c, attempt |-> approved[c]]
  /\ at[c].job = "admission" =>
       /\ base[c].chain = << >>
       /\ at[c].step \in {"import", "readiness"} =>
            ws[c].bundle = approved[c]

\* How many states the envelope has at each job and step.
Linked(c) ==
  /\ at[c].job = "staging" =>
       /\ Len(base[c].chain) = 1
       /\ at[c].step = "record" => Len(ws[c].chain) = 1
       /\ at[c].step \in {"create", "upload", "assets"} =>
            Len(ws[c].chain) = 2
  /\ at[c].job = "publish" =>
       /\ Len(base[c].chain) = 2
       /\ at[c].step \in {"mapping", "registry", "revalidate", "publish",
                          "uploaded"} => Len(ws[c].chain) = 2
       /\ at[c].step = "final" => Len(ws[c].chain) = 3
  /\ at[c].job = "promotion" =>
       Len(base[c].chain) = 4 /\ Len(ws[c].chain) = 4

\* What a run has left outside by the time it publishes and promotes.
Delivered(c) ==
  LET v == VersionOf[c] IN
  /\ at[c].step \in {"upload", "assets"} => release[v] # "none"
  /\ at[c].job \in {"publish", "promotion"} =>
       /\ release[v] # "none"
       /\ assets[v].package = c
       /\ \A w \in {base[c], ws[c]} :
            /\ Len(w.chain) >= 2
            /\ assets[v].admitted = <<w.chain[1]>>
            /\ assets[v].attested = <<w.chain[1], w.chain[2]>>
  /\ at[c].job = "promotion" => registry[v] = c
  /\ at[c] = [job |-> "promotion", step |-> "promote"] =>
       assets[v].envelope = ws[c].chain /\ assets[v].receipt = c

IInv ==
  /\ TypeOK
  /\ \A c \in Commits : Owned(c) /\ Linked(c) /\ Delivered(c)
  /\ PublishedIsBacked /\ PromotedIsCoherent

\* What one sees of the versions from outside follows the ledger: a version is
\* signed once, staged and published from its signed commit and nothing else,
\* made public after its publication was verified, and no job of no run undoes
\* or repeats any of it (release.yml 135-395).
Ledger == INSTANCE ReleaseLedger WITH
  signer <- [v \in Versions |-> tag[v].commit],
  package <- [v \in Versions |-> assets[v].package],
  holder <- registry,
  receipt <- [v \in Versions |-> assets[v].receipt],
  public <- [v \in Versions |-> release[v] = "public"]
ImplementsLedger == Ledger!Spec

\* verify-release-recovery.mjs
RecoveryVerifies(v) == Coherent(v) /\ latest = v

\* What release-recovery.yml:7 says it verifies: the "Exact historical package
\* version to verify", whatever was released after it.
HistoricalReleaseVerifies ==
  \A v \in Versions : release[v] = "public" => RecoveryVerifies(v)

\* What release.yml:7 says a dispatch does with a version: "admit, sign, and
\* publish".  A version that is signed is published, if nothing goes wrong.
SignedIsPublished ==
  \A v \in Versions : tag[v] # NoTag ~> registry[v] # None

============================================================================
