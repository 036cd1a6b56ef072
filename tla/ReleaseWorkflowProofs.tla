------------------------ MODULE ReleaseWorkflowProofs -----------------------
(***************************************************************************)
(* The safety of the release workflow for any number of commits, versions, *)
(* authority attempts and restarts: IInv of ReleaseWorkflow is inductive.  *)
(*                                                                         *)
(* What the workflow has done outside is never taken back (Kept), so what  *)
(* is known of a run survives the steps of all the others; each action     *)
(* then only has to be looked at for the run that takes it.                *)
(***************************************************************************)
EXTENDS ReleaseWorkflow, SequenceTheorems, TLAPS

Mine(c) == Owned(c) /\ Linked(c) /\ Delivered(c)

\* A run has come to a step of a job, in the workspace w of a job begun in b.
Moved(c, job, step, b, w) ==
  /\ at' \in [Commits -> [job : Jobs, step : Steps] \cup {Idle}]
  /\ base' \in [Commits -> Workspaces] /\ ws' \in [Commits -> Workspaces]
  /\ at'[c] = [job |-> job, step |-> step]
  /\ base'[c] = b /\ ws'[c] = w
  /\ \A d \in Commits \ {c} :
       at'[d] = at[d] /\ base'[d] = base[d] /\ ws'[d] = ws[d]

\* Nothing that is outside is taken back or replaced.
Kept ==
  \A v \in Versions :
    /\ tag[v] # NoTag => tag'[v] = tag[v]
    /\ release[v] # "none" => release'[v] # "none"
    /\ assets[v].package # None => assets'[v].package = assets[v].package
    /\ assets[v].admitted # << >> => assets'[v].admitted = assets[v].admitted
    /\ assets[v].attested # << >> => assets'[v].attested = assets[v].attested
    /\ assets[v].envelope # << >> => assets'[v].envelope = assets[v].envelope
    /\ assets[v].receipt # None => assets'[v].receipt = assets[v].receipt
    /\ registry[v] # None => registry'[v] = registry[v]

AssetSets ==
  [package : Commits \cup {None}, admitted : Seq(Starts),
   attested : Seq(Starts), envelope : Seq(Starts),
   receipt : Commits \cup {None}]

ServicesOK ==
  /\ tag \in [Versions -> [commit : Commits \cup {None}, attempt : Attempts]]
  /\ release \in [Versions -> {"none", "draft", "public"}]
  /\ assets \in [Versions -> AssetSets]
  /\ registry \in [Versions -> Commits \cup {None, Foreign}]
  /\ latest \in Versions \cup {None}

----------------------------------------------------------------------------
(* How a run moves *)

LEMMA JobSteps ==
  /\ Jobs = {"phaseA", "signTag", "admission", "staging", "publish",
             "promotion"}
  /\ \A job \in Jobs : First[job] \in Steps
  /\ First["phaseA"] = "verifyRun" /\ First["signTag"] = "sign"
  /\ First["admission"] = "verifyTag" /\ First["staging"] = "record"
  /\ First["publish"] = "mapping" /\ First["promotion"] = "attach"
  BY DEF Jobs, First, Steps

LEMMA CommitFacts ==
  /\ None \notin Commits /\ Foreign \notin Commits
  /\ \A c \in Commits : VersionOf[c] \in Versions /\ c # None
  /\ 1 \in Attempts /\ 0 \in Attempts /\ 0 \in Starts
  BY ReleaseAssumption DEF None, Foreign, Commits, Versions, Attempts, Starts

LEMMA SomeLength ==
  ASSUME NEW s, Len(s) # 0
  PROVE  s # << >>
  OBVIOUS

LEMMA Beginning ==
  ASSUME TypeOK, NEW c \in Commits, NEW job \in Jobs, NEW w \in Workspaces,
         Begin(c, job, w)
  PROVE  Moved(c, job, First[job], w, w)
  BY JobSteps DEF TypeOK, Begin, Moved

LEMMA Advancing ==
  ASSUME TypeOK, NEW c \in Commits, at[c].job \in Jobs, NEW step \in Steps,
         NEW w \in Workspaces, Advance(c, step, w)
  PROVE  Moved(c, at[c].job, step, base[c], w)
<1>1. at[c].job # "none"
  BY JobSteps
<1>2. at[c] \in [job : Jobs, step : Steps]
  BY <1>1 DEF TypeOK, Idle
<1>3. [at[c] EXCEPT !.step = step] = [job |-> at[c].job, step |-> step]
  BY <1>2
<1>4. at' = [at EXCEPT ![c] = [job |-> at[c].job, step |-> step]]
  BY <1>3 DEF Advance, TypeOK
<1>5. QED
  BY <1>2, <1>4 DEF TypeOK, Advance, Moved

LEMMA Stopping ==
  ASSUME TypeOK, NEW c \in Commits, at[c].job \in Jobs, Stop(c)
  PROVE  Moved(c, at[c].job, "failed", base[c], ws[c])
<1>1. at[c].job # "none"
  BY JobSteps
<1>2. at[c] \in [job : Jobs, step : Steps]
  BY <1>1 DEF TypeOK, Idle
<1>3. [at[c] EXCEPT !.step = "failed"] = [job |-> at[c].job, step |-> "failed"]
  BY <1>2
<1>4. at' = [at EXCEPT ![c] = [job |-> at[c].job, step |-> "failed"]]
  BY <1>3 DEF Stop, TypeOK
<1>5. "failed" \in Steps
  BY DEF Steps
<1>6. QED
  BY <1>2, <1>4, <1>5 DEF TypeOK, Stop, Moved

----------------------------------------------------------------------------
(* What survives the steps of others *)

LEMMA KeptWhenIdle ==
  ASSUME services' = services
  PROVE  Kept
  BY DEF services, Kept

\* A run that does not move or only stops is as sound as before.
LEMMA StillSound ==
  ASSUME TypeOK, Kept, NEW c \in Commits, Mine(c),
         \/ at'[c] = at[c]
         \/ at'[c] = [job |-> at[c].job, step |-> "failed"],
         base'[c] = base[c], ws'[c] = ws[c], approved'[c] = approved[c]
  PROVE  Mine(c)'
<1> DEFINE v == VersionOf[c]
<1>1. v \in Versions /\ c # None
  BY CommitFacts
<1>2. Owned(c)'
  <2>1. [commit |-> c, attempt |-> approved[c]] # NoTag
    BY <1>1 DEF NoTag
  <2>2. tag[v] = [commit |-> c, attempt |-> approved[c]] => tag'[v] = tag[v]
    BY <1>1, <2>1 DEF Kept
  <2>3. QED
    BY <2>2 DEF Mine, Owned
<1>3. Linked(c)'
  BY DEF Mine, Linked
<1>4. Delivered(c)'
  <2>1. release[v] # "none" => release'[v] # "none"
    BY <1>1 DEF Kept
  <2>2. CASE at[c].job \notin {"publish", "promotion"}
    BY <2>1, <2>2 DEF Mine, Delivered
  <2>3. CASE at[c].job \in {"publish", "promotion"}
    <3>1. /\ assets[v].package = c
          /\ \A w \in {base[c], ws[c]} :
               /\ Len(w.chain) >= 2
               /\ assets[v].admitted = <<w.chain[1]>>
               /\ assets[v].attested = <<w.chain[1], w.chain[2]>>
      BY <2>3 DEF Mine, Delivered
    <3>2. assets'[v].package = c
      BY <1>1, <3>1 DEF Kept
    <3>3. assets[v].admitted # << >> /\ assets[v].attested # << >>
      <4>1. /\ assets[v].admitted = <<ws[c].chain[1]>>
            /\ assets[v].attested = <<ws[c].chain[1], ws[c].chain[2]>>
        BY <3>1
      <4>2. QED
        BY <4>1
    <3>4. /\ assets'[v].admitted = assets[v].admitted
          /\ assets'[v].attested = assets[v].attested
      BY <1>1, <3>3 DEF Kept
    <3>5. at[c].job = "promotion" => registry'[v] = c
      BY <1>1 DEF Mine, Delivered, Kept
    <3>6. ASSUME at[c] = [job |-> "promotion", step |-> "promote"]
          PROVE  assets'[v].envelope = ws[c].chain /\ assets'[v].receipt = c
      <4>1. assets[v].envelope = ws[c].chain /\ assets[v].receipt = c
        BY <3>6 DEF Mine, Delivered
      <4>2. at[c].job = "promotion"
        BY <3>6
      <4>3. Len(ws[c].chain) = 4
        BY <4>2 DEF Mine, Linked
      <4>4. ws[c].chain # << >>
        BY <4>3, SomeLength
      <4>5. QED
        BY <1>1, <4>1, <4>4 DEF Kept
    <3>7. QED
      BY <2>1, <2>3, <3>1, <3>2, <3>4, <3>5, <3>6 DEF Mine, Delivered
  <2>4. QED
    BY <2>2, <2>3
<1>5. QED
  BY <1>2, <1>3, <1>4 DEF Mine

\* A version whose package was not published in this step stays backed.
LEMMA BackedSurvives ==
  ASSUME TypeOK, Kept, PublishedIsBacked, NEW v \in Versions,
         registry'[v] = registry[v], registry[v] \in Commits
  PROVE  /\ tag'[v].commit = registry'[v]
         /\ release'[v] # "none"
         /\ assets'[v].package = registry'[v]
         /\ Len(assets'[v].admitted) = 1 /\ Len(assets'[v].attested) = 2
<1>1. /\ tag[v].commit = registry[v]
      /\ release[v] # "none"
      /\ assets[v].package = registry[v]
      /\ Len(assets[v].admitted) = 1 /\ Len(assets[v].attested) = 2
  BY DEF PublishedIsBacked
<1>2. registry[v] # None
  BY CommitFacts
<1>3. tag[v] # NoTag
  BY <1>1, <1>2 DEF NoTag
<1>4. assets[v].admitted # << >> /\ assets[v].attested # << >>
  <2>1. Len(assets[v].admitted) # 0 /\ Len(assets[v].attested) # 0
    BY <1>1
  <2>2. QED
    BY <2>1, SomeLength
<1>5. QED
  BY <1>1, <1>2, <1>3, <1>4 DEF Kept

LEMMA CoherentSurvives ==
  ASSUME TypeOK, Kept, NEW v \in Versions, Coherent(v)
  PROVE  Coherent(v)'
<1>1. registry[v] # None
  BY CommitFacts DEF Coherent
<1>2. tag[v] # NoTag
  BY <1>1 DEF Coherent, NoTag
<1>3. /\ assets[v].admitted # << >> /\ assets[v].attested # << >>
      /\ assets[v].envelope # << >>
  BY DEF Coherent
<1>4. /\ assets[v].package # None /\ assets[v].receipt # None
  BY <1>1 DEF Coherent
<1>5. QED
  BY <1>1, <1>2, <1>3, <1>4 DEF Kept, Coherent

\* All of them, while the run c moves.
Sound(c) ==
  /\ TypeOK'
  /\ Mine(c)'
  /\ \A d \in Commits \ {c} :
       /\ at'[d] = at[d] /\ base'[d] = base[d] /\ ws'[d] = ws[d]
       /\ approved'[d] = approved[d]

LEMMA AllSound ==
  ASSUME IInv, Kept, NEW c \in Commits, Sound(c)
  PROVE  \A d \in Commits : Mine(d)'
<1>1. ASSUME NEW d \in Commits \ {c}
      PROVE  Mine(d)'
  BY <1>1, StillSound DEF IInv, Mine, Sound
<1>2. QED
  BY <1>1 DEF Sound

LEMMA AllBacked ==
  ASSUME IInv, Kept,
         \A v \in Versions :
           \/ registry'[v] = registry[v] \/ registry'[v] \notin Commits
           \/ /\ tag'[v].commit = registry'[v] /\ release'[v] # "none"
              /\ assets'[v].package = registry'[v]
              /\ Len(assets'[v].admitted) = 1
              /\ Len(assets'[v].attested) = 2
  PROVE  PublishedIsBacked'
<1> SUFFICES ASSUME NEW v \in Versions, registry'[v] \in Commits
             PROVE  /\ tag'[v].commit = registry'[v]
                    /\ release'[v] # "none"
                    /\ assets'[v].package = registry'[v]
                    /\ Len(assets'[v].admitted) = 1
                    /\ Len(assets'[v].attested) = 2
  BY DEF PublishedIsBacked
<1>1. CASE registry'[v] = registry[v]
  BY <1>1, BackedSurvives DEF IInv
<1>2. QED
  BY <1>1

LEMMA AllCoherent ==
  ASSUME IInv, Kept,
         \A v \in Versions :
           release'[v] = "public" => release[v] = "public" \/ Coherent(v)
  PROVE  PromotedIsCoherent'
<1> SUFFICES ASSUME NEW v \in Versions, release'[v] = "public"
             PROVE  Coherent(v)'
  BY DEF PromotedIsCoherent
<1>1. Coherent(v)
  BY DEF IInv, PromotedIsCoherent
<1>2. QED
  BY <1>1, CoherentSurvives DEF IInv

LEMMA MovedTypes ==
  ASSUME TypeOK, NEW c \in Commits, NEW job, NEW step, NEW b, NEW w,
         Moved(c, job, step, b, w), ServicesOK',
         UNCHANGED <<outside, restarts, approved>>
  PROVE  TypeOK'
  BY DEF TypeOK, Moved, ServicesOK, AssetSets, outside

LEMMA ServicesSame ==
  ASSUME TypeOK, services' = services
  PROVE  ServicesOK'
  BY DEF TypeOK, services, ServicesOK, AssetSets

\* A job that stops, whatever it has left outside.
LEMMA StopSound ==
  ASSUME IInv, NEW c \in Commits, at[c].job \in Jobs, Stop(c), Kept,
         ServicesOK', UNCHANGED <<outside, restarts, approved>>
  PROVE  Sound(c)
<1>1. Moved(c, at[c].job, "failed", base[c], ws[c])
  BY Stopping DEF IInv
<1>2. TypeOK'
  BY <1>1, MovedTypes DEF IInv
<1>3. Mine(c)'
  BY <1>1, StillSound DEF IInv, Mine, Moved
<1>4. QED
  BY <1>1, <1>2, <1>3 DEF Sound, Moved

\* A step that changes nothing outside and stops its job, or does what is shown
\* to be sound.
LEMMA MoveSound ==
  ASSUME IInv, NEW c \in Commits, NEW job, NEW step, NEW b, NEW w,
         Moved(c, job, step, b, w), Mine(c)', ServicesOK',
         UNCHANGED <<outside, restarts, approved>>
  PROVE  Sound(c)
<1>1. TypeOK'
  BY MovedTypes DEF IInv
<1>2. QED
  BY <1>1 DEF Sound, Moved

----------------------------------------------------------------------------
(* Steps that only look, and the evidence *)

\* A run in a job that has signed nothing yet, or is about to start one.
LEMMA EarlySound ==
  ASSUME IInv, NEW c \in Commits, NEW job \in {"phaseA", "signTag"},
         NEW step \in Steps \ {"upload", "assets"}, NEW b, NEW w,
         Moved(c, job, step, b, w), b.chain = << >>, w.chain = << >>
  PROVE  Mine(c)'
  BY DEF Moved, Mine, Owned, Linked, Delivered

\* A run in the admission holds the approved evidence from the import on.
LEMMA AdmissionSound ==
  ASSUME IInv, NEW c \in Commits, NEW step \in Steps \ {"upload", "assets"},
         NEW b, NEW w, Moved(c, "admission", step, b, w),
         b.chain = << >>,
         step \in {"import", "readiness"} \/ w.chain # << >> =>
           w.bundle = approved'[c],
         tag'[VersionOf[c]] = [commit |-> c, attempt |-> approved'[c]]
  PROVE  Mine(c)'
  BY DEF Moved, Mine, Owned, Linked, Delivered

LEMMA CheckSound ==
  ASSUME IInv, NEW c \in Commits, NEW job \in Jobs, NEW step \in Steps, NEW ok,
         NEW next \in Steps, Check(c, job, step, ok, next),
         ok /\ Moved(c, job, next, base[c], ws[c]) => Mine(c)'
  PROVE  Sound(c) /\ services' = services
<1>1. /\ at[c].job = job /\ services' = services
      /\ UNCHANGED <<outside, restarts, approved>>
  BY DEF Check, At
<1>2. Kept /\ ServicesOK'
  BY <1>1, KeptWhenIdle, ServicesSame DEF IInv
<1>3. CASE ~ok
  BY <1>1, <1>2, <1>3, StopSound DEF Check
<1>4. CASE ok
  <2>1. Advance(c, next, ws[c]) /\ ws[c] \in Workspaces
    BY <1>4 DEF Check, IInv, TypeOK
  <2>2. Moved(c, job, next, base[c], ws[c])
    BY <1>1, <2>1, Advancing DEF IInv
  <2>3. QED
    BY <1>1, <1>2, <1>4, <2>2, MoveSound
<1>5. QED
  BY <1>3, <1>4, <1>1

LEMMA CloseSound ==
  ASSUME IInv, NEW c \in Commits, NEW job \in Jobs, NEW step \in Steps, NEW ok,
         NEW next \in Jobs, NEW w \in Workspaces,
         Close(c, job, step, ok, next, w),
         ok /\ Moved(c, next, First[next], w, w) => Mine(c)'
  PROVE  Sound(c) /\ services' = services
<1>1. /\ at[c].job = job /\ services' = services
      /\ UNCHANGED <<outside, restarts, approved>>
  BY DEF Close, At
<1>2. Kept /\ ServicesOK'
  BY <1>1, KeptWhenIdle, ServicesSame DEF IInv
<1>3. CASE ~ok
  BY <1>1, <1>2, <1>3, StopSound DEF Close
<1>4. CASE ok
  <2>1. Begin(c, next, w)
    BY <1>4 DEF Close
  <2>2. Moved(c, next, First[next], w, w)
    BY <2>1, Beginning DEF IInv
  <2>3. QED
    BY <1>1, <1>2, <1>4, <2>2, MoveSound
<1>5. QED
  BY <1>3, <1>4, <1>1

\* A step that takes its run from one step to the next in the workspace w.
LEMMA AdvanceSound ==
  ASSUME IInv, NEW c \in Commits, NEW job \in Jobs, at[c].job = job,
         NEW step \in Steps, NEW w \in Workspaces, Advance(c, step, w),
         UNCHANGED <<outside, restarts, approved>>, ServicesOK',
         Moved(c, job, step, base[c], w) => Mine(c)'
  PROVE  Sound(c)
<1>1. Moved(c, job, step, base[c], w)
  BY Advancing DEF IInv
<1>2. QED
  BY <1>1, MoveSound

----------------------------------------------------------------------------
(* The actions of a run up to its tag *)

LEMMA VerifyRunSound ==
  ASSUME IInv, NEW c \in Commits, VerifyRun(c)
  PROVE  Sound(c) /\ services' = services
<1> DEFINE w == [ws[c] EXCEPT !.run = authority[c]]
<1>1. /\ services' = services /\ UNCHANGED <<outside, restarts, approved>>
      /\ tag' = tag /\ Advance(c, "download", w)
  BY DEF VerifyRun, services
<1>2. /\ w \in Workspaces /\ w.chain = ws[c].chain
      /\ w.bundle = ws[c].bundle
  BY DEF IInv, TypeOK, Workspaces
<1>3. ServicesOK' /\ "download" \in Steps
  BY <1>1, ServicesSame DEF IInv, Steps
<1>4. at[c].job \in {"phaseA", "admission"}
  BY DEF VerifyRun, At
<1>5. Owned(c)
  BY DEF IInv
<1> HIDE DEF w
<1>6. ASSUME Moved(c, at[c].job, "download", base[c], w)
      PROVE  Mine(c)'
  <2>1. CASE at[c].job = "phaseA"
    BY <1>2, <1>3, <1>5, <1>6, <2>1, EarlySound DEF Owned
  <2>2. CASE at[c].job = "admission"
    BY <1>1, <1>2, <1>3, <1>5, <1>6, <2>2, AdmissionSound DEF Owned
  <2>3. QED
    BY <1>4, <2>1, <2>2
<1>7. QED
  BY <1>1, <1>2, <1>3, <1>4, <1>6, AdvanceSound, JobSteps

LEMMA DownloadFirstSound ==
  ASSUME IInv, NEW c \in Commits, DownloadFirst(c)
  PROVE  Sound(c) /\ services' = services
<1> DEFINE w == [ws[c] EXCEPT !.bundle = authority[c]]
<1>1. /\ services' = services /\ UNCHANGED <<outside, restarts>>
      /\ Advance(c, "import", w) /\ at[c].job = "phaseA"
      /\ approved' = [approved EXCEPT ![c] = authority[c]]
  BY DEF DownloadFirst, At
<1>2. w \in Workspaces /\ w.chain = ws[c].chain
  BY DEF IInv, TypeOK, Workspaces
<1>3. ServicesOK' /\ "import" \in Steps
  BY <1>1, ServicesSame DEF IInv, Steps
<1> HIDE DEF w
<1>4. Moved(c, "phaseA", "import", base[c], w)
  BY <1>1, <1>2, <1>3, Advancing, JobSteps DEF IInv
<1>5. Mine(c)'
  <2>1. base[c].chain = << >> /\ w.chain = << >>
    BY <1>1, <1>2 DEF IInv, Owned
  <2>2. QED
    BY <1>3, <1>4, <2>1, EarlySound
<1>6. TypeOK'
  BY <1>1, <1>3, <1>4 DEF IInv, TypeOK, ServicesOK, AssetSets, Moved, outside
<1>7. \A d \in Commits \ {c} : approved'[d] = approved[d]
  BY <1>1 DEF IInv, TypeOK
<1>8. QED
  BY <1>1, <1>4, <1>5, <1>6, <1>7 DEF Sound, Moved

LEMMA ImportFirstSound ==
  ASSUME IInv, NEW c \in Commits, ImportFirst(c)
  PROVE  Sound(c) /\ services' = services
<1>1. /\ at[c].job = "phaseA" /\ "registry" \in Steps /\ "import" \in Steps
      /\ Check(c, "phaseA", "import", Genuine(c), "registry")
  BY DEF ImportFirst, Check, At, Steps
<1>2. ASSUME Moved(c, "phaseA", "registry", base[c], ws[c])
      PROVE  Mine(c)'
  BY <1>1, <1>2, EarlySound DEF IInv, Owned
<1>3. QED
  BY <1>1, <1>2, CheckSound, JobSteps

LEMMA PreflightFirstSound ==
  ASSUME IInv, NEW c \in Commits, PreflightFirst(c)
  PROVE  Sound(c) /\ services' = services
<1>1. /\ at[c].job = "phaseA" /\ "registry" \in Steps /\ "sign" \in Steps
      /\ Close(c, "phaseA", "registry", Absent(c), "signTag", ws[c])
      /\ ws[c] \in Workspaces
  BY DEF PreflightFirst, Close, At, Steps, IInv, TypeOK
<1>2. ASSUME Moved(c, "signTag", "sign", ws[c], ws[c])
      PROVE  Mine(c)'
  BY <1>1, <1>2, EarlySound DEF IInv, Owned
<1>3. QED
  BY <1>1, <1>2, CloseSound, JobSteps

\* A pushed tag is of this commit and of the attempt approved for it; a tag
\* that is there already is not touched.
LEMMA SignSound ==
  ASSUME IInv, NEW c \in Commits, Sign(c)
  PROVE  /\ Sound(c) /\ Kept
         /\ UNCHANGED <<release, assets, registry, latest>>
<1> DEFINE v == VersionOf[c]
           signed == [commit |-> c, attempt |-> approved[c]]
           ok == Signable(c) /\ tag[v] = NoTag
<1>1. /\ UNCHANGED <<release, assets, registry, latest>>
      /\ UNCHANGED <<outside, restarts, approved>>
      /\ at[c].job = "signTag" /\ v \in Versions
  BY CommitFacts DEF Sign, SignWhen, At
<1>2. CASE ~ok
  <2>1. Stop(c) /\ tag' = tag
    BY <1>2 DEF Sign, SignWhen
  <2>2. services' = services
    BY <1>1, <2>1 DEF services
  <2>3. QED
    BY <1>1, <2>1, <2>2, KeptWhenIdle, ServicesSame, StopSound, JobSteps
    DEF IInv
<1>3. CASE ok
  <2>1. /\ tag' = [tag EXCEPT ![v] = signed]
        /\ Begin(c, "admission", Fresh) \/ Stop(c)
    BY <1>3 DEF Sign, SignWhen
  <2>2. /\ signed \in [commit : Commits \cup {None}, attempt : Attempts]
        /\ Fresh \in Workspaces /\ Fresh.chain = << >>
    BY CommitFacts, EmptySeq DEF IInv, TypeOK, Workspaces, Fresh
  <2>3. Kept
    BY <1>1, <1>3, <2>1 DEF Kept, IInv, TypeOK
  <2>4. ServicesOK'
    BY <1>1, <2>1, <2>2 DEF IInv, TypeOK, ServicesOK, AssetSets
  <2>5. CASE Stop(c)
    BY <1>1, <2>3, <2>4, <2>5, StopSound, JobSteps
  <2>6. CASE Begin(c, "admission", Fresh)
    <3>1. Moved(c, "admission", "verifyTag", Fresh, Fresh)
      BY <2>2, <2>6, Beginning, JobSteps DEF IInv
    <3>2. tag'[v] = [commit |-> c, attempt |-> approved'[c]]
      BY <1>1, <2>1 DEF IInv, TypeOK
    <3>3. Mine(c)'
      BY <2>2, <3>1, <3>2, AdmissionSound DEF Steps
    <3>4. QED
      BY <1>1, <2>3, <2>4, <3>1, <3>3, MoveSound
  <2>7. QED
    BY <2>1, <2>5, <2>6
<1>4. QED
  BY <1>2, <1>3

----------------------------------------------------------------------------
(* The actions of a run from its tag to the staged release *)

LEMMA VerifyTagSound ==
  ASSUME IInv, NEW c \in Commits, VerifyTag(c)
  PROVE  Sound(c) /\ services' = services
<1>1. /\ Check(c, "admission", "verifyTag", tag[VersionOf[c]].commit = c,
               "verifyRun")
      /\ at[c].job = "admission" /\ UNCHANGED <<tag, approved>>
      /\ "verifyTag" \in Steps /\ "verifyRun" \in Steps
  BY DEF VerifyTag, Check, At, services, Steps
<1>2. Owned(c)
  BY DEF IInv
<1>3. ASSUME Moved(c, "admission", "verifyRun", base[c], ws[c])
      PROVE  Mine(c)'
  BY <1>1, <1>2, <1>3, AdmissionSound DEF Owned
<1>4. QED
  BY <1>1, <1>3, CheckSound, JobSteps

LEMMA DownloadAgainSound ==
  ASSUME IInv, NEW c \in Commits, DownloadAgain(c)
  PROVE  Sound(c) /\ services' = services
<1> DEFINE w == [ws[c] EXCEPT !.bundle = authority[c]]
<1>1. /\ services' = services /\ UNCHANGED <<outside, restarts, approved>>
      /\ at[c].job = "admission" /\ tag' = tag
      /\ (Continues(c) /\ Advance(c, "import", w)) \/ Stop(c)
  BY DEF DownloadAgain, At, services
<1>2. w \in Workspaces /\ w.bundle = authority[c]
  BY DEF IInv, TypeOK, Workspaces
<1>3. ServicesOK' /\ Kept /\ "import" \in Steps
  BY <1>1, ServicesSame, KeptWhenIdle DEF IInv, Steps
<1>4. Owned(c)
  BY DEF IInv
<1> HIDE DEF w
<1>5. CASE Continues(c) /\ Advance(c, "import", w)
  <2>1. w.bundle = approved'[c]
    BY <1>1, <1>2, <1>5 DEF Continues
  <2>2. ASSUME Moved(c, "admission", "import", base[c], w)
        PROVE  Mine(c)'
    BY <1>1, <1>3, <1>4, <2>1, <2>2, AdmissionSound DEF Owned
  <2>3. QED
    BY <1>1, <1>2, <1>3, <1>5, <2>2, AdvanceSound, JobSteps
<1>6. CASE Stop(c)
  BY <1>1, <1>3, <1>6, StopSound, JobSteps
<1>7. QED
  BY <1>1, <1>5, <1>6

\* Appending a state leaves the evidence and the states before it.
LEMMA Appending ==
  ASSUME TypeOK, NEW c \in Commits
  PROVE  /\ Appended(c) \in Workspaces
         /\ Appended(c).bundle = ws[c].bundle
         /\ Appended(c).chain = Append(ws[c].chain, restarts[c])
         /\ Len(ws[c].chain) \in Nat
         /\ Len(Appended(c).chain) = Len(ws[c].chain) + 1
         /\ \A i \in 1..Len(ws[c].chain) :
              Appended(c).chain[i] = ws[c].chain[i]
<1>1. ws[c] \in Workspaces /\ restarts[c] \in Starts
  BY DEF TypeOK
<1>2. ws[c].chain \in Seq(Starts) /\ Len(ws[c].chain) \in Nat
  BY <1>1, LenProperties DEF Workspaces
<1>3. Append(ws[c].chain, restarts[c]) \in Seq(Starts)
  BY <1>1, <1>2
<1>4. /\ Appended(c) \in Workspaces
      /\ Appended(c).bundle = ws[c].bundle
      /\ Appended(c).chain = Append(ws[c].chain, restarts[c])
  BY <1>1, <1>3 DEF Appended, Workspaces
<1>5. QED
  BY <1>1, <1>2, <1>4, AppendProperties

LEMMA ImportSound ==
  ASSUME IInv, NEW c \in Commits, Import(c)
  PROVE  Sound(c) /\ services' = services
<1>1. /\ services' = services /\ UNCHANGED <<outside, restarts, approved>>
      /\ at[c].job = "admission" /\ at[c].step = "import" /\ tag' = tag
      /\ Advance(c, "readiness", Appended(c)) \/ Stop(c)
  BY DEF Import, At, services
<1>2. ServicesOK' /\ Kept /\ "readiness" \in Steps
  BY <1>1, ServicesSame, KeptWhenIdle DEF IInv, Steps
<1>3. Owned(c)
  BY DEF IInv
<1>4. Appended(c) \in Workspaces /\ Appended(c).bundle = approved'[c]
  BY <1>1, <1>3, Appending DEF IInv, Owned
<1>5. CASE Advance(c, "readiness", Appended(c))
  <2>1. ASSUME Moved(c, "admission", "readiness", base[c], Appended(c))
        PROVE  Mine(c)'
    BY <1>1, <1>2, <1>3, <1>4, <2>1, AdmissionSound DEF Owned
  <2>2. QED
    BY <1>1, <1>2, <1>4, <1>5, <2>1, AdvanceSound, JobSteps
<1>6. CASE Stop(c)
  BY <1>1, <1>2, <1>6, StopSound, JobSteps
<1>7. QED
  BY <1>1, <1>5, <1>6

\* A run in the staging job has one state and then two, and later a draft.
LEMMA StagingSound ==
  ASSUME IInv, NEW c \in Commits, NEW step \in Steps, NEW b, NEW w,
         Moved(c, "staging", step, b, w),
         b.bundle = approved'[c], w.bundle = approved'[c],
         tag'[VersionOf[c]] = [commit |-> c, attempt |-> approved'[c]],
         Len(b.chain) = 1, Len(w.chain) = IF step = "record" THEN 1 ELSE 2,
         step \in {"upload", "assets"} => release'[VersionOf[c]] # "none"
  PROVE  Mine(c)'
  BY DEF Moved, Mine, Owned, Linked, Delivered

\* What is known of a run in the staging job that has not stopped.
LEMMA InStaging ==
  ASSUME IInv, NEW c \in Commits, at[c].job = "staging",
         Len(ws[c].chain) # 0
  PROVE  /\ base[c].bundle = approved[c] /\ ws[c].bundle = approved[c]
         /\ tag[VersionOf[c]] = [commit |-> c, attempt |-> approved[c]]
         /\ Len(base[c].chain) = 1
<1>1. Owned(c) /\ Linked(c)
  BY DEF IInv
<1>2. Len(base[c].chain) = 1
  BY <1>1 DEF Linked
<1>3. Len(base[c].chain) # 0
  BY <1>2
<1>4. base[c].chain # << >> /\ ws[c].chain # << >>
  BY <1>3, SomeLength
<1>5. QED
  BY <1>1, <1>2, <1>4 DEF Owned

LEMMA ReadinessSound ==
  ASSUME IInv, NEW c \in Commits, Readiness(c)
  PROVE  Sound(c) /\ services' = services
<1> DEFINE ok == ws[c].bundle > lapsed[c] /\ Len(ws[c].chain) = 1
<1>1. /\ Close(c, "admission", "readiness", ok, "staging", ws[c])
      /\ at[c].job = "admission" /\ UNCHANGED <<tag, approved>>
      /\ "readiness" \in Steps /\ "record" \in Steps
      /\ ws[c] \in Workspaces
  BY DEF Readiness, Close, At, services, Steps, IInv, TypeOK
<1>2. Owned(c)
  BY DEF IInv
<1>3. ASSUME ok, Moved(c, "staging", "record", ws[c], ws[c])
      PROVE  Mine(c)'
  <2>1. ws[c].chain # << >> /\ Len(ws[c].chain) = 1
    BY <1>3, SomeLength
  <2>2. /\ ws[c].bundle = approved[c]
        /\ tag[VersionOf[c]] = [commit |-> c, attempt |-> approved[c]]
    BY <1>1, <1>2, <2>1 DEF Owned
  <2>3. QED
    BY <1>1, <1>3, <2>1, <2>2, StagingSound
<1> HIDE DEF ok
<1>4. QED
  BY <1>1, <1>3, CloseSound, JobSteps

LEMMA RecordSound ==
  ASSUME IInv, NEW c \in Commits, Record(c)
  PROVE  Sound(c) /\ services' = services
<1>1. /\ services' = services /\ UNCHANGED <<outside, restarts, approved>>
      /\ at[c].job = "staging" /\ at[c].step = "record" /\ tag' = tag
      /\ Advance(c, "create", Appended(c))
  BY DEF Record, At, services
<1>2. ServicesOK' /\ "create" \in Steps
  BY <1>1, ServicesSame DEF IInv, Steps
<1>3. Len(ws[c].chain) = 1
  BY <1>1 DEF IInv, Linked
<1>4. /\ Appended(c) \in Workspaces /\ Appended(c).bundle = ws[c].bundle
      /\ Len(Appended(c).chain) = 2
  <2>1. TypeOK
    BY DEF IInv
  <2>2. /\ Appended(c) \in Workspaces /\ Appended(c).bundle = ws[c].bundle
        /\ Len(Appended(c).chain) = Len(ws[c].chain) + 1
    BY <2>1, Appending
  <2>3. QED
    BY <1>3, <2>2
<1>5. ASSUME Moved(c, "staging", "create", base[c], Appended(c))
      PROVE  Mine(c)'
  <2>1. /\ base[c].bundle = approved[c] /\ ws[c].bundle = approved[c]
        /\ tag[VersionOf[c]] = [commit |-> c, attempt |-> approved[c]]
        /\ Len(base[c].chain) = 1
    <3>1. Len(ws[c].chain) # 0
      BY <1>3
    <3>2. QED
      BY <1>1, <3>1, InStaging
  <2>2. QED
    BY <1>1, <1>2, <1>4, <1>5, <2>1, StagingSound
<1>6. QED
  BY <1>1, <1>2, <1>4, <1>5, AdvanceSound, JobSteps

LEMMA CreateDraftSound ==
  ASSUME IInv, NEW c \in Commits, CreateDraft(c)
  PROVE  /\ Sound(c) /\ Kept /\ UNCHANGED <<tag, assets, registry, latest>>
         /\ \A v \in Versions : release'[v] \in {release[v], "draft"}
<1> DEFINE v == VersionOf[c]
<1>1. /\ UNCHANGED <<tag, assets, registry, latest>>
      /\ UNCHANGED <<outside, restarts, approved>>
      /\ at[c].job = "staging" /\ at[c].step = "create" /\ v \in Versions
      /\ \/ /\ release[v] = "none"
            /\ release' = [release EXCEPT ![v] = "draft"]
            /\ Advance(c, "upload", ws[c])
         \/ Stop(c) /\ release' = release
  BY CommitFacts DEF CreateDraft, At
<1>2. /\ ServicesOK' /\ Kept
      /\ \A u \in Versions : release'[u] \in {release[u], "draft"}
  BY <1>1 DEF IInv, TypeOK, ServicesOK, AssetSets, Kept
<1>3. CASE Stop(c)
  BY <1>1, <1>2, <1>3, StopSound, JobSteps
<1>4. CASE /\ release' = [release EXCEPT ![v] = "draft"]
           /\ Advance(c, "upload", ws[c])
  <2>1. Len(ws[c].chain) = 2 /\ ws[c] \in Workspaces /\ "upload" \in Steps
    BY <1>1 DEF IInv, Linked, TypeOK, Steps
  <2>2. release'[v] # "none"
    BY <1>1, <1>4 DEF IInv, TypeOK
  <2>3. ASSUME Moved(c, "staging", "upload", base[c], ws[c])
        PROVE  Mine(c)'
    <3>1. /\ base[c].bundle = approved[c] /\ ws[c].bundle = approved[c]
          /\ tag[v] = [commit |-> c, attempt |-> approved[c]]
          /\ Len(base[c].chain) = 1
      BY <1>1, <2>1, InStaging
    <3>2. QED
      BY <1>1, <2>1, <2>2, <2>3, <3>1, StagingSound
  <2>4. QED
    BY <1>1, <1>2, <1>4, <2>1, <2>3, AdvanceSound, JobSteps
<1>5. QED
  BY <1>1, <1>3, <1>4

----------------------------------------------------------------------------
(* Uploading *)

LEMMA AssetNames ==
  /\ DOMAIN NoAssets = {"package", "admitted", "attested", "envelope",
                         "receipt"}
  /\ NoAssets["package"] = None /\ NoAssets["admitted"] = << >>
  /\ NoAssets["attested"] = << >> /\ NoAssets["envelope"] = << >>
  /\ NoAssets["receipt"] = None
  BY DEF NoAssets

\* An upload adds assets under new names and touches no others.
LEMMA Uploading ==
  ASSUME TypeOK, NEW c \in Commits, NEW job, NEW step,
         NEW names \in SUBSET DOMAIN NoAssets, NEW files \in AssetSets, NEW next,
         Upload(c, job, step, names, files, next)
  PROVE  /\ Kept /\ ServicesOK'
         /\ UNCHANGED <<tag, release, registry, latest>>
         /\ \/ Stop(c)
            \/ /\ Advance(c, next, ws[c])
               /\ \A n \in DOMAIN NoAssets :
                    assets'[VersionOf[c]][n] =
                      IF n \in names THEN files[n]
                                     ELSE assets[VersionOf[c]][n]
<1> DEFINE v == VersionOf[c]
           Uploaded(done) == [n \in DOMAIN NoAssets |->
                                IF n \in done THEN files[n] ELSE assets[v][n]]
<1>1. UNCHANGED <<tag, release, registry, latest>> /\ v \in Versions
  BY CommitFacts DEF Upload
<1>2. CASE assets' = assets
  <2>1. Kept /\ ServicesOK'
    BY <1>1, <1>2, KeptWhenIdle, ServicesSame DEF services
  <2>2. CASE ~\A n \in names : assets[v][n] = NoAssets[n]
    BY <1>1, <2>1, <2>2 DEF Upload
  <2>3. CASE \A n \in names : assets[v][n] = NoAssets[n]
    <3>1. PICK done \in SUBSET names :
            /\ assets' = [assets EXCEPT ![v] = Uploaded(done)]
            /\ IF done = names THEN Advance(c, next, ws[c])
                               ELSE Faults /\ Stop(c)
      BY <2>3 DEF Upload
    <3>2. assets'[v] = Uploaded(done)
      BY <1>1, <3>1 DEF TypeOK
    <3>3. QED
      BY <1>1, <2>1, <3>1, <3>2
  <2>4. QED
    BY <2>2, <2>3
<1>3. CASE assets' # assets
  <2>1. \A n \in names : assets[v][n] = NoAssets[n]
    BY <1>3 DEF Upload
  <2>2. PICK done \in SUBSET names :
          /\ assets' = [assets EXCEPT ![v] = Uploaded(done)]
          /\ IF done = names THEN Advance(c, next, ws[c])
                             ELSE Faults /\ Stop(c)
    BY <2>1 DEF Upload
  <2>3. assets'[v] = Uploaded(done) /\ assets[v] \in AssetSets
    BY <1>1, <2>2 DEF TypeOK, AssetSets
  <2>4. Uploaded(done) =
          [package |-> Uploaded(done)["package"],
           admitted |-> Uploaded(done)["admitted"],
           attested |-> Uploaded(done)["attested"],
           envelope |-> Uploaded(done)["envelope"],
           receipt |-> Uploaded(done)["receipt"]]
    BY AssetNames
  <2>5. Uploaded(done) \in AssetSets
    BY <2>3, <2>4, AssetNames DEF AssetSets
  <2>6. ServicesOK'
    BY <1>1, <2>2, <2>5 DEF TypeOK, ServicesOK, AssetSets
  <2>7. Kept
    <3>1. /\ assets[v].package # None => assets'[v].package = assets[v].package
          /\ assets[v].admitted # << >> =>
               assets'[v].admitted = assets[v].admitted
          /\ assets[v].attested # << >> =>
               assets'[v].attested = assets[v].attested
          /\ assets[v].envelope # << >> =>
               assets'[v].envelope = assets[v].envelope
          /\ assets[v].receipt # None => assets'[v].receipt = assets[v].receipt
      BY <2>1, <2>3, AssetNames
    <3>2. \A u \in Versions \ {v} : assets'[u] = assets[u]
      BY <2>2 DEF TypeOK
    <3>3. QED
      BY <1>1, <3>1, <3>2 DEF Kept
  <2>8. QED
    BY <1>1, <2>2, <2>3, <2>6, <2>7
<1>4. QED
  BY <1>2, <1>3

LEMMA StagedTyped ==
  ASSUME TypeOK, NEW c \in Commits, Len(ws[c].chain) = 2
  PROVE  /\ Staged(c) \in AssetSets
         /\ Staged(c).package = c
         /\ Staged(c).admitted = <<ws[c].chain[1]>>
         /\ Staged(c).attested = <<ws[c].chain[1], ws[c].chain[2]>>
<1>1. ws[c].chain \in Seq(Starts)
  BY DEF TypeOK, Workspaces
<1>2. ws[c].chain[1] \in Starts /\ ws[c].chain[2] \in Starts
  BY <1>1, ElementOfSeq
<1>3. << >> \in Seq(Starts)
  OBVIOUS
<1>4. QED
  BY <1>2, <1>3 DEF Staged, Assets, AssetSets

LEMMA UploadStagedSound ==
  ASSUME IInv, NEW c \in Commits, UploadStaged(c)
  PROVE  /\ Sound(c) /\ Kept
         /\ UNCHANGED <<tag, release, registry, latest>>
<1> DEFINE v == VersionOf[c]
           names == {"package", "admitted", "attested"}
<1>1. /\ at[c].job = "staging" /\ at[c].step = "upload"
      /\ UNCHANGED <<outside, restarts, approved>>
  BY DEF UploadStaged, Upload, At
<1>2. /\ TypeOK /\ Len(ws[c].chain) = 2 /\ release[v] # "none"
      /\ ws[c] \in Workspaces /\ "assets" \in Steps
  BY <1>1 DEF IInv, Linked, Delivered, TypeOK, Steps
<1>3. names \in SUBSET DOMAIN NoAssets /\ Staged(c) \in AssetSets
  BY <1>2, StagedTyped, AssetNames
<1>4. Upload(c, "staging", "upload", names, Staged(c), "assets")
  BY DEF UploadStaged
<1>5. /\ Kept /\ ServicesOK'
      /\ UNCHANGED <<tag, release, registry, latest>>
      /\ Stop(c) \/ Advance(c, "assets", ws[c])
  <2> HIDE DEF names
  <2>1. QED
    BY <1>2, <1>3, <1>4, Uploading
<1>6. CASE Stop(c)
  BY <1>1, <1>5, <1>6, StopSound, JobSteps
<1>7. CASE Advance(c, "assets", ws[c])
  <2>1. ASSUME Moved(c, "staging", "assets", base[c], ws[c])
        PROVE  Mine(c)'
    <3>1. Len(ws[c].chain) # 0
      BY <1>2
    <3>2. /\ base[c].bundle = approved[c] /\ ws[c].bundle = approved[c]
          /\ tag[v] = [commit |-> c, attempt |-> approved[c]]
          /\ Len(base[c].chain) = 1
      BY <1>1, <3>1, InStaging
    <3>3. QED
      BY <1>1, <1>2, <1>5, <2>1, <3>2, StagingSound
  <2>2. QED
    BY <1>1, <1>2, <1>5, <1>7, <2>1, AdvanceSound, JobSteps
<1>8. QED
  BY <1>5, <1>6, <1>7

\* What is known of a run that is about to publish, or has.
LEMMA PublishingSound ==
  ASSUME IInv, NEW c \in Commits, NEW step \in Steps \ {"upload", "assets"},
         NEW b, NEW w, Moved(c, "publish", step, b, w),
         b.bundle = approved'[c], w.bundle = approved'[c],
         tag'[VersionOf[c]] = [commit |-> c, attempt |-> approved'[c]],
         release'[VersionOf[c]] # "none",
         assets'[VersionOf[c]].package = c,
         assets'[VersionOf[c]].admitted = <<b.chain[1]>>,
         assets'[VersionOf[c]].attested = <<b.chain[1], b.chain[2]>>,
         w.chain[1] = b.chain[1], w.chain[2] = b.chain[2],
         Len(b.chain) = 2,
         Len(w.chain) = IF step = "final" THEN 3 ELSE 2
  PROVE  Mine(c)'
<1>1. Owned(c)' /\ Linked(c)'
  BY DEF Moved, Owned, Linked
<1>2. Len(b.chain) >= 2 /\ Len(w.chain) >= 2
  OBVIOUS
<1>3. Delivered(c)'
  BY <1>2 DEF Moved, Delivered
<1>4. QED
  BY <1>1, <1>3 DEF Mine

LEMMA VerifyStagedSound ==
  ASSUME IInv, NEW c \in Commits, VerifyStaged(c)
  PROVE  Sound(c) /\ services' = services
<1> DEFINE v == VersionOf[c]
           ok == assets[v] = Staged(c)
<1>1. /\ Close(c, "staging", "assets", ok, "publish", ws[c])
      /\ at[c].job = "staging" /\ at[c].step = "assets"
      /\ UNCHANGED <<tag, release, assets, approved>>
      /\ "assets" \in Steps /\ "mapping" \in Steps
  BY DEF VerifyStaged, Close, At, services, Steps
<1>2. /\ TypeOK /\ Len(ws[c].chain) = 2 /\ release[v] # "none"
      /\ ws[c] \in Workspaces
  BY <1>1 DEF IInv, Linked, Delivered, TypeOK
<1>3. ASSUME ok, Moved(c, "publish", "mapping", ws[c], ws[c])
      PROVE  Mine(c)'
  <2>1. Len(ws[c].chain) # 0
    BY <1>2
  <2>2. /\ ws[c].bundle = approved[c]
        /\ tag[v] = [commit |-> c, attempt |-> approved[c]]
    BY <1>1, <2>1, InStaging
  <2>3. /\ assets[v].package = c
        /\ assets[v].admitted = <<ws[c].chain[1]>>
        /\ assets[v].attested = <<ws[c].chain[1], ws[c].chain[2]>>
    BY <1>2, <1>3, StagedTyped
  <2>4. QED
    BY <1>1, <1>2, <1>3, <2>2, <2>3, PublishingSound
<1> HIDE DEF ok
<1>4. QED
  BY <1>1, <1>2, <1>3, CloseSound, JobSteps

----------------------------------------------------------------------------
(* The publish job *)

LEMMA InPublishing ==
  ASSUME IInv, NEW c \in Commits, at[c].job \in {"publish", "promotion"}
  PROVE  /\ base[c].bundle = approved[c] /\ ws[c].bundle = approved[c]
         /\ tag[VersionOf[c]] = [commit |-> c, attempt |-> approved[c]]
         /\ release[VersionOf[c]] # "none"
         /\ assets[VersionOf[c]].package = c
         /\ assets[VersionOf[c]].admitted = <<base[c].chain[1]>>
         /\ assets[VersionOf[c]].attested =
              <<base[c].chain[1], base[c].chain[2]>>
         /\ ws[c].chain[1] = base[c].chain[1]
         /\ ws[c].chain[2] = base[c].chain[2]
<1> DEFINE v == VersionOf[c]
<1>1. Owned(c) /\ Delivered(c)
  BY DEF IInv
<1>2. \A w \in {base[c], ws[c]} :
        /\ Len(w.chain) >= 2
        /\ assets[v].admitted = <<w.chain[1]>>
        /\ assets[v].attested = <<w.chain[1], w.chain[2]>>
  BY <1>1 DEF Delivered
<1>3. ASSUME NEW w \in {base[c], ws[c]}
      PROVE  w.chain # << >>
  <2>1. Len(w.chain) >= 2
    BY <1>2
  <2>2. Len(w.chain) # 0
    BY <2>1
  <2>3. QED
    BY <2>2, SomeLength
<1>4. \A w \in {base[c], ws[c]} : w.bundle = approved[c]
  BY <1>1, <1>3 DEF Owned
<1>5. /\ assets[v].attested = <<base[c].chain[1], base[c].chain[2]>>
      /\ assets[v].attested = <<ws[c].chain[1], ws[c].chain[2]>>
      /\ assets[v].admitted = <<base[c].chain[1]>>
  BY <1>2
<1>6. ws[c].chain[1] = base[c].chain[1] /\ ws[c].chain[2] = base[c].chain[2]
  BY <1>5
<1>7. QED
  BY <1>1, <1>4, <1>5, <1>6 DEF Owned, Delivered

\* A step of the publish job that leaves the workspace as it is.
LEMMA StillPublishing ==
  ASSUME IInv, NEW c \in Commits, at[c].job = "publish",
         at[c].step \in {"mapping", "registry", "revalidate", "publish"},
         NEW step \in {"registry", "revalidate", "publish", "uploaded"},
         Moved(c, "publish", step, base[c], ws[c]),
         UNCHANGED <<tag, release, assets, approved>>
  PROVE  Mine(c)'
<1>1. Len(base[c].chain) = 2 /\ Len(ws[c].chain) = 2
  BY DEF IInv, Linked
<1>2. step \in Steps \ {"upload", "assets"} /\ step # "final"
  BY DEF Steps
<1>3. /\ base[c].bundle = approved'[c] /\ ws[c].bundle = approved'[c]
      /\ tag'[VersionOf[c]] = [commit |-> c, attempt |-> approved'[c]]
      /\ release'[VersionOf[c]] # "none"
      /\ assets'[VersionOf[c]].package = c
      /\ assets'[VersionOf[c]].admitted = <<base[c].chain[1]>>
      /\ assets'[VersionOf[c]].attested =
           <<base[c].chain[1], base[c].chain[2]>>
      /\ ws[c].chain[1] = base[c].chain[1]
      /\ ws[c].chain[2] = base[c].chain[2]
  BY InPublishing
<1>4. QED
  BY <1>1, <1>2, <1>3, PublishingSound

LEMMA MappingSound ==
  ASSUME IInv, NEW c \in Commits, Mapping(c)
  PROVE  Sound(c) /\ services' = services
<1>1. /\ Check(c, "publish", "mapping", RefName # "main", "registry")
      /\ at[c].job = "publish" /\ at[c].step = "mapping"
      /\ UNCHANGED <<tag, release, assets, approved>>
      /\ "mapping" \in Steps /\ "registry" \in Steps
  BY DEF Mapping, Check, At, services, Steps
<1>2. QED
  BY <1>1, StillPublishing, CheckSound, JobSteps

LEMMA PreflightSound ==
  ASSUME IInv, NEW c \in Commits, Preflight(c)
  PROVE  Sound(c) /\ services' = services
<1>1. /\ Check(c, "publish", "registry", Absent(c), "revalidate")
      /\ at[c].job = "publish" /\ at[c].step = "registry"
      /\ UNCHANGED <<tag, release, assets, approved>>
      /\ "revalidate" \in Steps /\ "registry" \in Steps
  BY DEF Preflight, Check, At, services, Steps
<1>2. QED
  BY <1>1, StillPublishing, CheckSound, JobSteps

LEMMA RevalidateSound ==
  ASSUME IInv, NEW c \in Commits, Revalidate(c)
  PROVE  Sound(c) /\ services' = services
<1> DEFINE ok == Genuine(c) /\ ws[c].bundle = approved[c]
<1>1. /\ Check(c, "publish", "revalidate", ok, "publish")
      /\ at[c].job = "publish" /\ at[c].step = "revalidate"
      /\ UNCHANGED <<tag, release, assets, approved>>
      /\ "revalidate" \in Steps /\ "publish" \in Steps
  BY DEF Revalidate, Check, At, services, Steps
<1> HIDE DEF ok
<1>2. QED
  BY <1>1, StillPublishing, CheckSound, JobSteps

\* What is published has its tag and its staged release.
LEMMA PublishSound ==
  ASSUME IInv, NEW c \in Commits, Publish(c)
  PROVE  /\ Sound(c) /\ Kept /\ UNCHANGED <<tag, release, assets>>
         /\ \A u \in Versions :
              \/ registry'[u] = registry[u]
              \/ u = VersionOf[c] /\ registry'[u] = c
         /\ at[c].job = "publish"
<1> DEFINE v == VersionOf[c]
<1>1. /\ UNCHANGED <<tag, release, assets>>
      /\ UNCHANGED <<outside, restarts, approved>>
      /\ at[c].job = "publish" /\ at[c].step = "publish" /\ v \in Versions
      /\ \/ /\ registry[v] = None
            /\ registry' = [registry EXCEPT ![v] = c] /\ latest' = v
            /\ Advance(c, "uploaded", ws[c]) \/ Stop(c)
         \/ Stop(c) /\ UNCHANGED <<registry, latest>>
  BY CommitFacts DEF Publish, At, Absent
<1>2. /\ Kept /\ ServicesOK'
      /\ \A u \in Versions :
           \/ registry'[u] = registry[u]
           \/ u = v /\ registry'[u] = c
  BY <1>1 DEF IInv, TypeOK, ServicesOK, AssetSets, Kept
<1>3. CASE Stop(c)
  BY <1>1, <1>2, <1>3, StopSound, JobSteps
<1>4. CASE Advance(c, "uploaded", ws[c])
  <2>1. "uploaded" \in Steps /\ ws[c] \in Workspaces
    BY DEF Steps, IInv, TypeOK
  <2>2. Moved(c, "publish", "uploaded", base[c], ws[c]) => Mine(c)'
    BY <1>1, StillPublishing
  <2>3. QED
    BY <1>1, <1>2, <1>4, <2>1, <2>2, AdvanceSound, JobSteps
<1>5. QED
  BY <1>1, <1>3, <1>4

LEMMA VerifyUploadedSound ==
  ASSUME IInv, NEW c \in Commits, VerifyUploaded(c)
  PROVE  Sound(c) /\ services' = services
<1>1. /\ services' = services /\ UNCHANGED <<outside, restarts, approved>>
      /\ UNCHANGED <<tag, release, assets>>
      /\ at[c].job = "publish" /\ at[c].step = "uploaded"
      /\ Advance(c, "final", Appended(c)) \/ Stop(c)
  BY DEF VerifyUploaded, At, services
<1>2. ServicesOK' /\ Kept /\ "final" \in Steps \ {"upload", "assets"}
  BY <1>1, ServicesSame, KeptWhenIdle DEF IInv, Steps
<1>3. TypeOK /\ Len(base[c].chain) = 2 /\ Len(ws[c].chain) = 2
  BY <1>1 DEF IInv, Linked
<1>4. /\ Appended(c) \in Workspaces /\ Appended(c).bundle = ws[c].bundle
      /\ Len(Appended(c).chain) = Len(ws[c].chain) + 1
      /\ \A i \in 1..Len(ws[c].chain) :
           Appended(c).chain[i] = ws[c].chain[i]
  BY <1>3, Appending
<1>5. /\ Len(Appended(c).chain) = 3
      /\ Appended(c).chain[1] = ws[c].chain[1]
      /\ Appended(c).chain[2] = ws[c].chain[2]
  BY <1>3, <1>4
<1>6. CASE Advance(c, "final", Appended(c))
  <2>1. ASSUME Moved(c, "publish", "final", base[c], Appended(c))
        PROVE  Mine(c)'
    <3>1. /\ base[c].bundle = approved'[c] /\ ws[c].bundle = approved'[c]
          /\ tag'[VersionOf[c]] = [commit |-> c, attempt |-> approved'[c]]
          /\ release'[VersionOf[c]] # "none"
          /\ assets'[VersionOf[c]].package = c
          /\ assets'[VersionOf[c]].admitted = <<base[c].chain[1]>>
          /\ assets'[VersionOf[c]].attested =
               <<base[c].chain[1], base[c].chain[2]>>
          /\ ws[c].chain[1] = base[c].chain[1]
          /\ ws[c].chain[2] = base[c].chain[2]
      BY <1>1, InPublishing
    <3> DEFINE w == Appended(c)
    <3>2. /\ Moved(c, "publish", "final", base[c], w)
          /\ w.bundle = approved'[c]
          /\ w.chain[1] = base[c].chain[1] /\ w.chain[2] = base[c].chain[2]
          /\ Len(base[c].chain) = 2 /\ Len(w.chain) = 3
      BY <1>3, <1>4, <1>5, <2>1, <3>1
    <3> HIDE DEF w
    <3>3. QED
      BY <1>2, <3>1, <3>2, PublishingSound
  <2>2. QED
    BY <1>1, <1>2, <1>4, <1>6, <2>1, AdvanceSound, JobSteps
<1>7. CASE Stop(c)
  BY <1>1, <1>2, <1>7, StopSound, JobSteps
<1>8. QED
  BY <1>1, <1>6, <1>7

----------------------------------------------------------------------------
(* The promotion *)

\* What is known of a run that promotes what it published, or has.
LEMMA PromotionSound ==
  ASSUME IInv, NEW c \in Commits, NEW step \in Steps, NEW b, NEW w,
         Moved(c, "promotion", step, b, w),
         b.bundle = approved'[c], w.bundle = approved'[c],
         tag'[VersionOf[c]] = [commit |-> c, attempt |-> approved'[c]],
         release'[VersionOf[c]] # "none",
         assets'[VersionOf[c]].package = c,
         assets'[VersionOf[c]].admitted = <<b.chain[1]>>,
         assets'[VersionOf[c]].attested = <<b.chain[1], b.chain[2]>>,
         w.chain[1] = b.chain[1], w.chain[2] = b.chain[2],
         Len(b.chain) = 4, Len(w.chain) = 4,
         registry'[VersionOf[c]] = c,
         step = "promote" => /\ assets'[VersionOf[c]].envelope = w.chain
                             /\ assets'[VersionOf[c]].receipt = c
  PROVE  Mine(c)'
<1>1. Owned(c)' /\ Linked(c)'
  BY DEF Moved, Owned, Linked
<1>2. Len(b.chain) >= 2 /\ Len(w.chain) >= 2
  OBVIOUS
<1>3. Delivered(c)'
  BY <1>2 DEF Moved, Delivered
<1>4. QED
  BY <1>1, <1>3 DEF Mine

LEMMA VerifyFinalSound ==
  ASSUME IInv, NEW c \in Commits, VerifyFinal(c)
  PROVE  Sound(c) /\ services' = services
<1>1. /\ Close(c, "publish", "final", OnRegistry(c), "promotion", Appended(c))
      /\ at[c].job = "publish" /\ at[c].step = "final"
      /\ UNCHANGED <<tag, release, assets, registry, approved>>
      /\ "final" \in Steps /\ "attach" \in Steps
  BY DEF VerifyFinal, Close, At, services, Steps
<1>2. TypeOK /\ Len(ws[c].chain) = 3
  BY <1>1 DEF IInv, Linked
<1>3. /\ Appended(c) \in Workspaces /\ Appended(c).bundle = ws[c].bundle
      /\ Len(Appended(c).chain) = Len(ws[c].chain) + 1
      /\ \A i \in 1..Len(ws[c].chain) :
           Appended(c).chain[i] = ws[c].chain[i]
  BY <1>2, Appending
<1>4. /\ Len(Appended(c).chain) = 4
      /\ Appended(c).chain[1] = ws[c].chain[1]
      /\ Appended(c).chain[2] = ws[c].chain[2]
  BY <1>2, <1>3
<1>5. ASSUME OnRegistry(c),
             Moved(c, "promotion", "attach", Appended(c), Appended(c))
      PROVE  Mine(c)'
  <2>1. /\ ws[c].bundle = approved'[c]
        /\ tag'[VersionOf[c]] = [commit |-> c, attempt |-> approved'[c]]
        /\ release'[VersionOf[c]] # "none"
        /\ assets'[VersionOf[c]].package = c
        /\ assets'[VersionOf[c]].admitted = <<ws[c].chain[1]>>
        /\ assets'[VersionOf[c]].attested =
             <<ws[c].chain[1], ws[c].chain[2]>>
    BY <1>1, InPublishing
  <2>2. registry'[VersionOf[c]] = c
    BY <1>1, <1>5 DEF OnRegistry
  <2>3. /\ assets'[VersionOf[c]].admitted = <<Appended(c).chain[1]>>
        /\ assets'[VersionOf[c]].attested =
             <<Appended(c).chain[1], Appended(c).chain[2]>>
        /\ Appended(c).bundle = approved'[c]
    BY <1>3, <1>4, <2>1
  <2>4. "attach" \in Steps /\ "attach" # "promote"
    BY <1>1
  <2> DEFINE w == Appended(c)
  <2>5. /\ Moved(c, "promotion", "attach", w, w)
        /\ Len(w.chain) = 4 /\ w.bundle = approved'[c]
        /\ assets'[VersionOf[c]].admitted = <<w.chain[1]>>
        /\ assets'[VersionOf[c]].attested = <<w.chain[1], w.chain[2]>>
    BY <1>4, <1>5, <2>3
  <2> HIDE DEF w
  <2>6. QED
    BY <2>1, <2>2, <2>4, <2>5, PromotionSound
<1>6. QED
  BY <1>1, <1>3, <1>5, CloseSound, JobSteps

\* What is known of a run in the promotion job, but for its last step.
LEMMA InPromotion ==
  ASSUME IInv, NEW c \in Commits, at[c].job = "promotion"
  PROVE  /\ base[c].bundle = approved[c] /\ ws[c].bundle = approved[c]
         /\ tag[VersionOf[c]] = [commit |-> c, attempt |-> approved[c]]
         /\ release[VersionOf[c]] # "none"
         /\ assets[VersionOf[c]].package = c
         /\ assets[VersionOf[c]].admitted = <<base[c].chain[1]>>
         /\ assets[VersionOf[c]].attested =
              <<base[c].chain[1], base[c].chain[2]>>
         /\ ws[c].chain[1] = base[c].chain[1]
         /\ ws[c].chain[2] = base[c].chain[2]
         /\ Len(base[c].chain) = 4 /\ Len(ws[c].chain) = 4
         /\ registry[VersionOf[c]] = c
<1>1. /\ Len(base[c].chain) = 4 /\ Len(ws[c].chain) = 4
      /\ registry[VersionOf[c]] = c
  BY DEF IInv, Linked, Delivered
<1>2. QED
  BY <1>1, InPublishing

LEMMA CompleteTyped ==
  ASSUME TypeOK, NEW c \in Commits, Len(ws[c].chain) = 4
  PROVE  /\ Complete(c) \in AssetSets
         /\ Complete(c).envelope = ws[c].chain
         /\ Complete(c).receipt = c
<1>1. ws[c].chain \in Seq(Starts)
  BY DEF TypeOK, Workspaces
<1>2. ws[c].chain[1] \in Starts /\ ws[c].chain[2] \in Starts
  BY <1>1, ElementOfSeq
<1>3. Complete(c) =
        [package |-> c, admitted |-> <<ws[c].chain[1]>>,
         attested |-> <<ws[c].chain[1], ws[c].chain[2]>>,
         envelope |-> ws[c].chain, receipt |-> c]
  BY DEF Complete, Assets
<1>4. QED
  BY <1>1, <1>2, <1>3 DEF AssetSets

LEMMA AttachSound ==
  ASSUME IInv, NEW c \in Commits, Attach(c)
  PROVE  /\ Sound(c) /\ Kept
         /\ UNCHANGED <<tag, release, registry, latest>>
<1> DEFINE v == VersionOf[c]
           names == {"envelope", "receipt"}
<1>1. /\ at[c].job = "promotion" /\ at[c].step = "attach"
      /\ UNCHANGED <<outside, restarts, approved>>
  BY DEF Attach, Upload, At
<1>2. TypeOK /\ ws[c] \in Workspaces /\ "assets" \in Steps
  BY DEF IInv, TypeOK, Steps
<1>3. Len(ws[c].chain) = 4
  BY <1>1, InPromotion
<1>4. names \in SUBSET DOMAIN NoAssets /\ Complete(c) \in AssetSets
  BY <1>2, <1>3, CompleteTyped, AssetNames
<1>5. Upload(c, "promotion", "attach", names, Complete(c), "assets")
  BY DEF Attach
<1>6. /\ Kept /\ ServicesOK'
      /\ UNCHANGED <<tag, release, registry, latest>>
      /\ \/ Stop(c)
         \/ /\ Advance(c, "assets", ws[c])
            /\ \A n \in DOMAIN NoAssets :
                 assets'[v][n] = IF n \in names THEN Complete(c)[n]
                                                ELSE assets[v][n]
  <2> HIDE DEF names
  <2>1. QED
    BY <1>2, <1>4, <1>5, Uploading
<1>7. CASE Stop(c)
  BY <1>1, <1>6, <1>7, StopSound, JobSteps
<1>8. CASE /\ Advance(c, "assets", ws[c])
           /\ \A n \in DOMAIN NoAssets :
                assets'[v][n] = IF n \in names THEN Complete(c)[n]
                                               ELSE assets[v][n]
  <2>1. /\ assets'[v].package = assets[v].package
        /\ assets'[v].admitted = assets[v].admitted
        /\ assets'[v].attested = assets[v].attested
    BY <1>8, AssetNames
  <2>2. ASSUME Moved(c, "promotion", "assets", base[c], ws[c])
        PROVE  Mine(c)'
    <3>1. /\ base[c].bundle = approved'[c] /\ ws[c].bundle = approved'[c]
          /\ tag'[VersionOf[c]] = [commit |-> c, attempt |-> approved'[c]]
          /\ release'[VersionOf[c]] # "none"
          /\ assets'[VersionOf[c]].package = c
          /\ assets'[VersionOf[c]].admitted = <<base[c].chain[1]>>
          /\ assets'[VersionOf[c]].attested =
               <<base[c].chain[1], base[c].chain[2]>>
          /\ ws[c].chain[1] = base[c].chain[1]
          /\ ws[c].chain[2] = base[c].chain[2]
          /\ Len(base[c].chain) = 4 /\ Len(ws[c].chain) = 4
          /\ registry'[VersionOf[c]] = c
      BY <1>1, <1>6, <2>1, InPromotion
    <3>2. QED
      BY <1>2, <2>2, <3>1, PromotionSound
  <2>3. QED
    BY <1>1, <1>2, <1>6, <1>8, <2>2, AdvanceSound, JobSteps
<1>9. QED
  BY <1>6, <1>7, <1>8

LEMMA VerifyAttachedSound ==
  ASSUME IInv, NEW c \in Commits, VerifyAttached(c)
  PROVE  Sound(c) /\ services' = services
<1> DEFINE v == VersionOf[c]
           ok == assets[v] = Complete(c)
<1>1. /\ Check(c, "promotion", "assets", ok, "promote")
      /\ at[c].job = "promotion"
      /\ UNCHANGED <<tag, release, assets, registry, approved>>
      /\ "assets" \in Steps /\ "promote" \in Steps /\ TypeOK
  BY DEF VerifyAttached, Check, At, services, Steps, IInv
<1>2. ASSUME ok, Moved(c, "promotion", "promote", base[c], ws[c])
      PROVE  Mine(c)'
  <2>1. Len(ws[c].chain) = 4
    BY <1>1, InPromotion
  <2>2. assets'[v].envelope = ws[c].chain /\ assets'[v].receipt = c
    BY <1>1, <1>2, <2>1, CompleteTyped
  <2>3. /\ base[c].bundle = approved'[c] /\ ws[c].bundle = approved'[c]
        /\ tag'[VersionOf[c]] = [commit |-> c, attempt |-> approved'[c]]
        /\ release'[VersionOf[c]] # "none"
        /\ assets'[VersionOf[c]].package = c
        /\ assets'[VersionOf[c]].admitted = <<base[c].chain[1]>>
        /\ assets'[VersionOf[c]].attested =
             <<base[c].chain[1], base[c].chain[2]>>
        /\ ws[c].chain[1] = base[c].chain[1]
        /\ ws[c].chain[2] = base[c].chain[2]
        /\ Len(base[c].chain) = 4 /\ Len(ws[c].chain) = 4
        /\ registry'[VersionOf[c]] = c
    BY <1>1, InPromotion
  <2>4. QED
    BY <1>1, <1>2, <2>2, <2>3, PromotionSound
<1> HIDE DEF ok
<1>3. QED
  BY <1>1, <1>2, CheckSound, JobSteps

\* What is made public is coherent when it is.
LEMMA PromoteSound ==
  ASSUME IInv, NEW c \in Commits, Promote(c)
  PROVE  /\ Sound(c) /\ Kept /\ UNCHANGED <<tag, assets, registry, latest>>
         /\ \A u \in Versions :
              release'[u] = "public" => release[u] = "public" \/ Coherent(u)
<1> DEFINE v == VersionOf[c]
<1>1. /\ at[c] = [job |-> "promotion", step |-> "promote"]
      /\ UNCHANGED <<tag, assets, registry, latest>>
      /\ UNCHANGED <<outside, restarts, approved>>
      /\ release' = [release EXCEPT ![v] = "public"]
      /\ Advance(c, "done", ws[c]) /\ v \in Versions
  BY CommitFacts DEF Promote, At
<1>2. /\ at[c].job = "promotion" /\ "done" \in Steps /\ ws[c] \in Workspaces
      /\ ServicesOK' /\ Kept /\ release'[v] # "none"
      /\ \A u \in Versions \ {v} : release'[u] = release[u]
  BY <1>1 DEF Steps, IInv, TypeOK, ServicesOK, AssetSets, Kept
<1>3. assets[v].envelope = ws[c].chain /\ assets[v].receipt = c
  BY <1>1 DEF IInv, Delivered
<1>4. Coherent(v)
  <2>1. /\ assets[v].admitted = <<ws[c].chain[1]>>
        /\ assets[v].attested = <<ws[c].chain[1], ws[c].chain[2]>>
        /\ assets[v].package = c /\ registry[v] = c /\ tag[v].commit = c
        /\ Len(ws[c].chain) = 4
    <3>1. /\ assets[v].admitted = <<base[c].chain[1]>>
          /\ assets[v].attested = <<base[c].chain[1], base[c].chain[2]>>
          /\ ws[c].chain[1] = base[c].chain[1]
          /\ ws[c].chain[2] = base[c].chain[2]
          /\ assets[v].package = c /\ registry[v] = c
          /\ tag[v] = [commit |-> c, attempt |-> approved[c]]
          /\ Len(ws[c].chain) = 4
      BY <1>2, InPromotion
    <3>2. QED
      BY <3>1
  <2>2. QED
    BY <1>3, <2>1 DEF Coherent
<1>5. ASSUME Moved(c, "promotion", "done", base[c], ws[c])
      PROVE  Mine(c)'
  <2>1. /\ base[c].bundle = approved'[c] /\ ws[c].bundle = approved'[c]
        /\ tag'[VersionOf[c]] = [commit |-> c, attempt |-> approved'[c]]
        /\ assets'[VersionOf[c]].package = c
        /\ assets'[VersionOf[c]].admitted = <<base[c].chain[1]>>
        /\ assets'[VersionOf[c]].attested =
             <<base[c].chain[1], base[c].chain[2]>>
        /\ ws[c].chain[1] = base[c].chain[1]
        /\ ws[c].chain[2] = base[c].chain[2]
        /\ Len(base[c].chain) = 4 /\ Len(ws[c].chain) = 4
        /\ registry'[VersionOf[c]] = c
    BY <1>1, <1>2, InPromotion
  <2>2. QED
    BY <1>2, <1>5, <2>1, PromotionSound
<1>6. Sound(c)
  BY <1>1, <1>2, <1>5, AdvanceSound, JobSteps
<1>7. QED
  BY <1>1, <1>2, <1>4, <1>6

----------------------------------------------------------------------------
(* Runs that begin, begin again and stop *)

LEMMA DispatchSound ==
  ASSUME IInv, NEW c \in Commits, Dispatch(c)
  PROVE  Sound(c) /\ services' = services
<1>1. /\ services' = services /\ UNCHANGED <<outside, restarts, approved>>
      /\ Begin(c, "phaseA", Fresh)
  BY DEF Dispatch
<1>2. /\ Fresh \in Workspaces /\ Fresh.chain = << >>
      /\ "verifyRun" \in Steps \ {"upload", "assets"}
  BY CommitFacts, EmptySeq DEF Workspaces, Fresh, Steps
<1>3. TypeOK
  BY DEF IInv
<1>4. ServicesOK' /\ Moved(c, "phaseA", "verifyRun", Fresh, Fresh)
  BY <1>1, <1>2, <1>3, ServicesSame, Beginning, JobSteps
<1>5. Mine(c)'
  BY <1>2, <1>4, EarlySound
<1>6. QED
  BY <1>1, <1>4, <1>5, MoveSound

\* A job that is run again starts from what was stored for it the first time.
LEMMA AgainSound ==
  ASSUME IInv, NEW c \in Commits, at[c].job \in Jobs,
         Moved(c, at[c].job, First[at[c].job], base[c], base[c]),
         services' = services, UNCHANGED <<outside, approved>>
  PROVE  Mine(c)'
<1>1. UNCHANGED <<tag, release, assets, registry>>
  BY DEF services
<1>2. /\ Owned(c) /\ Linked(c)
      /\ {"verifyRun", "sign", "verifyTag", "mapping", "attach", "record"}
           \subseteq Steps \ {"upload", "assets"}
  BY DEF IInv, Steps
<1>3. CASE at[c].job \in {"phaseA", "signTag"}
  BY <1>2, <1>3, EarlySound, JobSteps DEF Owned
<1>4. CASE at[c].job = "admission"
  BY <1>1, <1>2, <1>4, AdmissionSound, JobSteps DEF Owned
<1>5. CASE at[c].job = "staging"
  <2>1. Len(base[c].chain) = 1
    BY <1>2, <1>5 DEF Linked
  <2>2. base[c].chain # << >>
    <3>1. Len(base[c].chain) # 0
      BY <2>1
    <3>2. QED
      BY <3>1, SomeLength
  <2>3. /\ base[c].bundle = approved[c]
        /\ tag[VersionOf[c]] = [commit |-> c, attempt |-> approved[c]]
    BY <1>2, <1>5, <2>2 DEF Owned
  <2>4. QED
    BY <1>1, <1>2, <1>5, <2>1, <2>3, StagingSound, JobSteps
<1>6. CASE at[c].job = "publish"
  <2>1. Len(base[c].chain) = 2
    BY <1>2, <1>6 DEF Linked
  <2>2. /\ base[c].bundle = approved'[c]
        /\ tag'[VersionOf[c]] = [commit |-> c, attempt |-> approved'[c]]
        /\ release'[VersionOf[c]] # "none"
        /\ assets'[VersionOf[c]].package = c
        /\ assets'[VersionOf[c]].admitted = <<base[c].chain[1]>>
        /\ assets'[VersionOf[c]].attested =
             <<base[c].chain[1], base[c].chain[2]>>
    BY <1>1, <1>6, InPublishing
  <2>3. QED
    BY <1>2, <1>6, <2>1, <2>2, PublishingSound, JobSteps
<1>7. CASE at[c].job = "promotion"
  <2>1. /\ base[c].bundle = approved'[c]
        /\ tag'[VersionOf[c]] = [commit |-> c, attempt |-> approved'[c]]
        /\ release'[VersionOf[c]] # "none"
        /\ assets'[VersionOf[c]].package = c
        /\ assets'[VersionOf[c]].admitted = <<base[c].chain[1]>>
        /\ assets'[VersionOf[c]].attested =
             <<base[c].chain[1], base[c].chain[2]>>
        /\ Len(base[c].chain) = 4 /\ registry'[VersionOf[c]] = c
    BY <1>1, <1>7, InPromotion
  <2>2. QED
    BY <1>2, <1>7, <2>1, PromotionSound, JobSteps
<1>8. QED
  BY <1>3, <1>4, <1>5, <1>6, <1>7, JobSteps

LEMMA RestartSound ==
  ASSUME IInv, NEW c \in Commits, Restart(c)
  PROVE  Sound(c) /\ services' = services
<1>1. /\ services' = services /\ UNCHANGED <<outside, approved>>
      /\ restarts' = [restarts EXCEPT ![c] = @ + 1]
      /\ restarts[c] < MaxRestarts /\ at[c].step # "idle"
      /\ \/ Begin(c, at[c].job, base[c])
         \/ Begin(c, "phaseA", Fresh)
  BY DEF Restart
<1>2. TypeOK /\ at[c].job \in Jobs /\ base[c] \in Workspaces
  BY <1>1 DEF IInv, TypeOK, Idle
<1>3. /\ Fresh \in Workspaces /\ Fresh.chain = << >>
      /\ "verifyRun" \in Steps \ {"upload", "assets"}
  BY CommitFacts, EmptySeq DEF Workspaces, Fresh, Steps
<1>4. restarts' \in [Commits -> Starts]
  BY <1>1, <1>2, ReleaseAssumption DEF TypeOK, Starts
<1>5. ServicesOK'
  BY <1>1, <1>2, ServicesSame
<1>6. CASE Begin(c, at[c].job, base[c])
  <2>1. Moved(c, at[c].job, First[at[c].job], base[c], base[c])
    BY <1>2, <1>6, Beginning
  <2>2. Mine(c)'
    BY <1>1, <1>2, <2>1, AgainSound
  <2>3. TypeOK'
    BY <1>1, <1>2, <1>4, <1>5, <2>1
    DEF TypeOK, ServicesOK, AssetSets, Moved, outside
  <2>4. QED
    BY <1>1, <2>1, <2>2, <2>3 DEF Sound, Moved
<1>7. CASE Begin(c, "phaseA", Fresh)
  <2>1. Moved(c, "phaseA", "verifyRun", Fresh, Fresh)
    BY <1>2, <1>3, <1>7, Beginning, JobSteps
  <2>2. Mine(c)'
    BY <1>3, <2>1, EarlySound
  <2>3. TypeOK'
    BY <1>1, <1>2, <1>4, <1>5, <2>1
    DEF TypeOK, ServicesOK, AssetSets, Moved, outside
  <2>4. QED
    BY <1>1, <2>1, <2>2, <2>3 DEF Sound, Moved
<1>8. QED
  BY <1>1, <1>6, <1>7

LEMMA CrashSound ==
  ASSUME IInv, NEW c \in Commits, Crash(c)
  PROVE  Sound(c) /\ services' = services
<1>1. /\ services' = services /\ UNCHANGED <<outside, restarts, approved>>
      /\ Stop(c) /\ at[c].step # "idle"
  BY DEF Crash, Over
<1>2. TypeOK /\ at[c].job \in Jobs
  BY <1>1 DEF IInv, TypeOK, Idle
<1>3. QED
  BY <1>1, <1>2, KeptWhenIdle, ServicesSame, StopSound

----------------------------------------------------------------------------
(* The invariant *)

\* A step of a run that leaves what is outside alone.
LEMMA QuietStep ==
  ASSUME IInv, NEW c \in Commits, Sound(c), services' = services
  PROVE  IInv'
<1>1. Kept /\ registry' = registry /\ release' = release
  BY KeptWhenIdle DEF services
<1>2. /\ \A d \in Commits : Mine(d)'
      /\ PublishedIsBacked'
  BY <1>1, AllSound, AllBacked
<1>3. PromotedIsCoherent'
  BY <1>1, AllCoherent
<1>4. QED
  BY <1>2, <1>3 DEF Sound, Mine, IInv

LEMMA StepInv ==
  ASSUME IInv, NEW c \in Commits, Step(c)
  PROVE  IInv'
<1>1. CASE Sign(c)
  <2>1. /\ Sound(c) /\ Kept
        /\ UNCHANGED <<release, registry>>
    BY <1>1, SignSound
  <2>2. (\A d \in Commits : Mine(d)') /\ PublishedIsBacked'
    BY <2>1, AllSound, AllBacked
  <2>3. PromotedIsCoherent'
    BY <2>1, AllCoherent
  <2>4. QED
    BY <2>1, <2>2, <2>3 DEF Sound, Mine, IInv
<1>2. CASE CreateDraft(c)
  <2>1. /\ Sound(c) /\ Kept /\ UNCHANGED registry
        /\ \A v \in Versions : release'[v] \in {release[v], "draft"}
    BY <1>2, CreateDraftSound
  <2>2. (\A d \in Commits : Mine(d)') /\ PublishedIsBacked'
    BY <2>1, AllSound, AllBacked
  <2>3. PromotedIsCoherent'
    BY <2>1, AllCoherent
  <2>4. QED
    BY <2>1, <2>2, <2>3 DEF Sound, Mine, IInv
<1>3. CASE UploadStaged(c) \/ Attach(c)
  <2>1. Sound(c) /\ Kept /\ UNCHANGED <<release, registry>>
    BY <1>3, UploadStagedSound, AttachSound
  <2>2. (\A d \in Commits : Mine(d)') /\ PublishedIsBacked'
    BY <2>1, AllSound, AllBacked
  <2>3. PromotedIsCoherent'
    BY <2>1, AllCoherent
  <2>4. QED
    BY <2>1, <2>2, <2>3 DEF Sound, Mine, IInv
<1>4. CASE Publish(c)
  <2>1. /\ Sound(c) /\ Kept /\ UNCHANGED <<tag, release, assets>>
        /\ at[c].job = "publish"
        /\ \A u \in Versions :
             \/ registry'[u] = registry[u]
             \/ u = VersionOf[c] /\ registry'[u] = c
    BY <1>4, PublishSound
  <2>2. /\ tag[VersionOf[c]].commit = c /\ release[VersionOf[c]] # "none"
        /\ assets[VersionOf[c]].package = c
        /\ Len(assets[VersionOf[c]].admitted) = 1
        /\ Len(assets[VersionOf[c]].attested) = 2
    <3>1. /\ tag[VersionOf[c]] = [commit |-> c, attempt |-> approved[c]]
          /\ release[VersionOf[c]] # "none"
          /\ assets[VersionOf[c]].package = c
          /\ assets[VersionOf[c]].admitted = <<base[c].chain[1]>>
          /\ assets[VersionOf[c]].attested =
               <<base[c].chain[1], base[c].chain[2]>>
      BY <2>1, InPublishing
    <3>2. QED
      BY <3>1
  <2>3. PublishedIsBacked'
    BY <2>1, <2>2, AllBacked
  <2>4. (\A d \in Commits : Mine(d)') /\ PromotedIsCoherent'
    BY <2>1, AllSound, AllCoherent
  <2>5. QED
    BY <2>1, <2>3, <2>4 DEF Sound, Mine, IInv
<1>5. CASE Promote(c)
  <2>1. /\ Sound(c) /\ Kept /\ UNCHANGED registry
        /\ \A u \in Versions :
             release'[u] = "public" => release[u] = "public" \/ Coherent(u)
    BY <1>5, PromoteSound
  <2>2. (\A d \in Commits : Mine(d)') /\ PublishedIsBacked'
    BY <2>1, AllSound, AllBacked
  <2>3. PromotedIsCoherent'
    BY <2>1, AllCoherent
  <2>4. QED
    BY <2>1, <2>2, <2>3 DEF Sound, Mine, IInv
<1>6. CASE \/ VerifyRun(c) \/ DownloadFirst(c) \/ ImportFirst(c)
           \/ PreflightFirst(c) \/ VerifyTag(c) \/ DownloadAgain(c)
           \/ Import(c) \/ Readiness(c) \/ Record(c) \/ VerifyStaged(c)
  <2>1. Sound(c) /\ services' = services
    BY <1>6, VerifyRunSound, DownloadFirstSound, ImportFirstSound,
       PreflightFirstSound, VerifyTagSound, DownloadAgainSound, ImportSound,
       ReadinessSound, RecordSound, VerifyStagedSound
  <2>2. QED
    BY <2>1, QuietStep
<1>7. CASE \/ Mapping(c) \/ Preflight(c) \/ Revalidate(c) \/ VerifyUploaded(c)
           \/ VerifyFinal(c) \/ VerifyAttached(c)
  <2>1. Sound(c) /\ services' = services
    BY <1>7, MappingSound, PreflightSound, RevalidateSound,
       VerifyUploadedSound, VerifyFinalSound, VerifyAttachedSound
  <2>2. QED
    BY <2>1, QuietStep
<1>8. QED
  BY <1>1, <1>2, <1>3, <1>4, <1>5, <1>6, <1>7 DEF Step

\* What happens around the workflow concerns no run.
LEMMA WorldInv ==
  ASSUME IInv,
         \/ Merge
         \/ \E v \in Versions : PublishElsewhere(v)
         \/ \E c \in Commits : Reattempt(c) \/ Lapse(c)
  PROVE  IInv'
<1>1. UNCHANGED <<tag, release, assets, at, restarts, approved, base, ws>>
  BY DEF Merge, PublishElsewhere, Reattempt, Lapse, services
<1>2. TypeOK'
  <2>1. CASE Merge
    BY <2>1, ReleaseAssumption
    DEF IInv, TypeOK, Merge, services, Commits, None
  <2>2. CASE \E v \in Versions : PublishElsewhere(v)
    <3>1. PICK v \in Versions : PublishElsewhere(v)
      BY <2>2
    <3>2. /\ registry' \in [Versions -> Commits \cup {None, Foreign}]
          /\ latest' \in Versions \cup {None}
      BY <3>1 DEF IInv, TypeOK, PublishElsewhere
    <3>3. UNCHANGED outside
      BY <3>1 DEF PublishElsewhere
    <3>4. QED
      BY <1>1, <3>2, <3>3 DEF IInv, TypeOK, outside
  <2>3. CASE \E c \in Commits : Reattempt(c) \/ Lapse(c)
    <3> PICK c \in Commits : Reattempt(c) \/ Lapse(c)
      BY <2>3
    <3>1. authority[c] \in Attempts /\ lapsed[c] \in Attempts
      BY DEF IInv, TypeOK
    <3>2. Reattempt(c) => authority[c] + 1 \in Attempts
      BY <3>1, ReleaseAssumption DEF Reattempt, Attempts
    <3>3. Lapse(c) => lapsed[c] + 1 \in Attempts
      BY <3>1, ReleaseAssumption DEF Lapse, Attempts
    <3>4. CASE Reattempt(c)
      BY <3>2, <3>4 DEF IInv, TypeOK, Reattempt, services
    <3>5. CASE Lapse(c)
      BY <3>3, <3>5 DEF IInv, TypeOK, Lapse, services
    <3>6. QED
      BY <3>4, <3>5
  <2>4. QED
    BY <2>1, <2>2, <2>3
<1>3. /\ Kept
      /\ \A v \in Versions :
           registry'[v] = registry[v] \/ registry'[v] = Foreign
  <2>1. CASE registry' = registry
    BY <1>1, <2>1 DEF Kept
  <2>2. CASE registry' # registry
    <3>1. PICK v \in Versions : PublishElsewhere(v)
      BY <2>2 DEF Merge, Reattempt, Lapse, services
    <3>2. registry[v] = None /\ registry' = [registry EXCEPT ![v] = Foreign]
      BY <3>1 DEF PublishElsewhere
    <3>3. QED
      BY <1>1, <3>2 DEF Kept, IInv, TypeOK
  <2>3. QED
    BY <2>1, <2>2
<1>4. ASSUME NEW d \in Commits
      PROVE  Mine(d)'
  BY <1>1, <1>3, StillSound DEF IInv, Mine
<1>5. PublishedIsBacked'
  BY <1>3, AllBacked, CommitFacts
<1>6. PromotedIsCoherent'
  BY <1>1, <1>3, AllCoherent
<1>7. QED
  BY <1>2, <1>4, <1>5, <1>6 DEF IInv, Mine

LEMMA InitInv == Init => IInv
<1> SUFFICES ASSUME Init
             PROVE  IInv
  OBVIOUS
<1>1. /\ Fresh \in Workspaces /\ Fresh.chain = << >>
      /\ Fresh.bundle = 0
  BY CommitFacts, EmptySeq DEF Workspaces, Fresh
<1>2. NoAssets \in AssetSets
  BY EmptySeq DEF NoAssets, AssetSets
<1>3. NoTag \in [commit : Commits \cup {None}, attempt : Attempts]
  BY CommitFacts DEF NoTag
<1>4. TypeOK
  <2>1. /\ tip = None /\ authority \in [Commits -> Attempts]
        /\ lapsed \in [Commits -> Attempts]
        /\ approved \in [Commits -> Attempts]
        /\ restarts \in [Commits -> Starts]
    BY CommitFacts DEF Init, None
  <2>2. /\ tag \in [Versions ->
                     [commit : Commits \cup {None}, attempt : Attempts]]
        /\ release \in [Versions -> {"none", "draft", "public"}]
        /\ assets \in [Versions -> AssetSets]
        /\ registry \in [Versions -> Commits \cup {None, Foreign}]
        /\ latest = None
    BY <1>2, <1>3 DEF Init
  <2>3. /\ at \in [Commits -> [job : Jobs, step : Steps] \cup {Idle}]
        /\ base \in [Commits -> Workspaces] /\ ws \in [Commits -> Workspaces]
    BY <1>1 DEF Init
  <2>4. QED
    BY <2>1, <2>2, <2>3 DEF TypeOK, AssetSets
<1>5. ASSUME NEW c \in Commits
      PROVE  Owned(c) /\ Linked(c) /\ Delivered(c)
  <2>1. at[c] = Idle /\ base[c] = Fresh /\ ws[c] = Fresh
    BY DEF Init
  <2>2. Idle.job = "none" /\ Idle.step = "idle"
    BY DEF Idle
  <2>3. QED
    BY <1>1, <2>1, <2>2 DEF Owned, Linked, Delivered
<1>6. PublishedIsBacked /\ PromotedIsCoherent
  BY CommitFacts DEF Init, PublishedIsBacked, PromotedIsCoherent
<1>7. QED
  BY <1>4, <1>5, <1>6 DEF IInv

LEMMA NextInv == IInv /\ [Next]_vars => IInv'
<1> SUFFICES ASSUME IInv, [Next]_vars
             PROVE  IInv'
  OBVIOUS
<1>1. ASSUME NEW c \in Commits, Dispatch(c) \/ Restart(c) \/ Crash(c)
      PROVE  IInv'
  BY <1>1, DispatchSound, RestartSound, CrashSound, QuietStep
<1>2. CASE UNCHANGED vars
  BY <1>2 DEF vars, outside, services, IInv, TypeOK, Owned, Linked, Delivered,
              PublishedIsBacked, PromotedIsCoherent, Coherent
<1>3. QED
  BY <1>1, <1>2, StepInv, WorldInv DEF Next

\* In every reachable state the runs agree with what they left outside: the
\* inductive invariant of the workflow.
THEOREM ReleaseBookkeeping == Spec => []IInv
  BY InitInv, NextInv, PTL DEF Spec

\* Whatever is admitted is admitted on the evidence its tag was signed for.
THEOREM AdmissionFollowsSignature == Spec => []AdmittedAsSigned
<1>1. IInv => AdmittedAsSigned
  <2> SUFFICES ASSUME IInv, NEW c \in Commits, ws[c].chain # << >>
               PROVE  tag[VersionOf[c]] = [commit |-> c,
                                           attempt |-> ws[c].bundle]
    BY DEF AdmittedAsSigned
  <2>1. Owned(c)
    BY DEF IInv
  <2>2. QED
    BY <2>1 DEF Owned
<1>2. QED
  BY <1>1, ReleaseBookkeeping, PTL

\* What the workflow publishes has its tag and its staged release, and keeps
\* them.
THEOREM PublicationIsBacked == Spec => []PublishedIsBacked
<1>1. IInv => PublishedIsBacked
  BY DEF IInv
<1>2. QED
  BY <1>1, ReleaseBookkeeping, PTL

\* What the workflow makes public is one package, one tag and one chain of
\* states, and stays so.
THEOREM PromotionIsCoherent == Spec => []PromotedIsCoherent
<1>1. IInv => PromotedIsCoherent
  BY DEF IInv
<1>2. QED
  BY <1>1, ReleaseBookkeeping, PTL


----------------------------------------------------------------------------
(* The ledger *)

LEMMA UnseenStep ==
  ASSUME \A v \in Versions :
           /\ tag'[v].commit = tag[v].commit
           /\ assets'[v].package = assets[v].package
           /\ assets'[v].receipt = assets[v].receipt
           /\ release'[v] = "public" <=> release[v] = "public",
         registry' = registry
  PROVE  UNCHANGED Ledger!vars
<1>1. /\ [v \in Versions |-> tag'[v].commit] = [v \in Versions |-> tag[v].commit]
      /\ [v \in Versions |-> assets'[v].package] = [v \in Versions |-> assets[v].package]
      /\ [v \in Versions |-> assets'[v].receipt] = [v \in Versions |-> assets[v].receipt]
  OBVIOUS
<1>2. [v \in Versions |-> release'[v] = "public"] = [v \in Versions |-> release[v] = "public"]
  <2>1. \A v \in Versions : (release'[v] = "public") = (release[v] = "public")
    OBVIOUS
  <2>2. QED
    BY <2>1
<1>3. QED
  BY <1>1, <1>2 DEF Ledger!vars

LEMMA UnchangedUnseen ==
  ASSUME services' = services
  PROVE  UNCHANGED Ledger!vars
BY UnseenStep DEF services

\* What an upload shows of a version: the package and the receipt, if they are
\* among its names and were not there before.
LEMMA UploadSeen ==
  ASSUME TypeOK, NEW c \in Commits, NEW job, NEW step,
         NEW names \in SUBSET DOMAIN NoAssets, NEW files \in AssetSets, NEW next,
         Upload(c, job, step, names, files, next)
  PROVE  /\ UNCHANGED <<tag, release, registry>>
         /\ \A u \in Versions \ {VersionOf[c]} : assets'[u] = assets[u]
         /\ \/ assets'[VersionOf[c]].package = assets[VersionOf[c]].package
            \/ /\ "package" \in names /\ assets[VersionOf[c]].package = None
               /\ assets'[VersionOf[c]].package = files.package
         /\ \/ assets'[VersionOf[c]].receipt = assets[VersionOf[c]].receipt
            \/ /\ "receipt" \in names /\ assets[VersionOf[c]].receipt = None
               /\ assets'[VersionOf[c]].receipt = files.receipt
<1> DEFINE v == VersionOf[c]
           Uploaded(done) == [n \in DOMAIN NoAssets |->
                                IF n \in done THEN files[n] ELSE assets[v][n]]
<1>1. UNCHANGED <<tag, release, registry>> /\ v \in Versions
  BY CommitFacts DEF Upload
<1>2. CASE assets' = assets
  BY <1>1, <1>2
<1>3. CASE assets' # assets
  <2>1. \A n \in names : assets[v][n] = NoAssets[n]
    BY <1>3 DEF Upload
  <2>2. PICK done \in SUBSET names : assets' = [assets EXCEPT ![v] = Uploaded(done)]
    BY <2>1 DEF Upload
  <2>3. /\ assets'[v] = Uploaded(done)
        /\ \A u \in Versions \ {v} : assets'[u] = assets[u]
    BY <1>1, <2>2 DEF TypeOK
  <2>4. /\ Uploaded(done).package = IF "package" \in done THEN files.package
                                                         ELSE assets[v].package
        /\ Uploaded(done).receipt = IF "receipt" \in done THEN files.receipt
                                                         ELSE assets[v].receipt
    BY AssetNames
  <2>5. /\ "package" \in names => assets[v].package = None
        /\ "receipt" \in names => assets[v].receipt = None
    BY <2>1, AssetNames
  <2> HIDE DEF Uploaded
  <2>6. QED
    BY <1>1, <2>3, <2>4, <2>5
<1>4. QED
  BY <1>2, <1>3

\* What the steps of a run that write outside show of its version.
LEMMA SignSeen ==
  ASSUME IInv, NEW c \in Commits, Sign(c)
  PROVE  Ledger!Sign(c) \/ UNCHANGED Ledger!vars
<1> DEFINE v == VersionOf[c]
<1>1. UNCHANGED <<release, assets, registry>> /\ v \in Versions /\ TypeOK
  BY CommitFacts DEF Sign, SignWhen, IInv
<1>2. CASE ~(Signable(c) /\ tag[v] = NoTag)
  <2>1. tag' = tag
    BY <1>2 DEF Sign, SignWhen
  <2>2. QED
    BY <1>1, <2>1, UnseenStep
<1>3. CASE Signable(c) /\ tag[v] = NoTag
  <2>1. tag' = [tag EXCEPT ![v] = [commit |-> c, attempt |-> approved[c]]]
    BY <1>3 DEF Sign, SignWhen
  <2>2. tag[v].commit = None
    BY <1>3 DEF NoTag
  <2>3. [u \in Versions |-> tag'[u].commit]
          = [[u \in Versions |-> tag[u].commit] EXCEPT ![v] = c]
    BY <1>1, <2>1 DEF TypeOK
  <2>4. QED
    BY <1>1, <2>2, <2>3 DEF Ledger!Sign
<1>4. QED
  BY <1>2, <1>3

LEMMA StageSeen ==
  ASSUME IInv, NEW c \in Commits, UploadStaged(c)
  PROVE  Ledger!Stage(VersionOf[c]) \/ UNCHANGED Ledger!vars
<1> DEFINE v == VersionOf[c]
           names == {"package", "admitted", "attested"}
<1>1. /\ at[c].job = "staging" /\ at[c].step = "upload"
      /\ TypeOK /\ v \in Versions /\ c # None
  BY CommitFacts DEF UploadStaged, Upload, At, IInv
<1>2. Len(ws[c].chain) = 2 /\ Len(ws[c].chain) # 0
  BY <1>1 DEF IInv, Linked
<1>3. Staged(c) \in AssetSets /\ Staged(c).package = c
  BY <1>1, <1>2, StagedTyped
<1>4. tag[v] = [commit |-> c, attempt |-> approved[c]]
  BY <1>1, <1>2, InStaging
<1>5. names \in SUBSET DOMAIN NoAssets /\ "receipt" \notin names
  BY AssetNames
<1>6. Upload(c, "staging", "upload", names, Staged(c), "assets")
  BY DEF UploadStaged
<1> HIDE DEF names
<1>7. /\ UNCHANGED <<tag, release, registry>>
      /\ \A u \in Versions \ {v} : assets'[u] = assets[u]
      /\ assets'[v].receipt = assets[v].receipt
      /\ \/ assets'[v].package = assets[v].package
         \/ assets[v].package = None /\ assets'[v].package = c
  BY <1>1, <1>3, <1>5, <1>6, UploadSeen
<1>8. CASE assets'[v].package = assets[v].package
  BY <1>7, <1>8, UnseenStep
<1>9. CASE assets[v].package = None /\ assets'[v].package = c
  <2>1. tag[v].commit = c
    BY <1>4
  <2>2. /\ [u \in Versions |-> assets'[u].package]
             = [[u \in Versions |-> assets[u].package] EXCEPT ![v] = c]
        /\ [u \in Versions |-> assets'[u].receipt] = [u \in Versions |-> assets[u].receipt]
    BY <1>1, <1>7, <1>9
  <2>3. QED
    BY <1>1, <1>7, <1>9, <2>1, <2>2 DEF Ledger!Stage
<1>10. QED
  BY <1>7, <1>8, <1>9

LEMMA PublishSeen ==
  ASSUME IInv, NEW c \in Commits, Publish(c)
  PROVE  Ledger!Publish(VersionOf[c]) \/ UNCHANGED Ledger!vars
<1> DEFINE v == VersionOf[c]
<1>1. /\ at[c].job = "publish" /\ UNCHANGED <<tag, release, assets>>
      /\ TypeOK /\ v \in Versions /\ c # None
  BY CommitFacts DEF Publish, At, IInv
<1>2. CASE ~Absent(c)
  BY <1>1, <1>2, UnseenStep DEF Publish
<1>3. CASE Absent(c)
  <2>1. registry[v] = None /\ registry' = [registry EXCEPT ![v] = c]
    BY <1>3 DEF Publish, Absent
  <2>2. assets[v].package = c
    BY <1>1, InPublishing
  <2>3. QED
    BY <1>1, <2>1, <2>2 DEF Ledger!Publish
<1>4. QED
  BY <1>2, <1>3

LEMMA AttachSeen ==
  ASSUME IInv, NEW c \in Commits, Attach(c)
  PROVE  Ledger!Verify(VersionOf[c]) \/ UNCHANGED Ledger!vars
<1> DEFINE v == VersionOf[c]
           names == {"envelope", "receipt"}
<1>1. at[c].job = "promotion" /\ TypeOK /\ v \in Versions
  BY CommitFacts DEF Attach, Upload, At, IInv
<1>2. Len(ws[c].chain) = 4 /\ registry[v] = c
  BY <1>1, InPromotion
<1>3. Complete(c) \in AssetSets /\ Complete(c).receipt = c
  BY <1>1, <1>2, CompleteTyped
<1>4. names \in SUBSET DOMAIN NoAssets /\ "package" \notin names
  BY AssetNames
<1>5. Upload(c, "promotion", "attach", names, Complete(c), "assets")
  BY DEF Attach
<1> HIDE DEF names
<1>6. /\ UNCHANGED <<tag, release, registry>>
      /\ \A u \in Versions \ {v} : assets'[u] = assets[u]
      /\ assets'[v].package = assets[v].package
      /\ \/ assets'[v].receipt = assets[v].receipt
         \/ assets[v].receipt = None /\ assets'[v].receipt = c
  BY <1>1, <1>3, <1>4, <1>5, UploadSeen
<1>7. CASE assets'[v].receipt = assets[v].receipt
  BY <1>6, <1>7, UnseenStep
<1>8. CASE assets[v].receipt = None /\ assets'[v].receipt = c
  <2>1. registry[v] \notin {None, Foreign}
    BY <1>2, CommitFacts
  <2>2. /\ [u \in Versions |-> assets'[u].receipt]
             = [[u \in Versions |-> assets[u].receipt] EXCEPT ![v] = c]
        /\ [u \in Versions |-> assets'[u].package] = [u \in Versions |-> assets[u].package]
    BY <1>1, <1>6, <1>8
  <2>3. QED
    BY <1>1, <1>2, <1>6, <1>8, <2>1, <2>2 DEF Ledger!Verify
<1>9. QED
  BY <1>6, <1>7, <1>8

LEMMA PromoteSeen ==
  ASSUME IInv, NEW c \in Commits, Promote(c)
  PROVE  Ledger!Promote(VersionOf[c])
<1> DEFINE v == VersionOf[c]
<1>1. /\ at[c] = [job |-> "promotion", step |-> "promote"]
      /\ UNCHANGED <<tag, assets, registry>>
      /\ release' = [release EXCEPT ![v] = "public"]
      /\ TypeOK /\ v \in Versions /\ c # None
  BY CommitFacts DEF Promote, At, IInv
<1>2. assets[v].receipt = c
  BY <1>1 DEF IInv, Delivered
<1>3. [u \in Versions |-> release'[u] = "public"]
        = [[u \in Versions |-> release[u] = "public"] EXCEPT ![v] = TRUE]
  <2>1. \A u \in Versions :
          (release'[u] = "public") = IF u = v THEN TRUE ELSE release[u] = "public"
    BY <1>1 DEF TypeOK
  <2>2. QED
    BY <1>1, <2>1
<1>4. QED
  BY <1>1, <1>2, <1>3 DEF Ledger!Promote

LEMMA StepSeen ==
  ASSUME IInv, NEW c \in Commits, Step(c)
  PROVE  Ledger!Next \/ UNCHANGED Ledger!vars
<1>1. VersionOf[c] \in Versions
  BY CommitFacts
<1>2. CASE Sign(c)
  BY <1>2, SignSeen DEF Ledger!Next
<1>3. CASE UploadStaged(c)
  BY <1>1, <1>3, StageSeen DEF Ledger!Next
<1>4. CASE Publish(c)
  BY <1>1, <1>4, PublishSeen DEF Ledger!Next
<1>5. CASE Attach(c)
  BY <1>1, <1>5, AttachSeen DEF Ledger!Next
<1>6. CASE Promote(c)
  BY <1>1, <1>6, PromoteSeen DEF Ledger!Next
<1>7. CASE CreateDraft(c)
  <2>1. UNCHANGED <<tag, assets, registry>>
    BY <1>7 DEF CreateDraft
  <2>2. \/ release' = release
        \/ /\ release[VersionOf[c]] = "none"
           /\ release' = [release EXCEPT ![VersionOf[c]] = "draft"]
    BY <1>7 DEF CreateDraft
  <2>3. \A v \in Versions : release'[v] = "public" <=> release[v] = "public"
    BY <1>1, <2>2 DEF IInv, TypeOK
  <2>4. QED
    BY <2>1, <2>3, UnseenStep
<1>8. CASE \/ VerifyRun(c) \/ DownloadFirst(c) \/ ImportFirst(c)
           \/ PreflightFirst(c) \/ VerifyTag(c) \/ DownloadAgain(c)
           \/ Import(c) \/ Readiness(c) \/ Record(c) \/ VerifyStaged(c)
  <2>1. services' = services
    BY <1>8, VerifyRunSound, DownloadFirstSound, ImportFirstSound,
       PreflightFirstSound, VerifyTagSound, DownloadAgainSound, ImportSound,
       ReadinessSound, RecordSound, VerifyStagedSound
  <2>2. QED
    BY <2>1, UnchangedUnseen
<1>9. CASE \/ Mapping(c) \/ Preflight(c) \/ Revalidate(c) \/ VerifyUploaded(c)
           \/ VerifyFinal(c) \/ VerifyAttached(c)
  <2>1. services' = services
    BY <1>9, MappingSound, PreflightSound, RevalidateSound,
       VerifyUploadedSound, VerifyFinalSound, VerifyAttachedSound
  <2>2. QED
    BY <2>1, UnchangedUnseen
<1>10. QED
  BY <1>2, <1>3, <1>4, <1>5, <1>6, <1>7, <1>8, <1>9 DEF Step

LEMMA NextSeen ==
  ASSUME IInv, [Next]_vars
  PROVE  [Ledger!Next]_(Ledger!vars)
<1>1. CASE UNCHANGED vars
  BY <1>1, UnchangedUnseen DEF vars
<1>2. CASE Merge
  BY <1>2, UnchangedUnseen DEF Merge
<1>3. ASSUME NEW c \in Commits, Reattempt(c) \/ Lapse(c)
      PROVE  UNCHANGED Ledger!vars
  BY <1>3, UnchangedUnseen DEF Reattempt, Lapse
<1>4. ASSUME NEW c \in Commits, Dispatch(c) \/ Restart(c) \/ Crash(c)
      PROVE  UNCHANGED Ledger!vars
  BY <1>4, UnchangedUnseen DEF Dispatch, Restart, Crash
<1>5. ASSUME NEW v \in Versions, PublishElsewhere(v)
      PROVE  Ledger!PublishElsewhere(v)
  BY <1>5 DEF PublishElsewhere, Ledger!PublishElsewhere
<1>6. ASSUME NEW v \in Versions, PublishElsewhere(v)
      PROVE  Ledger!Next
  BY <1>5, <1>6 DEF Ledger!Next
<1>7. QED
  BY <1>1, <1>2, <1>3, <1>4, <1>6, StepSeen DEF Next

(* The workflow implements the ledger: whatever stops, is run again, moves *)
(* on or is published elsewhere, a version passes from its signature to    *)
(* its promotion on behalf of one commit, and nothing of it is undone.     *)
THEOREM RefinesLedger == Spec => ImplementsLedger
<1>1. Init => Ledger!Init
  <2> SUFFICES ASSUME Init PROVE Ledger!Init
    OBVIOUS
  <2>1. \A v \in Versions : /\ tag[v].commit = None /\ assets[v].package = None
                            /\ assets[v].receipt = None /\ registry[v] = None
                            /\ (release[v] = "public") = FALSE
    BY DEF Init, NoTag, NoAssets
  <2>2. registry = [v \in Versions |-> None]
    BY DEF Init
  <2>3. QED
    BY <2>1, <2>2 DEF Ledger!Init
<1>2. IInv /\ [Next]_vars => [Ledger!Next]_(Ledger!vars)
  BY NextSeen
<1>3. QED
  BY <1>1, <1>2, ReleaseBookkeeping, PTL DEF Spec, ImplementsLedger, Ledger!Spec

=============================================================================
