----------------------------- MODULE SllmRelease -----------------------------
(***************************************************************************)
(* A fine-tuned (or base) SLLM on its way from the training output to the  *)
(* Pod that serves it: packaged (ai/training/f2_sLLM/package_release.py),  *)
(* inspected and published to S3 (infra/scripts/manage_sllm_artifact.py),  *)
(* reviewed by the command that creates the Pod (manage_runpod.py) and     *)
(* downloaded by the Pod (infra/runpod/scripts/artifact_bootstrap.py).     *)
(*                                                                         *)
(* Three programs written apart check the same bundle.  A file or a        *)
(* manifest is its own SHA-256: equal hashes are equal contents.           *)
(***************************************************************************)
EXTENDS Naturals, FiniteSets

CONSTANTS
    Publisher,   \* operators who package and publish the same release id
    BaseModel,   \* model id and revision
    Adapter,     \* adapter trees
    Dataset,     \* evaluation dataset releases
    NoFile,        \* the absent file, adapter, object or release
    MaxBoots     \* bound: starts of the container

ASSUME SllmReleaseAssumption == MaxBoots \in Nat /\ NoFile \notin Adapter

VARIABLES
    relInput,   \* what is asked to be packaged, from which files
    relDesk,    \* the bundle on each publisher's disk
    relPub,     \* how far each publisher's `publish` is
    relBucket,  \* the two S3 keys of the release id: the objects under them, one or none
    relReview,  \* manifest and bundle checksum a Pod is created with
    relDisk,    \* the release directory of the container
    relBoot     \* the supervisor's bootstrap

relVars == <<relInput, relDesk, relPub, relBucket, relReview, relDisk, relBoot>>

Label == {"first", "second"}

EvaluatedModel == [label : Label, model : BaseModel, adapter : Adapter \cup {NoFile}]
Evaluation == [task : {"full", "classification"}, dataset : Dataset,
               mode : {"lora", "base"}, adapter : Adapter \cup {NoFile},
               models : {ms \in SUBSET EvaluatedModel : Cardinality(ms) \in 1..2}]
Approval == [mode : {"lora", "base"}, sameRun : BOOLEAN, selected : Label]
Training == [model : BaseModel, adapter : Adapter]

------------------------------------------------------------------------------
(* package_release.py                                                        *)

LabelsUnique(ms) == \A x, y \in ms : x.label = y.label => x = y

\* Faulty: accepts an evaluation made in another mode.
EvaluationAcceptedAnyMode(in) ==
    /\ in.evaluation.task = "full"
    /\ in.evaluation.dataset = in.dataset
    /\ LabelsUnique(in.evaluation.models)

(* validate_evaluation: a base release was evaluated without an adapter, a
   lora release as the only model, with the adapter of the summary.          *)
EvaluationAccepted(in) ==
    LET e == in.evaluation IN
    /\ e.task = "full"
    /\ e.dataset = in.dataset
    /\ e.mode = in.mode
    /\ LabelsUnique(e.models)
    /\ IF in.mode = "base"
       THEN e.adapter = NoFile /\ \A x \in e.models : x.adapter = NoFile
       ELSE /\ e.adapter # NoFile
            /\ \E x \in e.models : e.models = {x} /\ x.adapter = e.adapter

(* validate_promotion_approval.                                              *)
ApprovalAccepted(in) ==
    /\ in.approval.mode = in.mode
    /\ in.approval.sameRun
    /\ \E x \in in.evaluation.models : x.label = in.approval.selected

Selected(e, label) == CHOOSE x \in e.models : x.label = label

(* _lora_source: the adapter that is packaged is the one that was evaluated,
   trained on the base model it was evaluated with.                          *)
TrainingAccepted(in) ==
    in.stage = "verified" =>
        LET x == Selected(in.evaluation, in.approval.selected) IN
        /\ x.model = in.training.model
        /\ x.adapter = in.training.adapter

Packages(in) ==
    /\ in.stage = "dev" => in.devId
    /\ (in.mode = "lora") = (in.training # NoFile)
    /\ (in.stage = "verified") = (in.evaluation # NoFile)
    /\ (in.stage = "verified") = (in.approval # NoFile)
    /\ in.stage = "verified" => EvaluationAccepted(in) /\ ApprovalAccepted(in)
    /\ in.mode = "lora" => TrainingAccepted(in)

(* The base model comes from training, from the evaluation, or for a dev base
   release from the command line.                                            *)
BaseOf(in) ==
    IF in.mode = "lora" THEN in.training.model
    ELSE IF in.stage = "verified" THEN Selected(in.evaluation, in.approval.selected).model
    ELSE in.base

(* build_manifest: created_at tells two packagings of the same files apart.  *)
ManifestOf(in, stamp) ==
    [schema |-> 2, devId |-> in.devId, stamp |-> stamp, mode |-> in.mode,
     stage |-> in.stage, base |-> BaseOf(in),
     adapter |-> IF in.mode = "lora" THEN in.training.adapter ELSE NoFile,
     dataset |-> in.dataset, summary |-> in.evaluation, approval |-> in.approval]

BundleOf(in, stamp) ==
    [manifest |-> ManifestOf(in, stamp), summary |-> in.evaluation,
     approval |-> in.approval, adapter |-> ManifestOf(in, stamp).adapter,
     members |-> "plain", intact |-> TRUE]

PackageRelease(p) ==
    /\ relDesk[p] = NoFile
    /\ relPub[p] = "idle"
    /\ Packages(relInput)
    /\ \E stamp \in 1..Cardinality(Publisher) :
          /\ \A q \in Publisher : relDesk[q] # NoFile => relDesk[q].manifest.stamp # stamp
          /\ relDesk' = [relDesk EXCEPT ![p] = BundleOf(relInput, stamp)]
    /\ UNCHANGED <<relInput, relPub, relBucket, relReview, relDisk, relBoot>>

(* A bundle of the first schema, from before this packager: lora, verified,
   its objects without cross hashes.                                         *)
LegacyBundle(p) ==
    /\ relDesk[p] # NoFile
    /\ relPub[p] = "idle"
    /\ relInput.stage = "verified" /\ relInput.mode = "lora"
    /\ relDesk' = [relDesk EXCEPT ![p].manifest.schema = 1]
    /\ UNCHANGED <<relInput, relPub, relBucket, relReview, relDisk, relBoot>>

(* The file is edited or damaged before it is published.                     *)
DamageBundle(p) ==
    /\ relDesk[p] # NoFile
    /\ relPub[p] = "idle"
    /\ relDesk[p].intact
    /\ \/ \E a \in (Adapter \cup {NoFile}) \ {relDesk[p].adapter} :
             relDesk' = [relDesk EXCEPT ![p].adapter = a, ![p].intact = FALSE]
       \/ /\ relDesk[p].summary # NoFile
          /\ relDesk' = [relDesk EXCEPT ![p].summary = NoFile, ![p].intact = FALSE]
       \/ relDesk' = [relDesk EXCEPT ![p].members = "link", ![p].intact = FALSE]
    /\ UNCHANGED <<relInput, relPub, relBucket, relReview, relDisk, relBoot>>

------------------------------------------------------------------------------
(* manage_sllm_artifact.py                                                   *)

(* _validate_manifest.                                                       *)
ManifestValid(m) ==
    /\ m.schema \in {1, 2}
    /\ m.schema = 1 => m.mode = "lora" /\ m.stage = "verified"
    /\ m.stage = "dev" => m.devId /\ m.summary = NoFile /\ m.approval = NoFile
    /\ m.stage = "verified" => m.summary # NoFile /\ m.approval # NoFile
    /\ (m.mode = "base") = (m.adapter = NoFile)

(* _validate_promotion_contract.                                             *)
PromotionHolds(b) ==
    LET m == b.manifest IN
    /\ b.summary = m.summary
    /\ b.approval = m.approval
    /\ b.summary.task = "full"
    /\ b.approval.sameRun
    /\ \E x \in b.summary.models : x.label = b.approval.selected
    /\ m.schema = 2 =>
          LET x == Selected(b.summary, b.approval.selected) IN
          /\ b.summary.dataset = m.dataset
          /\ b.summary.mode = m.mode
          /\ b.approval.mode = m.mode
          /\ x.model = m.base
          /\ x.adapter = m.adapter

(* inspect_bundle: only regular files of known names, and what the manifest
   says of them; the adapter's tree hash is recomputed.                      *)
Inspects(b) ==
    /\ b.members = "plain"
    /\ ManifestValid(b.manifest)
    /\ IF b.manifest.stage = "verified"
       THEN b.summary # NoFile /\ b.approval # NoFile /\ PromotionHolds(b)
       ELSE b.summary = NoFile /\ b.approval = NoFile
    /\ b.adapter = b.manifest.adapter

StartPublish(p) ==
    /\ relPub[p] = "idle"
    /\ relDesk[p] # NoFile
    /\ Inspects(relDesk[p])
    /\ relPub' = [relPub EXCEPT ![p] = "headBundle"]
    /\ UNCHANGED <<relInput, relDesk, relBucket, relReview, relDisk, relBoot>>

(* The checksums an object carries; v2 objects name each other's.            *)
BundleObject(b) ==
    [body |-> b, sha |-> b, other |-> IF b.manifest.schema = 2 THEN b.manifest ELSE NoFile]
ManifestObject(b) ==
    [body |-> b.manifest, sha |-> b.manifest,
     other |-> IF b.manifest.schema = 2 THEN b ELSE NoFile]
ObjectOf(p, key) == IF key = "bundle" THEN BundleObject(relDesk[p])
                                      ELSE ManifestObject(relDesk[p])

(* ensure_immutable, first look: an object with this metadata is retained, any
   other is an error.                                                        *)
HeadObject(p, key, pc, putPc, donePc) ==
    /\ relPub[p] = pc
    /\ relPub' = [relPub EXCEPT ![p] =
          IF relBucket[key] = {} THEN putPc
          ELSE IF relBucket[key] = {ObjectOf(p, key)} THEN donePc ELSE "refused"]
    /\ UNCHANGED <<relInput, relDesk, relBucket, relReview, relDisk, relBoot>>

(* put_immutable sends If-None-Match: *, whoever looked first.           *)
MayPut(key) == relBucket[key] = {}

PutObject(p, key, pc, verifyPc) ==
    /\ relPub[p] = pc
    /\ IF MayPut(key)
       THEN \E seen \in BOOLEAN :
              /\ relBucket' = [relBucket EXCEPT ![key] = {ObjectOf(p, key)}]
              /\ relPub' = [relPub EXCEPT ![p] = IF seen THEN verifyPc ELSE "refused"]
       ELSE relPub' = [relPub EXCEPT ![p] = "refused"] /\ UNCHANGED relBucket
    /\ UNCHANGED <<relInput, relDesk, relReview, relDisk, relBoot>>

(* ensure_immutable, second look: what was written is there.                 *)
VerifyObject(p, key, pc, donePc) ==
    /\ relPub[p] = pc
    /\ relPub' = [relPub EXCEPT ![p] =
          IF relBucket[key] = {ObjectOf(p, key)} THEN donePc ELSE "refused"]
    /\ UNCHANGED <<relInput, relDesk, relBucket, relReview, relDisk, relBoot>>

(* publish: the bundle first, then its manifest.                             *)
Publish(p) ==
    \/ HeadObject(p, "bundle", "headBundle", "putBundle", "headManifest")
    \/ PutObject(p, "bundle", "putBundle", "verifyBundle")
    \/ VerifyObject(p, "bundle", "verifyBundle", "headManifest")
    \/ HeadObject(p, "manifest", "headManifest", "putManifest", "idle")
    \/ PutObject(p, "manifest", "putManifest", "verifyManifest")
    \/ VerifyObject(p, "manifest", "verifyManifest", "idle")

(* A publish that failed or was stopped is run again, or a file is packaged
   anew.                                                                     *)
PublishAgain(p) ==
    /\ relPub[p] # "idle"
    /\ relPub' = [relPub EXCEPT ![p] = "idle"]
    /\ \/ UNCHANGED relDesk
       \/ relDesk' = [relDesk EXCEPT ![p] = NoFile]
    /\ UNCHANGED <<relInput, relBucket, relReview, relDisk, relBoot>>

------------------------------------------------------------------------------
(* manage_runpod.py: release                                                 *)

(* The manifest is read and validated, and the checksums of the two objects
   are compared, before a Pod is made with them.                             *)
ReleaseConsistent(m, b) ==
    /\ ManifestValid(m.body)
    /\ m.sha = m.body
    /\ IF m.body.schema = 2 THEN m.other = b.sha /\ b.other = m.sha
       ELSE (m.other = NoFile /\ b.other = NoFile) \/ (m.other = b.sha /\ b.other = m.sha)

ReviewRelease ==
    /\ relReview = NoFile
    /\ \E m \in relBucket.manifest, b \in relBucket.bundle :
          /\ ReleaseConsistent(m, b)
          /\ relReview' = [manifest |-> m.body, sha |-> b.sha]
    /\ relBoot' = [relBoot EXCEPT !.pc = "start"]
    /\ UNCHANGED <<relInput, relDesk, relPub, relBucket, relDisk>>

------------------------------------------------------------------------------
(* artifact_bootstrap.py                                                     *)

(* _validate, over the files that were written.                              *)
BootAccepts(b) ==
    /\ b.manifest.schema \in {1, 2}
    /\ b.manifest.devId = relReview.manifest.devId
    /\ b.manifest.stage = "dev" => b.manifest.devId
    /\ IF b.manifest.mode = "base" THEN b.adapter = NoFile /\ b.manifest.adapter = NoFile
       ELSE b.adapter # NoFile /\ b.adapter = b.manifest.adapter

(* A release directory is used again only if its receipt names the requested
   bundle and the files still hash to what was written.                      *)
CacheHolds(d) == d.receipt = relReview.sha /\ d.tree = d.receipt

BootCached ==
    /\ relBoot.pc = "start"
    /\ relDisk # NoFile
    /\ relBoot' = IF CacheHolds(relDisk) /\ BootAccepts(relDisk.tree)
                  THEN [relBoot EXCEPT !.pc = "served", !.release = relDisk.tree]
                  ELSE [relBoot EXCEPT !.pc = "refused"]
    /\ UNCHANGED <<relInput, relDesk, relPub, relBucket, relReview, relDisk>>

(* _download and _extract into a temporary directory; the transfer may fail or
   deliver other bytes.                                                      *)
BootDownload ==
    /\ relBoot.pc = "start"
    /\ relDisk = NoFile
    /\ \E got \in {NoFile} \cup {b.body : b \in relBucket.bundle} :
          relBoot' = IF got = relReview.sha /\ got.members = "plain"
                     THEN [relBoot EXCEPT !.pc = "unpacked", !.release = got]
                     ELSE [relBoot EXCEPT !.pc = "refused"]
    /\ UNCHANGED <<relInput, relDesk, relPub, relBucket, relReview, relDisk>>

(* The validated directory is renamed into place with its receipt in it.     *)
BootInstall ==
    /\ relBoot.pc = "unpacked"
    /\ IF BootAccepts(relBoot.release)
       THEN /\ relDisk' = [receipt |-> relReview.sha, tree |-> relBoot.release]
            /\ relBoot' = [relBoot EXCEPT !.pc = "served"]
       ELSE relBoot' = [relBoot EXCEPT !.pc = "refused", !.release = NoFile]
            /\ UNCHANGED relDisk
    /\ UNCHANGED <<relInput, relDesk, relPub, relBucket, relReview>>

(* The container restarts at any moment; temporary directories are not read
   again.  A file of the release directory may have changed meanwhile.       *)
BootAgain ==
    /\ relBoot.pc # "off"
    /\ relBoot.count < MaxBoots
    /\ relBoot' = [pc |-> "start", release |-> NoFile, count |-> relBoot.count + 1]
    /\ \/ UNCHANGED relDisk
       \/ /\ relDisk # NoFile
          /\ \E a \in Adapter : relDisk' = [relDisk EXCEPT !.tree.adapter = a,
                                                           !.tree.manifest.adapter = a]
    /\ UNCHANGED <<relInput, relDesk, relPub, relBucket, relReview>>

------------------------------------------------------------------------------
SllmReleaseInit ==
    /\ relInput \in
          [devId : BOOLEAN, mode : {"lora"}, stage : {"dev"}, base : BaseModel,
           dataset : Dataset, training : Training, evaluation : {NoFile}, approval : {NoFile}]
          \cup
          [devId : BOOLEAN, mode : {"base"}, stage : {"dev"}, base : BaseModel,
           dataset : Dataset, training : {NoFile}, evaluation : {NoFile}, approval : {NoFile}]
          \cup
          [devId : {FALSE}, mode : {"lora", "base"}, stage : {"verified"}, base : {NoFile},
           dataset : Dataset, training : Training \cup {NoFile}, evaluation : Evaluation,
           approval : Approval]
    /\ relDesk = [p \in Publisher |-> NoFile]
    /\ relPub = [p \in Publisher |-> "idle"]
    /\ relBucket = [key \in {"bundle", "manifest"} |-> {}]
    /\ relReview = NoFile
    /\ relDisk = NoFile
    /\ relBoot = [pc |-> "off", release |-> NoFile, count |-> 0]

SllmReleaseNext ==
    \/ \E p \in Publisher :
          \/ PackageRelease(p) \/ LegacyBundle(p) \/ DamageBundle(p)
          \/ StartPublish(p) \/ Publish(p) \/ PublishAgain(p)
    \/ ReviewRelease
    \/ BootCached
    \/ BootDownload
    \/ BootInstall
    \/ BootAgain

SllmReleaseSpec == SllmReleaseInit /\ [][SllmReleaseNext]_relVars
------------------------------------------------------------------------------
(* The three programs agree: whatever the packager writes and nobody edits, the
   publisher's inspection accepts, so that a release that was evaluated and
   approved is never stuck on the way.  (package_release, inspect_bundle)    *)
PackagedReleaseInspects ==
    \A p \in Publisher : relDesk[p] # NoFile /\ relDesk[p].intact => Inspects(relDesk[p])

(* What a Pod serves is the release its creator reviewed: the same manifest,
   with the adapter that manifest names, however two publications of the id
   were interleaved, repeated or cut short, and whatever became of the files
   of an earlier start.  (publish, release, bootstrap)                       *)
ServedReleaseIsReviewed ==
    relBoot.pc = "served" =>
        /\ relBoot.release.manifest = relReview.manifest
        /\ Inspects(relBoot.release)

(* A release passes every program on its way, and none but itself arrives.   *)
ReleaseIsReviewed == PackagedReleaseInspects /\ ServedReleaseIsReviewed

=============================================================================
