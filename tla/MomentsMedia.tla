----------------------------- MODULE MomentsMedia -----------------------------
(***************************************************************************)
(* Preserving the media of the moments (tools/moments-media): a capture of  *)
(* every planned original into the public or the private bucket, a recovery *)
(* of what the capture could not store, a manifest with its proof, two      *)
(* verifications of the bucket, and the D1 build that accepts or refuses    *)
(* that evidence (tools/moments-backup/lib/d1.mjs). The tools share files   *)
(* and nothing else; each may be run again, or end, at any time.            *)
(*                                                                          *)
(* Journals only grow: the number of their records stands for their digest. *)
(***************************************************************************)
EXTENDS Naturals, Sequences, FiniteSets, Functions

CONSTANTS
    Media,           \* rows of the media plan
    Eligible,        \* publicEligible
    WithSource,      \* a canonical original URL
    WithAlias,       \* another medium with the same hash
    WithLegacy, WithThumbnail, WithHls,
    MaxCaptures,     \* records of the capture journal
    MaxRecoveries,   \* results in the recovery journal
    MaxProofs, MaxReports,
    MaxTools         \* tools that run at one time

ASSUME MediaConstants ==
    /\ \A part \in {Eligible, WithSource, WithAlias, WithLegacy, WithThumbnail, WithHls} :
          part \subseteq Media
    /\ \A bound \in {MaxCaptures, MaxRecoveries, MaxProofs, MaxReports, MaxTools} : bound \in Nat

VARIABLES
    captured, captures,    \* capture-checkpoint.ndjson
    recPlan,               \* recovery-plan.ndjson: the statuses it was made from
    recHead,               \* header of recovery-checkpoint.ndjson
    recovered, recoveries, \* its last results
    missed,                \* rows where a strategy tried before it failed of an error
    manifest, proof,       \* d1-media-manifest.ndjson and .json
    reports,               \* verify-report-pass1.json and -pass2.json
    built,                 \* the D1 build's manifest
    capturer, recoverer, verifier, builder   \* the running tools

journalVars == <<captured, captures, recPlan, recHead, recovered, recoveries, missed>>
evidenceVars == <<manifest, proof, reports, built>>
toolVars == <<capturer, recoverer, verifier, builder>>
mediaVars == <<journalVars, evidenceVars, toolVars>>

CaptureStored == {"public_stored", "private_stored", "quarantined_stored"}
CaptureStatuses ==
    CaptureStored \cup {"unattempted", "source_missing", "oversize", "refused", "failed"}
Results == {"none", "original_public", "original_private", "quarantined", "derivative",
            "metadata_only", "failed"}
Manifests == [Media -> CaptureStatuses]
None == [kind |-> "none"]

-----------------------------------------------------------------------------
(* What the tools decide. "refused" is a failure with SOURCE_HTTP_ERROR 403, *)
(* "failed" any other failure that is not a missing source.                  *)
NeedsRecovery(m, status) ==
    \/ status \in {"failed", "refused", "oversize", "source_missing"}
    \/ m \in Eligible /\ status \in {"private_stored", "quarantined_stored"}

Derivatives == {"thumbnail_derivative", "hls_derivative"}
Placeholders == {"public_original_required", "private_recovery_required", "metadata_only"}

Offers(m, status, kind) ==
    CASE kind = "retry_primary" -> status = "failed" /\ m \in WithSource
      [] kind = "multipart_original" -> status = "oversize" /\ m \in WithSource
      [] kind = "hash_alias_original" -> status = "refused" /\ m \in WithAlias
      [] kind = "legacy_original" -> status = "source_missing" /\ m \in WithLegacy
      [] kind = "thumbnail_derivative" ->
            status \in {"source_missing", "refused"} /\ m \in WithThumbnail
      [] kind = "hls_derivative" ->
            status \in {"oversize", "source_missing", "refused"} /\ m \in WithHls

Placeholder(m, status) ==
    CASE m \in Eligible -> "public_original_required"
      [] m \notin Eligible /\ status = "failed" -> "private_recovery_required"
      [] OTHER -> "metadata_only"

Offered(m, kind) == IF Offers(m, recPlan[m], kind) THEN <<kind>> ELSE << >>

(* The strategies of a row in the order in which they are tried. *)
Strategies(m) ==
    LET offered == Offered(m, "retry_primary") \o Offered(m, "multipart_original")
                   \o Offered(m, "hash_alias_original") \o Offered(m, "legacy_original")
                   \o Offered(m, "thumbnail_derivative") \o Offered(m, "hls_derivative")
    IN  IF offered = << >> THEN <<Placeholder(m, recPlan[m])>> ELSE offered

CaptureTerminal(m) ==
    captured[m] \in CaptureStored /\ (m \in Eligible => captured[m] = "public_stored")

RecoveryTerminal(m) ==
    IF m \in Eligible
    THEN recovered[m] = "original_public"
    ELSE recovered[m] \in {"original_private", "derivative", "metadata_only"}

Covers == \A m \in Media :
              recPlan[m] = IF NeedsRecovery(m, captured[m]) THEN captured[m] ELSE "unattempted"
Bound == [kind |-> "header", captures |-> captures, plan |-> recPlan]

Unresolved == {m \in Media : /\ recPlan[m] # "unattempted"
                             /\ ~CaptureTerminal(m) /\ ~RecoveryTerminal(m)}

EffectiveRow(m) ==
    CASE CaptureTerminal(m) -> captured[m]
      [] ~CaptureTerminal(m) /\ recovered[m] = "original_public" -> "public_stored"
      [] ~CaptureTerminal(m) /\ recovered[m] = "original_private" -> "private_stored"
      [] ~CaptureTerminal(m) /\ recovered[m] = "quarantined" -> "quarantined_stored"
      [] OTHER -> IF captured[m] \notin CaptureStored /\ recPlan[m] # "unattempted"
                     /\ recovered[m] \in {"derivative", "metadata_only"}
                  THEN "source_missing" ELSE captured[m]

\* Mistake: what was tried counts as stored.
PublicReadyOfAttempted(rows) == \A m \in Eligible : rows[m] # "unattempted"

PublicReady(rows) == \A m \in Eligible : rows[m] = "public_stored"

(* The two evaluations, of the capture alone and of the recovery: what       *)
(* finalize writes, and what verify and the D1 build compute once more.      *)
CaptureEval ==
    [kind |-> "capture-only", captures |-> captures, recoveries |-> 0, rows |-> captured,
     complete |-> /\ PublicReady(captured)
                  /\ \A m \in Media \ Eligible :
                        captured[m] \in CaptureStored \cup {"source_missing"}]

RecoveryRows == [m \in Media |-> EffectiveRow(m)]
RecoveryEval ==
    [kind |-> "recovery-finalized", captures |-> captures, recoveries |-> recoveries,
     rows |-> RecoveryRows,
     complete |-> /\ Unresolved = {} /\ PublicReady(RecoveryRows)
                  /\ \A m \in Media :
                        RecoveryRows[m] \notin {"failed", "refused", "oversize", "unattempted"}]

CanEvaluate(kind) == kind = "capture-only" \/ (kind = "recovery-finalized" /\ Covers /\ recHead = Bound)
Evaluation(kind) == IF kind = "capture-only" THEN CaptureEval ELSE RecoveryEval

Attested(p) ==
    /\ p # None /\ CanEvaluate(p.eval.kind)
    /\ p.eval = Evaluation(p.eval.kind) /\ manifest = p.eval.rows
-----------------------------------------------------------------------------
IdleCapturer == [at |-> "idle", eval |-> None]
IdleRecoverer == [at |-> "idle", pending |-> {}, eval |-> None]
IdleVerifier == [at |-> "idle", pass |-> 1, binding |-> None, prev |-> 0]
IdleBuilder == [at |-> "idle", binding |-> None]
NoReport == [no |-> 0, complete |-> FALSE, binding |-> None, prev |-> 0]

MediaTypeOK ==
    /\ captured \in Manifests /\ captures \in 0..MaxCaptures
    /\ recPlan \in Manifests /\ recoveries \in 0..MaxRecoveries
    /\ recovered \in [Media -> Results]
    /\ \A m \in Media : recovered[m] = "original_public" => m \in Eligible
    /\ capturer.at \in {"idle", "proof"}
    /\ recoverer.at \in {"idle", "rows", "proof"} /\ recoverer.pending \subseteq Media
    /\ missed \subseteq Media
    /\ \A p \in {1, 2} : reports[p].no \in 0..MaxReports
    /\ verifier.at \in {"idle", "heads"} /\ builder.at \in {"idle", "rows"}

MediaInit ==
    /\ captured = [m \in Media |-> "unattempted"] /\ captures = 0
    /\ recPlan = captured /\ recHead = None
    /\ recovered = [m \in Media |-> "none"] /\ recoveries = 0
    /\ missed = {}
    /\ manifest = captured /\ proof = None /\ reports = [p \in {1, 2} |-> NoReport]
    /\ built = None
    /\ capturer = IdleCapturer /\ recoverer = IdleRecoverer
    /\ verifier = IdleVerifier /\ builder = IdleBuilder

-----------------------------------------------------------------------------
MayStart(tool) ==
    /\ tool.at = "idle"
    /\ Cardinality({t \in {"capture", "recover", "verify", "build"} :
                       CASE t = "capture" -> capturer.at # "idle"
                         [] t = "recover" -> recoverer.at # "idle"
                         [] t = "verify" -> verifier.at # "idle"
                         [] OTHER -> builder.at # "idle"}) < MaxTools

(* Capture: rows whose last status is not terminal are tried, once in a run; *)
(* a run may end after any of them, and another start.                       *)
RetriedByCapture == {m \in Media : captured[m] \in {"unattempted", "failed", "refused"}}

CaptureOutcomes(m) ==
    CASE m \notin WithSource -> {"source_missing"}
      [] m \in WithSource /\ m \in Eligible ->
            {"public_stored", "quarantined_stored", "source_missing", "oversize", "refused", "failed"}
      [] OTHER -> {"private_stored", "source_missing", "oversize", "refused", "failed"}

CaptureRow(m) ==
    /\ capturer.at = "idle" /\ m \in RetriedByCapture /\ captures < MaxCaptures
    /\ \E status \in CaptureOutcomes(m) : captured' = [captured EXCEPT ![m] = status]
    /\ captures' = captures + 1
    /\ UNCHANGED <<recPlan, recHead, recovered, recoveries, missed, evidenceVars, toolVars>>

(* A run that has tried all of its rows writes the manifest, then the proof  *)
(* of the same evaluation.                                                   *)
FinishCapture ==
    /\ MayStart(capturer)
    /\ \A m \in Media : captured[m] # "unattempted"
    /\ manifest' = captured
    /\ capturer' = [at |-> "proof", eval |-> CaptureEval]
    /\ UNCHANGED <<journalVars, proof, reports, built, recoverer, verifier, builder>>

NextProof == IF proof = None THEN 1 ELSE proof.no + 1
WriteProof(eval) ==
    /\ NextProof <= MaxProofs
    /\ proof' = [kind |-> "proof", no |-> NextProof, eval |-> eval]

ProveCapture ==
    /\ capturer.at = "proof" /\ WriteProof(capturer.eval)
    /\ capturer' = IdleCapturer
    /\ UNCHANGED <<journalVars, manifest, reports, built, recoverer, verifier, builder>>

-----------------------------------------------------------------------------
(* The recovery plan covers the captured rows that need it, and no others. *)
PlanRecovery ==
    /\ recPlan' = [m \in Media |-> IF NeedsRecovery(m, captured[m]) THEN captured[m]
                                   ELSE "unattempted"]
    /\ recPlan' # recPlan
    /\ UNCHANGED <<captured, captures, recHead, recovered, recoveries, missed, evidenceVars, toolVars>>

(* The journal belongs to one plan and one capture journal for good. *)
StartRecovery ==
    /\ MayStart(recoverer) /\ captures > 0 /\ Covers
    /\ recHead \in {None, Bound}
    /\ recHead' = Bound
    /\ recoverer' = [IdleRecoverer EXCEPT !.at = "rows", !.pending = Unresolved]
    /\ UNCHANGED <<captured, captures, recPlan, recovered, recoveries, missed, evidenceVars,
                   capturer, verifier, builder>>

Preserved(m, kind) ==
    CASE kind \in Derivatives -> {"derivative"}
      [] kind \notin Derivatives /\ m \in Eligible -> {"original_public", "quarantined"}
      [] OTHER -> {"original_private"}

(* How a strategy can fail: its source is exhausted, the retired legacy host *)
(* does not resolve, or there is an error of the network, the disk, the      *)
(* bridge or R2. The placeholders always fail.                               *)
Failures(kind) ==
    CASE kind = "legacy_original" -> {"exhausted", "dns", "error"}
      [] kind \in Placeholders -> {"error"}
      [] OTHER -> {"exhausted", "error"}

\* Mistake: any failure exhausts a medium.
ExhaustedAlways(m, failures) == m \notin Eligible

Exhausted(m, failures) ==
    /\ m \notin Eligible /\ "error" \notin Range(failures)
    /\ "dns" \in Range(failures) => Strategies(m) = <<"legacy_original">>

(* The ways n strategies in a row can fail. *)
FailuresOf(m, n) ==
    {f \in [1..n -> {"exhausted", "dns", "error"}] :
        \A i \in 1..n : f[i] \in Failures(Strategies(m)[i])}

(* The n-th strategy preserves the medium after the ones before it failed, or *)
(* all of them fail.                                                         *)
Preservations(m, n) ==
    LET kind == Strategies(m)[n] IN
    {[result |-> r, failures |-> f] :
        r \in IF kind = "metadata_only" THEN {"metadata_only"} ELSE Preserved(m, kind),
        f \in FailuresOf(m, n - 1)}

Exhaustions(m) ==
    {[result |-> IF Exhausted(m, f) THEN "metadata_only" ELSE "failed", failures |-> f] :
        f \in FailuresOf(m, Len(Strategies(m)))}

(* The outcomes of a row: the strategies are tried in their order until one  *)
(* preserves the medium, whatever the ones before it failed of; a planned    *)
(* metadata_only is the result at once.                                      *)
Outcomes(m) ==
    LET s == Strategies(m)
        able == {n \in 1..Len(s) : s[n] \notin Placeholders \ {"metadata_only"}}
    IN  (UNION {Preservations(m, n) : n \in able})
        \cup IF s = <<"metadata_only">> THEN {} ELSE Exhaustions(m)

RecoverRow(m) ==
    /\ recoverer.at = "rows" /\ m \in recoverer.pending /\ recoveries < MaxRecoveries
    /\ \E outcome \in Outcomes(m) :
          /\ recovered' = [recovered EXCEPT ![m] = outcome.result]
          /\ missed' = IF "error" \in Range(outcome.failures)
                       THEN missed \cup {m} ELSE missed \ {m}
    /\ recoveries' = recoveries + 1
    /\ recoverer' = [recoverer EXCEPT !.pending = @ \ {m}]
    /\ UNCHANGED <<captured, captures, recPlan, recHead, evidenceVars, capturer, verifier, builder>>

(* Finalizing: after a run, or by itself. *)
FinalizesFrom == \/ MayStart(recoverer)
                 \/ recoverer.at = "rows" /\ recoverer.pending = {}

Finalize ==
    /\ FinalizesFrom /\ CanEvaluate("recovery-finalized")
    /\ manifest' = RecoveryRows
    /\ recoverer' = [IdleRecoverer EXCEPT !.at = "proof", !.eval = RecoveryEval]
    /\ UNCHANGED <<journalVars, proof, reports, built, capturer, verifier, builder>>

(* Every input is hashed again between the manifest and the proof. *)
InputsCurrent(eval) == eval.captures = captures /\ eval.recoveries = recoveries /\ Covers

ProveRecovery ==
    /\ recoverer.at = "proof" /\ InputsCurrent(recoverer.eval)
    /\ WriteProof(recoverer.eval)
    /\ recoverer' = IdleRecoverer
    /\ UNCHANGED <<journalVars, manifest, reports, built, capturer, verifier, builder>>

-----------------------------------------------------------------------------
(* Pass 2 starts from a complete pass 1 of the same evidence. *)
StartVerify(pass) ==
    /\ MayStart(verifier) /\ Attested(proof)
    /\ pass = 2 => reports[1].complete /\ reports[1].binding = proof
    /\ verifier' = [at |-> "heads", pass |-> pass, binding |-> proof,
                    prev |-> IF pass = 2 THEN reports[1].no ELSE 0]
    /\ UNCHANGED <<journalVars, evidenceVars, capturer, recoverer, builder>>

LatestReport == IF reports[1].no > reports[2].no THEN reports[1].no ELSE reports[2].no

\* Mistake: the evidence is not looked at again.
StillBoundAlways(binding) == TRUE

StillBound(binding) == proof = binding /\ Attested(proof)

(* The objects were looked up one by one, and the evidence is evaluated      *)
(* again before the report is written.                                       *)
FinishVerify ==
    /\ verifier.at = "heads" /\ StillBound(verifier.binding)
    /\ LatestReport < MaxReports
    /\ \E found \in BOOLEAN :
          reports' = [reports EXCEPT ![verifier.pass] =
                         [no |-> LatestReport + 1, prev |-> verifier.prev, binding |-> verifier.binding,
                          complete |-> found /\ verifier.binding.eval.complete]]
    /\ verifier' = IdleVerifier
    /\ UNCHANGED <<journalVars, manifest, proof, built, capturer, recoverer, builder>>

(* The D1 build reads the evidence, writes its tables, and reads it again. *)
Chained ==
    /\ \A p \in {1, 2} : reports[p].complete /\ reports[p].binding = proof
    /\ reports[2].prev = reports[1].no

StartBuild ==
    /\ MayStart(builder) /\ built = None
    /\ Attested(proof) /\ proof.eval.complete /\ Chained
    /\ builder' = [at |-> "rows", binding |-> proof]
    /\ UNCHANGED <<journalVars, evidenceVars, capturer, recoverer, verifier>>

FinishBuild ==
    /\ builder.at = "rows" /\ StillBound(builder.binding)
    /\ built' = [kind |-> "built", rows |-> builder.binding.eval.rows]
    /\ builder' = IdleBuilder
    /\ UNCHANGED <<journalVars, manifest, proof, reports, capturer, recoverer, verifier>>

(* A tool fails or is ended; its files stay. *)
EndTool ==
    /\ \/ capturer.at # "idle" /\ capturer' = IdleCapturer
          /\ UNCHANGED <<recoverer, verifier, builder>>
       \/ recoverer.at # "idle" /\ recoverer' = IdleRecoverer
          /\ UNCHANGED <<capturer, verifier, builder>>
       \/ verifier.at # "idle" /\ verifier' = IdleVerifier
          /\ UNCHANGED <<capturer, recoverer, builder>>
       \/ builder.at # "idle" /\ builder' = IdleBuilder
          /\ UNCHANGED <<capturer, recoverer, verifier>>
    /\ UNCHANGED <<journalVars, evidenceVars>>

MediaNext ==
    \/ FinishCapture \/ ProveCapture \/ PlanRecovery \/ StartRecovery
    \/ Finalize \/ ProveRecovery \/ FinishVerify \/ StartBuild \/ FinishBuild \/ EndTool
    \/ \E m \in Media : CaptureRow(m) \/ RecoverRow(m)
    \/ \E pass \in {1, 2} : StartVerify(pass)

(* Fairness is stated where this module is composed. *)
MediaSpec == MediaInit /\ [][MediaNext]_mediaVars

-----------------------------------------------------------------------------
(* A medium is written off as metadata only when it is not public and each   *)
(* strategy of its last try ended in an outcome the code counts as exhausted *)
(* (a source that answers 403, 404 or 410, but also a wrong digest or an     *)
(* object that is too large): never because the network, the disk, the       *)
(* bridge or R2 failed. A derivative is not held to this: it is taken after  *)
(* any failure of the original.                                              *)
WrittenOffWhenExhausted ==
    \A m \in Media : recovered[m] = "metadata_only" => m \notin Eligible /\ m \notin missed

(* What the D1 build accepted is in the journals, whatever was run again,    *)
(* ended or overlapped on the way: every public row has its original in the  *)
(* public bucket, and no row is taken for kept that is not.                  *)
AcceptedIsStored ==
    built # None =>
        /\ \A m \in Eligible : captured[m] = "public_stored" \/ recovered[m] = "original_public"
        /\ \A m \in Media \ Eligible :
              CASE built.rows[m] = "private_stored" ->
                      captured[m] = "private_stored" \/ recovered[m] = "original_private"
                [] built.rows[m] = "source_missing" ->
                      captured[m] = "source_missing"
                      \/ recovered[m] \in {"derivative", "metadata_only"}
                [] OTHER -> FALSE

(* No failing call writes a medium off, and no build takes for kept what is  *)
(* not.                                                                      *)
MediaIsPreserved == MediaTypeOK /\ WrittenOffWhenExhausted /\ AcceptedIsStored

(* A report is written and a build accepted only of evidence that is the     *)
(* exact output of the journals at that moment: an append in between, by a   *)
(* capture or a recovery that runs at the same time, is never attested.      *)
EvidenceIsCurrent ==
    [][/\ built' # built => Attested(proof) /\ built'.rows = manifest
       /\ reports' # reports => Attested(proof)]_mediaVars
=============================================================================
