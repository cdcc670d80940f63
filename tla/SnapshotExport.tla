---------------------------- MODULE SnapshotExport ----------------------------
(***************************************************************************)
(* The export of one Compass table to files (tools/moments-backup and       *)
(* tools/collections-backup: snapshot and verify). Compass answers one page *)
(* at a time and its rows come and go meanwhile; a run may be killed        *)
(* between any two writes and is started again with --resume. Only one run  *)
(* works on a directory at a time: neither tool guards against a second.    *)
(***************************************************************************)
EXTENDS Naturals, Sequences, FiniteSets, FiniteSetsExt

CONSTANTS
    Entities,          \* the tables considered, one per behaviour
    Keys,              \* primary keys, in their order
    PageSize,
    MaxSourceChanges,  \* rows that appear or disappear at Compass
    MaxExportFaults    \* killed runs, and runs of an export that is finished

ASSUME ExportConstants ==
    /\ Entities \subseteq {"moments", "links", "items", "sections", "referenced_drops"}
    /\ Keys \subseteq Nat \ {0} /\ Keys # {} /\ IsFiniteSet(Keys) /\ PageSize \in Nat \ {0}

VARIABLES
    entity,        \* the table of this behaviour
    source,        \* its rows at Compass
    steady, ever,  \* rows there since the export began, and rows seen at any time
    saved,         \* state/<entity>.json
    rawPages,      \* raw/<entity>/000001.json.gz, ...: the rows of each page
    normal,        \* normalized/<entity>.ndjson, page by page
    exported,      \* manifest.json: the state and the artifact it lists
    sealed,        \* manifest.sha256 is that of manifest.json
    accepted,      \* the last validation report says verified
    capture,       \* the running export
    sourceChanges, exportFaults

sourceVars == <<entity, source, steady, ever, sourceChanges>>
exportVars == <<sourceVars, saved, rawPages, normal, exported, sealed, accepted, capture,
                exportFaults>>

Moments == entity \in {"moments", "links"}            \* of tools/moments-backup
Counted == entity \in {"moments", "items"}            \* Compass has an aggregate root
Drops == entity = "referenced_drops"                  \* asked for by id

Unknown == Cardinality(Keys) + 1                      \* expectedCount: null
NoState == [upper |-> 0, expected |-> Unknown, cursor |-> 0, listed |-> <<>>,
            missing |-> {}, complete |-> FALSE]
NothingExported == [state |-> NoState, normal |-> <<>>]
NotRunning == [at |-> "idle", work |-> NoState, rows |-> {}]

RowCount(s) == MapThenSumSet(LAMBDA i : Cardinality(s[i]), DOMAIN s)
UpTo(u) == {k \in source : k <= u}
FirstPage(S) == {k \in S : Cardinality({j \in S : j <= k}) <= PageSize}
Runs(at) == capture.at = at
Goes(at, work, rows) == capture' = [at |-> at, work |-> work, rows |-> rows]
Ends == capture' = NotRunning
Fault == exportFaults < MaxExportFaults /\ exportFaults' = exportFaults + 1

ExportTypeOK ==
    /\ entity \in Entities /\ {source, steady, ever} \subseteq SUBSET Keys
    /\ \A s \in {saved, capture.work, exported.state} :
          /\ s.upper \in Keys \cup {0} /\ s.cursor \in Keys \cup {0}
          /\ s.expected \in 0..Cardinality(Keys) \cup {Unknown}
          /\ s.missing \subseteq Keys /\ s.complete \in BOOLEAN
    /\ \A i \in DOMAIN rawPages : rawPages[i] \subseteq Keys
    /\ {sealed, accepted} \subseteq BOOLEAN
    /\ capture.at \in {"idle", "counting", "paging", "writing", "recording", "normalizing",
                       "exporting", "sealing"}

ExportInit ==
    /\ entity \in Entities
    /\ source \in {Keys, Keys \ {Max(Keys)}} /\ steady = source /\ ever = source
    /\ saved = NoState /\ rawPages = <<>> /\ normal = <<>> /\ exported = NothingExported
    /\ sealed = FALSE /\ accepted = FALSE /\ capture = NotRunning
    /\ sourceChanges = 0 /\ exportFaults = 0
-------------------------------------------------------------------------------
(* Rows appear and disappear at Compass.                                      *)
SourceChange ==
    /\ sourceChanges < MaxSourceChanges /\ sourceChanges' = sourceChanges + 1
    /\ \E k \in Keys : source' = SymDiff(source, {k})
    /\ ever' = ever \cup source' /\ steady' = steady \cap source'
    /\ UNCHANGED <<entity, saved, rawPages, normal, exported, sealed, accepted, capture,
                   exportFaults>>

(* What the state must match before a run goes on from it: every page of a    *)
(* Moments export, the last one of the others.                                *)
Trusted ==
    /\ Len(saved.listed) <= Len(rawPages)
    /\ \A i \in DOMAIN saved.listed :
          Moments \/ (i = Len(saved.listed) /\ (Drops \/ ~saved.complete))
            => rawPages[i] = saved.listed[i]

Onward(s) == Goes(IF s.complete THEN "normalizing" ELSE "paging", s, {})

(* No state yet: the largest key is the bound of the export. The drops have   *)
(* none: they are asked for by their ids.                                     *)
Fresh ==
    LET u == IF source = {} \/ Drops THEN 0 ELSE Max(source) IN
    [NoState EXCEPT !.upper = u, !.complete = ~Drops /\ u = 0,
                    !.expected = IF u = 0 /\ ~Drops THEN 0 ELSE Unknown]

BeginExport ==
    /\ Runs("idle") /\ saved = NoState
    /\ steady' = source /\ ever' = source
    /\ IF Counted /\ ~Fresh.complete
       THEN Goes("counting", Fresh, {}) /\ UNCHANGED saved
       ELSE saved' = Fresh /\ Onward(Fresh)
    /\ UNCHANGED <<entity, source, sourceChanges, rawPages, normal, exported, sealed,
                   accepted, exportFaults>>

(* The aggregate is asked in a request of its own.                            *)
CountExpected ==
    /\ Runs("counting")
    /\ saved' = [capture.work EXCEPT !.expected = Cardinality(UpTo(capture.work.upper))]
    /\ Onward(saved')
    /\ UNCHANGED <<sourceVars, rawPages, normal, exported, sealed, accepted, exportFaults>>

ResumeExport ==
    /\ Runs("idle") /\ saved # NoState /\ Trusted
    /\ IF sealed THEN Fault ELSE UNCHANGED exportFaults
    /\ Onward(saved)
    /\ UNCHANGED <<sourceVars, saved, rawPages, normal, exported, sealed, accepted>>

(* Mistake: pages by offset; rows that disappeared shift the later ones.      *)
AfterOffset(w) ==
    {k \in UpTo(w.upper) : Cardinality(UpTo(k)) > RowCount(w.listed)}

AfterCursor(w) == {k \in UpTo(w.upper) : k > w.cursor}
Asked(w) == FirstPage({k \in Keys : k > w.cursor})
NextRows(w) == IF Drops THEN Asked(w) \cap source ELSE FirstPage(AfterCursor(w))

CountOff(w) == w.expected # Unknown /\ w.expected # RowCount(w.listed)

(* A page, or an end before the bound: an error for Moments, since the last   *)
(* row is gone; the others take it for the end when the count agrees.         *)
FetchRows ==
    /\ Runs("paging") /\ (NextRows(capture.work) # {} \/ Drops)
    /\ Goes("writing", capture.work, NextRows(capture.work))
    /\ UNCHANGED <<sourceVars, saved, rawPages, normal, exported, sealed, accepted,
                   exportFaults>>

FetchNothing ==
    /\ Runs("paging") /\ NextRows(capture.work) = {} /\ ~Drops
    /\ IF Moments \/ CountOff(capture.work)
       THEN Ends /\ UNCHANGED saved
       ELSE saved' = [capture.work EXCEPT !.complete = TRUE] /\ Onward(saved')
    /\ UNCHANGED <<sourceVars, rawPages, normal, exported, sealed, accepted, exportFaults>>

(* The page is on disk before the state that lists it; a page a killed run    *)
(* left behind is written over.                                               *)
(* Mistake: a page gets the next free number, behind one that was left behind. *)
PageNumberOnDisk(w) == Len(rawPages) + 1

PageNumber(w) == Len(w.listed) + 1

WritePage ==
    /\ Runs("writing")
    /\ LET n == PageNumber(capture.work) IN
       rawPages' = [i \in DOMAIN rawPages \cup {n} |->
                      IF i = n THEN capture.rows ELSE rawPages[i]]
    /\ Goes("recording", capture.work, capture.rows)
    /\ UNCHANGED <<sourceVars, saved, normal, exported, sealed, accepted, exportFaults>>

Advanced(w, rows) ==
    LET to == IF Drops THEN Max(Asked(w)) ELSE Max(rows) IN
    [w EXCEPT !.listed = Append(w.listed, rows), !.cursor = to,
              !.missing = IF Drops THEN w.missing \cup (Asked(w) \ rows) ELSE {},
              !.complete = IF Drops THEN to = Max(Keys) ELSE to = w.upper]

RecordPage ==
    /\ Runs("recording")
    /\ LET w == Advanced(capture.work, capture.rows) IN
       IF w.complete /\ CountOff(w)
       THEN Ends /\ UNCHANGED saved
       ELSE saved' = w /\ Onward(w)
    /\ UNCHANGED <<sourceVars, rawPages, normal, exported, sealed, accepted, exportFaults>>
-------------------------------------------------------------------------------
(* Moments reads the pages its state lists, the others every page there is.   *)
Collected == IF Moments THEN SubSeq(rawPages, 1, Len(saved.listed)) ELSE rawPages

Normalize ==
    /\ Runs("normalizing")
    /\ normal' = Collected
    /\ Goes("exporting", saved, {})
    /\ UNCHANGED <<sourceVars, saved, rawPages, exported, sealed, accepted, exportFaults>>

(* Moments writes a checksum of the manifest next to it.                      *)
Export ==
    /\ Runs("exporting")
    /\ exported' = [state |-> saved, normal |-> normal]
    /\ sealed' = ~Moments
    /\ IF Moments THEN Goes("sealing", saved, {}) ELSE Ends
    /\ UNCHANGED <<sourceVars, saved, rawPages, normal, accepted, exportFaults>>

Seal ==
    /\ Runs("sealing") /\ sealed' = TRUE /\ Ends
    /\ UNCHANGED <<sourceVars, saved, rawPages, normal, exported, accepted, exportFaults>>

KillExport ==
    /\ ~Runs("idle") /\ Fault /\ Ends
    /\ UNCHANGED <<sourceVars, saved, rawPages, normal, exported, sealed, accepted>>

(* verify. The rows of an artifact must be in strict order; those of the      *)
(* drops were sorted, so that two alike stand next to each other.             *)
Apart(a, b) == IF Drops THEN a # b ELSE a < b
InOrder(s) == \A i, j \in DOMAIN s : i < j => \A a \in s[i], b \in s[j] : Apart(a, b)

CountsAgree(m) ==
    /\ RowCount(normal) = RowCount(m.state.listed)
    /\ m.state.expected \in {Unknown, RowCount(normal)}

EndsAtBound(m) ==
    Moments /\ RowCount(normal) > 0
      => m.state.upper = Max(UNION {rawPages[i] : i \in DOMAIN m.state.listed})

NoneMissing(m) == Drops => m.state.missing = {} /\ RowCount(normal) = Cardinality(Keys)

Verified ==
    LET m == exported IN
    /\ sealed /\ m.state.complete
    /\ normal = m.normal /\ InOrder(normal) /\ CountsAgree(m) /\ NoneMissing(m)
    /\ Moments => /\ InOrder(m.state.listed) /\ EndsAtBound(m)
                  /\ \A i \in DOMAIN m.state.listed : rawPages[i] = m.state.listed[i]

Verify ==
    /\ exported # NothingExported
    /\ accepted' = Verified
    /\ UNCHANGED <<sourceVars, saved, rawPages, normal, exported, sealed, capture, exportFaults>>
-------------------------------------------------------------------------------
ExportRunStep ==
    \/ BeginExport \/ CountExpected \/ ResumeExport \/ FetchRows \/ FetchNothing \/ WritePage \/ RecordPage
    \/ Normalize \/ Export \/ Seal

ExportNext == SourceChange \/ ExportRunStep \/ KillExport \/ Verify

ExportSpec == ExportInit /\ [][ExportNext]_exportVars

(* A row that was at Compass all the time since the bound was taken is in a   *)
(* verified export, and every row in it was there at some time.               *)
NothingLost == accepted => steady \subseteq UNION Range(normal) /\ UNION Range(normal) \subseteq ever

EachRowOnce ==
    accepted => \A i, j \in DOMAIN normal : i # j => normal[i] \cap normal[j] = {}

(* The state never lists a page that is not on disk as it lists it.           *)
StateHasItsPages == Trusted

ExportsAreFaithful == ExportTypeOK /\ NothingLost /\ EachRowOnce /\ StateHasItsPages

(* An export that is resumed until it is through is verified, unless rows     *)
(* came or went meanwhile, or drops were missing from the start.              *)
ExportEnds ==
    [](sourceChanges = 0 /\ (Drops => source = Keys)) => <>accepted
=============================================================================
