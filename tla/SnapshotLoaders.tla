--------------------------- MODULE SnapshotLoaders ---------------------------
(***************************************************************************)
(* The four tools that load a built snapshot into D1: a release of Moments,  *)
(* of Collections, of the archive (two databases, catalogue and holdings)    *)
(* and of the Compass holdings. Each is run by hand in phases - load, for    *)
(* Moments verify, then activate - and may be killed at any point, run       *)
(* again, or run twice at the same time.                                     *)
(*                                                                           *)
(* D1 applies a SQL file as one transaction, the marker of a shard with its  *)
(* rows; a wrangler that dies does not stop the import it has sent, which    *)
(* may land later. Shards hold one row of one table. For Moments the first   *)
(* shard is the import plan and the last one the metadata.                   *)
(***************************************************************************)
EXTENDS Naturals, FiniteSets

CONSTANTS
    Kinds,            \* the tools considered
    Loaders,          \* runs of the tool that may overlap
    ShardCount,       \* shards of a database
    SchemaFiles,      \* migrations of a database
    MaxVerifications, \* verify is not started when there are as many reports
    MaxLoadFaults,    \* bound on killed runs
    MaxStrays         \* bound on rows written by something else

ASSUME LoaderAssumption ==
    /\ Kinds \subseteq {"moments", "collections", "archive", "compass"}
    /\ ShardCount \in Nat /\ ShardCount > 2
    /\ {SchemaFiles, MaxVerifications} \subseteq Nat \ {0}
    /\ {MaxLoadFaults, MaxStrays} \subseteq Nat

VARIABLES
    kind,         \* the tool this behaviour is about
    db,           \* its databases
    loader,       \* the runs
    report,       \* number of the verification report on disk, 0 for none
    late,         \* imports sent by runs that are gone
    loadFaults, strays

loadVars == <<kind, db, loader, report, late, loadFaults, strays>>

Shards == 1..ShardCount
SourceShards == IF kind = "moments" THEN 2..(ShardCount - 1) ELSE Shards
Databases(k) == IF k = "archive" THEN {"catalog", "holdings"} ELSE {k}
Migrated(k) == k \in {"collections", "archive"}   \* by hand, before the load
Phases == {"load", "verify", "activate", "done"}
(* What a run is doing: its phase, its step, the database it is at, the      *)
(* journal and the row count it has read, the shard or migration it is at,   *)
(* the report it holds.                                                      *)
Idle(todo) == [todo |-> todo, pc |-> "idle", at |-> "", seen |-> {}, count |-> 0,
               i |-> 0, held |-> 0]

LoadInit ==
    /\ kind \in Kinds
    /\ db = [d \in Databases(kind) |->
                [schema |-> IF Migrated(kind) THEN SchemaFiles ELSE 0,
                 journal |-> {}, copies |-> [s \in Shards |-> 0], stray |-> 0,
                 meta |-> "none", bound |-> 0]]
    /\ loader = [l \in Loaders |-> Idle("load")]
    /\ report = 0 /\ late = {} /\ loadFaults = 0 /\ strays = 0

-----------------------------------------------------------------------------
(* The database.                                                             *)

RowsOf(d, S) == UNION {{s} \X (1..db[d].copies[s]) : s \in S}
Rows(d) == Cardinality(RowsOf(d, Shards)) + db[d].stray
SourceRows(d) == Cardinality(RowsOf(d, SourceShards)) + db[d].stray
FullSchema(d) == db[d].schema = SchemaFiles
Journaled(d) == db[d].journal = Shards

\* Mistake: the archive loads a shard twice, and no shard waits for the plan.
TakesShardAgain(d, s) ==
    FullSchema(d) /\ (kind \in {"moments", "collections"} => s \notin db[d].journal)

(* A shard goes in once - its marker is a primary key - and for Moments not   *)
(* before the plan and not beyond the plan's row count.                       *)
TakesShard(d, s) ==
    /\ FullSchema(d) /\ s \notin db[d].journal
    /\ kind = "moments" /\ s # 1 => 1 \in db[d].journal
    /\ kind = "moments" /\ s \in SourceShards =>
          SourceRows(d) < Cardinality(SourceShards)

Accepts(d, file) ==
    \/ file.part = "schema" /\ db[d].schema = file.n - 1
    \/ file.part = "shard" /\ TakesShard(d, file.n)
    \/ file.part = "final" /\ (kind # "collections" => db[d].meta = "none")

\* Mistake: the finalizer trusts the journal.
FinalGuardOfJournal(d) == kind = "collections" => db[d].meta = "none" /\ Journaled(d)

(* The finalizer of Collections is one INSERT that selects nothing unless the *)
(* journal and every row count are those of the build.                        *)
FinalGuard(d) ==
    kind = "collections" => /\ db[d].meta = "none"
                            /\ Journaled(d) /\ Rows(d) = ShardCount

Imported(d, file) ==
    CASE file.part = "schema" -> [db[d] EXCEPT !.schema = file.n]
      [] file.part = "shard" ->
            [db[d] EXCEPT !.journal = @ \union {file.n}, !.copies[file.n] = @ + 1,
                          !.meta = IF kind = "moments" /\ file.n = ShardCount
                                   THEN "staged" ELSE @]
      [] OTHER -> IF FinalGuard(d) THEN [db[d] EXCEPT !.meta = "ready"] ELSE db[d]

(* Something else writes a row of the staged table. The triggers of Moments   *)
(* count it against the plan.                                                 *)
Stray(d) ==
    /\ strays < MaxStrays /\ strays' = strays + 1
    /\ FullSchema(d) /\ db[d].meta \in {"none", "staged", "pending"}
    /\ kind = "moments" =>
          1 \in db[d].journal /\ SourceRows(d) < Cardinality(SourceShards)
    /\ db' = [db EXCEPT ![d].stray = @ + 1]
    /\ UNCHANGED <<kind, loader, report, late, loadFaults>>

-----------------------------------------------------------------------------
(* A run.                                                                    *)

Doing(l, pc) == loader[l].pc = pc
Here(l) == loader[l].at
Shift(l, to) == loader' = [loader EXCEPT ![l] = to]
On(l, pc) == Shift(l, [loader[l] EXCEPT !.pc = pc])
Fail(l) == Shift(l, Idle(loader[l].todo))
Require(l, ok, pc) == IF ok THEN On(l, pc) ELSE Fail(l)

AfterPhase(phase) ==
    CASE phase = "load" -> IF kind = "moments" THEN "verify" ELSE "activate"
      [] phase = "verify" -> "activate"
      [] OTHER -> "done"
Succeed(l) == Shift(l, [Idle(AfterPhase(loader[l].todo)) EXCEPT !.held = loader[l].held])

LoadFirst == IF kind = "archive" THEN "catalog" ELSE kind
\* Mistake: the archive is activated in the order it is loaded.
ActivateFirstCatalog == IF kind = "archive" THEN "catalog" ELSE kind

ActivateFirst == IF kind = "archive" THEN "holdings" ELSE kind

(* The operator starts the phase that is due, again if it failed.            *)
StartPhase(l) ==
    /\ Doing(l, "idle") /\ loader[l].todo # "done"
    /\ loader[l].todo = "verify" => report < MaxVerifications
    /\ Shift(l, [Idle(loader[l].todo) EXCEPT
                    !.at = LoadFirst,
                    !.pc = CASE loader[l].todo = "load" -> "schema"
                             [] loader[l].todo = "activate" /\ kind = "moments" -> "report"
                             [] OTHER -> "attest"])
    /\ UNCHANGED <<db, report>>

(* load: the schema. Moments goes on from any prefix of its migrations, the   *)
(* Compass loader only from none or all of them, the others apply none.       *)
ReadSchema(l) ==
    /\ Doing(l, "schema")
    /\ IF FullSchema(Here(l)) THEN On(l, "look")
       ELSE IF kind = "moments" \/ (kind = "compass" /\ db[Here(l)].schema = 0)
       THEN Shift(l, [loader[l] EXCEPT !.pc = "prepare", !.i = db[Here(l)].schema + 1])
       ELSE Fail(l)
    /\ UNCHANGED <<db, report>>

Prepared(l) ==
    /\ Doing(l, "prepared")
    /\ IF kind = "moments" /\ db[Here(l)].schema # loader[l].i THEN Fail(l)
       ELSE IF loader[l].i < SchemaFiles
       THEN Shift(l, [loader[l] EXCEPT !.pc = "prepare", !.i = @ + 1])
       ELSE Require(l, FullSchema(Here(l)), "look")
    /\ UNCHANGED <<db, report>>

(* load: journal, row counts and metadata, in two reads.                     *)
Look(l) ==
    LET d == Here(l) IN
    /\ Doing(l, "look")
    /\ IF kind = "moments"
       THEN Shift(l, [loader[l] EXCEPT !.pc = "compare", !.seen = db[d].journal])
       ELSE IF db[d].meta # "none" \/ (kind = "archive" /\ db[d].journal = {} /\ Rows(d) > 0)
       THEN Fail(l)
       ELSE Shift(l, [loader[l] EXCEPT !.pc = "compare", !.count = Rows(d)])
    /\ UNCHANGED <<db, report>>

Compare(l) ==
    LET d == Here(l)
        begun == [loader[l] EXCEPT !.pc = "shard", !.i = 1]
    IN
    /\ Doing(l, "compare")
    /\ \/ /\ kind = "moments"
          /\ IF Rows(d) = Cardinality(loader[l].seen) /\ db[d].meta # "ready"
             THEN Shift(l, begun) ELSE Fail(l)
       \/ /\ kind # "moments"
          /\ IF kind = "collections" => loader[l].count = Cardinality(db[d].journal)
             THEN Shift(l, [begun EXCEPT !.seen = db[d].journal]) ELSE Fail(l)
    /\ UNCHANGED <<db, report>>

\* Mistake: shards that are journaled are loaded again.
NeverSkips(l) == FALSE

(* load: past a shard that is journaled, or past the last one.               *)
Skips(l) == loader[l].i \in loader[l].seen

PastLast(l) == loader[l].i > ShardCount

NextShard(l) ==
    /\ Doing(l, "shard")
    /\ IF PastLast(l)
       THEN IF kind = "collections" THEN On(l, "final")
            ELSE IF kind = "archive" /\ Here(l) = "catalog"
            THEN Shift(l, [loader[l] EXCEPT !.pc = "schema", !.at = "holdings"])
            ELSE Succeed(l)
       ELSE Skips(l) /\ Shift(l, [loader[l] EXCEPT !.i = @ + 1])
    /\ UNCHANGED <<db, report>>

ReadMarker(l) ==
    /\ Doing(l, "marker")
    /\ IF loader[l].i \notin db[Here(l)].journal THEN Fail(l)
       ELSE Shift(l, [loader[l] EXCEPT
                !.seen = @ \union {loader[l].i},
                !.i = IF kind = "collections" THEN @ ELSE @ + 1,
                !.pc = IF kind = "collections" THEN "recount" ELSE "shard"])
    /\ UNCHANGED <<db, report>>

Recount(l) ==
    /\ Doing(l, "recount")
    /\ IF Rows(Here(l)) = Cardinality(loader[l].seen)
       THEN Shift(l, [loader[l] EXCEPT !.pc = "shard", !.i = @ + 1]) ELSE Fail(l)
    /\ UNCHANGED <<db, report>>

Inspect(l) ==
    /\ Doing(l, "final")
    /\ IF db[Here(l)].meta = "none" /\ Rows(Here(l)) = Cardinality(loader[l].seen)
       THEN Succeed(l) ELSE Fail(l)
    /\ UNCHANGED <<db, report>>
-----------------------------------------------------------------------------
(* verify, which activate repeats. Collections counts the rows before it     *)
(* reads the journal, Moments after it; the other two only read the journal. *)
Attest(l) ==
    LET d == Here(l) IN
    /\ Doing(l, "attest")
    /\ IF kind = "collections"
       THEN IF db[d].meta = "none"
            THEN Shift(l, [loader[l] EXCEPT !.pc = "attest2", !.count = Rows(d)])
            ELSE Fail(l)
       ELSE IF ~FullSchema(d) \/ ~Journaled(d) THEN Fail(l)
       ELSE IF kind = "archive" /\ d = "catalog"
       THEN Shift(l, [loader[l] EXCEPT !.at = "holdings"])
       ELSE Shift(l, [loader[l] EXCEPT
                !.pc = IF kind = "moments" THEN "attest2" ELSE "finalize",
                !.at = ActivateFirst])
    /\ UNCHANGED <<db, report>>

Attest2(l) ==
    LET d == Here(l) IN
    /\ Doing(l, "attest2")
    /\ \/ /\ kind = "collections"
          /\ Require(l, Journaled(d) /\ loader[l].count = ShardCount, "finalize")
          /\ UNCHANGED report
       \/ /\ kind = "moments" /\ ~(Rows(d) = ShardCount /\ db[d].meta = "staged")
          /\ Fail(l) /\ UNCHANGED report
       \/ /\ kind = "moments" /\ Rows(d) = ShardCount /\ db[d].meta = "staged"
          /\ IF loader[l].todo = "verify" THEN Succeed(l) /\ report' = report + 1
             ELSE On(l, "pend") /\ UNCHANGED report
    /\ UNCHANGED db

(* activate, Moments: the report, and the answer when the target is ready.   *)
ReadReport(l) ==
    LET d == Here(l)
        holding == [loader[l] EXCEPT !.held = report, !.pc = "attest"]
    IN
    /\ Doing(l, "report")
    /\ IF db[d].meta # "ready" THEN Shift(l, holding)
       ELSE IF db[d].bound = report
       THEN Shift(l, [Idle("done") EXCEPT !.held = report]) ELSE Fail(l)
    /\ UNCHANGED <<db, report>>

\* Mistake: the report is bound over one that is there.
BindOver(l) ==
    /\ Doing(l, "pend")
    /\ db' = [db EXCEPT ![Here(l)].meta = IF @ = "staged" THEN "pending" ELSE @,
                       ![Here(l)].bound = loader[l].held]
    /\ On(l, "bound") /\ UNCHANGED report

(* Four metadata rows bind the target to the report, unless there are some;   *)
(* read back; then one UPDATE that checks everything again.                   *)

Bind(l) ==
    LET d == Here(l) IN
    /\ Doing(l, "pend")
    /\ db' = IF db[d].meta = "staged"
             THEN [db EXCEPT ![d].meta = "pending", ![d].bound = loader[l].held] ELSE db
    /\ On(l, "bound") /\ UNCHANGED report

ReadBinding(l) ==
    LET d == Here(l) IN
    /\ Doing(l, "bound")
    /\ Require(l, db[d].meta = "pending" /\ db[d].bound = loader[l].held, "flip")
    /\ UNCHANGED <<db, report>>

ActivationGuard(d) == db[d].meta = "pending" /\ Journaled(d) /\ Rows(d) = ShardCount

Flip(l) ==
    LET d == Here(l) IN
    /\ Doing(l, "flip")
    /\ db' = IF ActivationGuard(d) /\ db[d].bound = loader[l].held
             THEN [db EXCEPT ![d].meta = "ready"] ELSE db
    /\ On(l, "flipped") /\ UNCHANGED report

Flipped(l) ==
    LET d == Here(l) IN
    /\ Doing(l, "flipped")
    /\ IF db[d].meta = "ready" /\ db[d].bound = loader[l].held THEN Succeed(l) ELSE Fail(l)
    /\ UNCHANGED <<db, report>>

(* activate, the others: the finalizer, read back. Collections sends it in    *)
(* any case, the other two when there is no metadata; holdings come first.    *)
HasMeta(l) == kind # "collections" /\ db[Here(l)].meta # "none"

Passes(l) ==
    /\ Doing(l, "finalize") /\ HasMeta(l)
    /\ On(l, "check") /\ UNCHANGED <<db, report>>

Check(l) ==
    LET d == Here(l) IN
    /\ Doing(l, "check")
    /\ IF ~(db[d].meta = "ready" /\ (kind = "collections" => Rows(d) = ShardCount))
       THEN Fail(l)
       ELSE IF kind = "archive" /\ d = "holdings"
       THEN Shift(l, [loader[l] EXCEPT !.pc = "finalize", !.at = "catalog"])
       ELSE Succeed(l)
    /\ UNCHANGED <<db, report>>

-----------------------------------------------------------------------------
(* A file goes to D1: applied as a whole, or refused.                         *)

Sends(l) ==
    CASE Doing(l, "prepare") -> {[part |-> "schema", n |-> loader[l].i]}
      [] Doing(l, "shard") /\ ~PastLast(l) /\ ~Skips(l) ->
            {[part |-> "shard", n |-> loader[l].i]}
      [] Doing(l, "finalize") /\ ~HasMeta(l) -> {[part |-> "final", n |-> 0]}
      [] OTHER -> {}

ReadBack(file) ==
    CASE file.part = "schema" -> "prepared" [] file.part = "shard" -> "marker"
      [] OTHER -> "check"

Import(l) ==
    \E file \in Sends(l) :
        /\ IF Accepts(Here(l), file)
           THEN /\ db' = [db EXCEPT ![Here(l)] = Imported(Here(l), file)]
                /\ On(l, ReadBack(file))
           ELSE Fail(l) /\ UNCHANGED db
        /\ UNCHANGED report

(* The run is killed. An import it had sent may have arrived, may yet, or not.*)
Kill(l) ==
    /\ loadFaults < MaxLoadFaults /\ loadFaults' = loadFaults + 1
    /\ ~Doing(l, "idle") /\ Fail(l)
    /\ \/ UNCHANGED late
       \/ \E file \in Sends(l) : late' = late \union {<<Here(l), file>>}
    /\ UNCHANGED <<kind, db, report, strays>>

LateImport ==
    \E x \in late :
        /\ late' = late \ {x}
        /\ db' = IF Accepts(x[1], x[2]) THEN [db EXCEPT ![x[1]] = Imported(x[1], x[2])] ELSE db
        /\ UNCHANGED <<kind, loader, report, loadFaults, strays>>

LoaderStep(l) ==
    /\ \/ StartPhase(l) \/ ReadSchema(l) \/ Prepared(l) \/ Look(l) \/ Compare(l)
       \/ NextShard(l) \/ ReadMarker(l) \/ Recount(l) \/ Inspect(l)
       \/ Attest(l) \/ Attest2(l) \/ ReadReport(l) \/ Bind(l) \/ ReadBinding(l)
       \/ Flip(l) \/ Flipped(l) \/ Passes(l) \/ Check(l) \/ Import(l)
    /\ UNCHANGED <<kind, late, loadFaults, strays>>

LoadNext ==
    \/ \E l \in Loaders : LoaderStep(l) \/ Kill(l)
    \/ LateImport
    \/ \E d \in DOMAIN db : Stray(d)

LoadSpec == LoadInit /\ [][LoadNext]_loadVars

-----------------------------------------------------------------------------
LoadSteps ==
    {"schema", "prepare", "prepared", "look", "compare", "shard", "marker", "recount", "final"}
BindSteps == {"report", "pend", "bound", "flip", "flipped"}
RunSteps == LoadSteps \union BindSteps \union {"idle", "attest", "attest2", "finalize", "check"}

LoadTypeOK ==
    /\ kind \in Kinds
    /\ db \in [Databases(kind) ->
            [schema : 0..SchemaFiles, journal : SUBSET Shards,
             copies : [Shards -> Nat], stray : 0..strays,
             meta : {"none", "staged", "pending", "ready"}, bound : 0..report]]
    /\ loader \in [Loaders ->
            [todo : Phases, pc : RunSteps, at : Databases(kind) \union {""},
             seen : SUBSET Shards, count : Nat, i : Nat, held : 0..report]]
    /\ report \in Nat /\ strays \in 0..MaxStrays

(* Every shard of a database that serves was applied exactly once, whichever  *)
(* runs, kills and late imports there were.                                   *)
ReadyIsComplete ==
    \A d \in DOMAIN db : db[d].meta = "ready" =>
        Journaled(d) /\ \A s \in Shards : db[d].copies[s] = 1

(* A release of Moments or Collections starts to serve with the rows of its   *)
(* build and no other, though its reads are not of one moment.                *)
ServesNoStrayRow ==
    \A d \in DOMAIN db :
        db[d].meta = "ready" /\ kind \in {"moments", "collections"} => db[d].stray = 0

(* The catalogue, which the worker asks first, serves only with its holdings. *)
CatalogServesLast ==
    kind = "archive" /\ db["catalog"].meta = "ready" => db["holdings"].meta = "ready"

(* A run that ends well leaves a target that serves and, for Moments, is      *)
(* bound to the very report the run was given.                                *)
ActivatedMeansServing ==
    \A l \in Loaders : loader[l].todo = "done" =>
        \A d \in DOMAIN db : db[d].meta = "ready" /\ db[d].bound = loader[l].held

(* A target that serves is the snapshot, whatever runs and kills there were. *)
TargetsAreSound ==
    /\ LoadTypeOK /\ ReadyIsComplete /\ ServesNoStrayRow
    /\ CatalogServesLast /\ ActivatedMeansServing

(* What cannot be repaired by running the tools again: an activation of       *)
(* Moments killed after its binding, a Compass schema left half applied, a    *)
(* row of unknown origin.                                                     *)
Lost ==
    \/ strays > 0
    \/ \E d \in DOMAIN db : kind = "moments" /\ db[d].meta = "pending"
    \/ kind = "compass" /\ db["compass"].schema \notin {0, SchemaFiles}

(* Running the phases again after every failure ends with a snapshot that     *)
(* serves or a target that must be discarded.                                 *)
LoadEnds == <>[](Lost \/ \A d \in DOMAIN db : db[d].meta = "ready")
=============================================================================
