---------------------------- MODULE CompassCapture ----------------------------
(***************************************************************************)
(* The capture of every POAP of Compass into SQLite and what is made of it  *)
(* (tools/compass-holdings: snapshot, referenced-drops, build-d1, package). *)
(* The id space is cut into shards; each is read page by page and counted   *)
(* again at the end. POAPs appear and disappear at Compass meanwhile, and   *)
(* a tool may be killed between any two commits and is started again. One   *)
(* tool works on a directory at a time. A capture that is finished may be   *)
(* resumed: it counts again, and its database is another file then.         *)
(***************************************************************************)
EXTENDS Naturals, FiniteSets, FiniteSetsExt, Functions

CONSTANTS
    Poaps,               \* their ids at Compass
    DropOfPoap,          \* drop_id of each
    Unlisted,            \* drops Compass does not answer for
    PagePoaps,           \* PAGE_SIZE
    MaxCompassChanges, MaxCompassFaults

ASSUME CompassConstants ==
    /\ Poaps \subseteq Nat \ {0} /\ IsFiniteSet(Poaps) /\ PagePoaps \in Nat \ {0}
    /\ DOMAIN DropOfPoap = Poaps

VARIABLES
    poaps,             \* rows of poaps at Compass
    kept, known,       \* rows there since the bound was taken, and at any time
    stage,             \* compass-holdings.sqlite: absent, its tables, or capture_meta filled
    bound,             \* upper_poap_id
    shards,            \* capture_shards, capture_terminal_pages, capture_final_counts
    tokens,
    reconciled,        \* keys of capture_reconciliations
    edition, altered,  \* the last finished file, and whether it was written to since
    published,         \* the edition manifest.json describes, 0 for none
    drops,             \* compass-referenced-drops.sqlite
    dropsManifest,     \* the edition referenced-drops-manifest.json names, 0 for none
    build,             \* d1/: the editions it was made of, once it has a report
    packed,            \* package-manifest.json: the editions of its files
    running,           \* the tool at work
    compassChanges, compassFaults

captureVars == <<poaps, kept, known, stage, bound, shards, tokens, reconciled, edition,
                 altered, published>>
derivedVars == <<drops, dropsManifest, build, packed>>
compassVars == <<captureVars, derivedVars, running, compassChanges, compassFaults>>

ShardIds == {0, 1}
LowerOf(s) == (bound * s) \div 2
UpperOf(s) == (bound * (s + 1)) \div 2
Within(S, s) == {p \in S : LowerOf(s) < p /\ p <= UpperOf(s)}
DropsOf(S) == {DropOfPoap[p] : p \in S}

NotCounted == Cardinality(Poaps) + 1
PendingShard(s) == [cursor |-> LowerOf(s), rows |-> 0, finished |-> FALSE, count |-> NotCounted]
NoDrops == [stage |-> "absent", from |-> 0, requested |-> {}, asked |-> {}, captured |-> {}]
Nothing == [state |-> "absent", edition |-> 0, drops |-> 0]
Rest == [tool |-> "none", at |-> "", attempt |-> 0, todo |-> {}, off |-> {}]

Works(tool, at) == running.tool = tool /\ running.at = at
Step(at) == running' = [running EXCEPT !.at = at]
Ended == running' = Rest
CompassFault == compassFaults < MaxCompassFaults /\ compassFaults' = compassFaults + 1

(* compass-holdings.sqlite has the SHA-256 in the manifest.                   *)
Matches == published # 0 /\ published = edition /\ ~altered

CompassTypeOK ==
    /\ {poaps, kept, known, tokens} \subseteq SUBSET Poaps
    /\ stage \in {"absent", "tables", "ready"} /\ bound \in Poaps \cup {0}
    /\ \A s \in ShardIds : shards[s].rows \in Nat /\ shards[s].finished \in BOOLEAN
    /\ reconciled \subseteq (1..2) \X ShardIds
    /\ {edition, published, dropsManifest, drops.from} \subseteq Nat /\ altered \in BOOLEAN
    /\ drops.captured \subseteq drops.asked /\ drops.asked \subseteq drops.requested

CompassInit ==
    /\ poaps = Poaps \ {Max(Poaps)} /\ kept = poaps /\ known = poaps
    /\ stage = "absent" /\ bound = 0 /\ shards = [s \in ShardIds |-> PendingShard(s)]
    /\ tokens = {} /\ reconciled = {} /\ edition = 0 /\ altered = FALSE /\ published = 0
    /\ drops = NoDrops /\ dropsManifest = 0 /\ build = Nothing /\ packed = Nothing
    /\ running = Rest /\ compassChanges = 0 /\ compassFaults = 0
-------------------------------------------------------------------------------
CompassChange ==
    /\ compassChanges < MaxCompassChanges /\ compassChanges' = compassChanges + 1
    /\ \E p \in Poaps : poaps' = SymDiff(poaps, {p})
    /\ kept' = kept \cap poaps' /\ known' = known \cup poaps'
    /\ UNCHANGED <<stage, bound, shards, tokens, reconciled, edition, altered, published,
                   derivedVars, running, compassFaults>>

(* The first run: the largest id, the tables, then their first rows. A run    *)
(* killed between the two leaves a file no other run accepts.                 *)
TakeBound ==
    /\ running = Rest /\ stage = "absent"
    /\ bound' = IF poaps = {} THEN 0 ELSE Max(poaps)
    /\ kept' = poaps /\ known' = poaps
    /\ running' = [Rest EXCEPT !.tool = "capture", !.at = "create"]
    /\ UNCHANGED <<poaps, stage, shards, tokens, reconciled, edition, altered, published,
                   derivedVars, compassChanges, compassFaults>>

CreateTables ==
    /\ Works("capture", "create") /\ stage' = "tables" /\ Step("fill")
    /\ UNCHANGED <<poaps, kept, known, bound, shards, tokens, reconciled, edition, altered,
                   published, derivedVars, compassChanges, compassFaults>>

FillTables ==
    /\ Works("capture", "fill") /\ stage' = "ready" /\ Step("read")
    /\ shards' = [s \in ShardIds |-> PendingShard(s)]
    /\ UNCHANGED <<poaps, kept, known, bound, tokens, reconciled, edition, altered, published,
                   derivedVars, compassChanges, compassFaults>>

(* A run on a file it accepts forgets the final counts, so that the file      *)
(* differs from the manifest until the run is through.                        *)
ResumeCapture ==
    /\ running = Rest /\ stage = "ready"
    /\ IF Matches THEN CompassFault ELSE UNCHANGED compassFaults
    /\ altered' = (altered \/ \E s \in ShardIds : shards[s].count # NotCounted)
    /\ shards' = [s \in ShardIds |-> [shards[s] EXCEPT !.count = NotCounted]]
    /\ running' = [Rest EXCEPT !.tool = "capture", !.at = "read"]
    /\ UNCHANGED <<poaps, kept, known, stage, bound, tokens, reconciled, edition, published,
                   derivedVars, compassChanges>>

AfterCursorOf(s) == {p \in Within(poaps, s) : p > shards[s].cursor}
PageOf(s) ==
    {p \in AfterCursorOf(s) : Cardinality({q \in AfterCursorOf(s) : q <= p}) <= PagePoaps}

(* One transaction: the rows of a page, and the cursor behind them. An empty  *)
(* page ends the shard.                                                       *)
AfterPage(s) ==
    IF PageOf(s) = {} THEN [shards[s] EXCEPT !.finished = TRUE]
    ELSE [shards[s] EXCEPT !.cursor = Max(PageOf(s)), !.rows = @ + Cardinality(PageOf(s))]

CapturePage(s) ==
    /\ Works("capture", "read") /\ ~shards[s].finished
    /\ tokens' = tokens \cup PageOf(s) /\ shards' = [shards EXCEPT ![s] = AfterPage(s)]
    /\ UNCHANGED <<poaps, kept, known, stage, bound, reconciled, edition, altered, published,
                   derivedVars, running, compassChanges, compassFaults>>

AllRead ==
    /\ Works("capture", "read") /\ \A s \in ShardIds : shards[s].finished
    /\ running' = [running EXCEPT !.at = "count", !.todo = ShardIds, !.off = {}]
    /\ UNCHANGED <<captureVars, derivedVars, compassChanges, compassFaults>>

CountShard ==
    /\ Works("capture", "count") /\ running.todo # {}
    /\ LET s == Min(running.todo)  n == Cardinality(Within(poaps, s)) IN
       /\ shards' = [shards EXCEPT ![s].count = n]
       /\ running' = [running EXCEPT !.todo = @ \ {s},
                                     !.off = IF n = shards[s].rows THEN @ ELSE @ \cup {s}]
    /\ UNCHANGED <<poaps, kept, known, stage, bound, tokens, reconciled, edition, altered,
                   published, derivedVars, compassChanges, compassFaults>>

(* All counts agree, or the shards that differ are read again, twice at most. *)
Compared ==
    /\ Works("capture", "count") /\ running.todo = {}
    /\ IF running.off = {} THEN Step("finish")
       ELSE IF running.attempt >= 2 THEN Ended ELSE Step("reset")
    /\ UNCHANGED <<captureVars, derivedVars, compassChanges, compassFaults>>

(* One transaction per shard. The attempts of every run count from one, so    *)
(* that a later run may not record a shard a second time: it ends there.      *)
(* Mistake: the rows stay, and the shard counts what it reads again.          *)
ResetNothing(s) == tokens

ResetRows(s) == tokens \ Within(Poaps, s)

ResetShard ==
    /\ Works("capture", "reset")
    /\ LET s == Min(running.off)  key == <<running.attempt + 1, s>> IN
       IF key \in reconciled
       THEN Ended /\ UNCHANGED <<tokens, shards, reconciled>>
       ELSE /\ reconciled' = reconciled \cup {key}
            /\ tokens' = ResetRows(s)
            /\ shards' = [shards EXCEPT ![s] = PendingShard(s)]
            /\ running' = IF running.off = {s}
                          THEN [running EXCEPT !.off = {}, !.attempt = @ + 1, !.at = "read"]
                          ELSE [running EXCEPT !.off = @ \ {s}]
    /\ UNCHANGED <<poaps, kept, known, stage, bound, edition, altered, published, derivedVars,
                   compassChanges, compassFaults>>

RowsOfShards == MapThenSumSet(LAMBDA s : shards[s].rows, ShardIds)
Complete ==
    /\ \A s \in ShardIds : shards[s].finished /\ shards[s].count # NotCounted
    /\ Cardinality(tokens) = RowsOfShards

(* snapshot_metadata and the close of the database, then the manifest.        *)
CloseCapture ==
    /\ Works("capture", "finish") /\ Complete
    /\ edition' = edition + 1 /\ altered' = FALSE /\ Step("publish")
    /\ UNCHANGED <<poaps, kept, known, stage, bound, shards, tokens, reconciled, published,
                   derivedVars, compassChanges, compassFaults>>

PublishCapture ==
    /\ Works("capture", "publish") /\ published' = edition /\ Ended
    /\ UNCHANGED <<poaps, kept, known, stage, bound, shards, tokens, reconciled, edition,
                   altered, derivedVars, compassChanges, compassFaults>>
-------------------------------------------------------------------------------
(* referenced-drops: a file of the drops of a finished capture. A file for    *)
(* another edition is refused, and one without its first rows.                *)
StartDrops ==
    /\ running = Rest /\ Matches /\ tokens # {} /\ dropsManifest = 0
    /\ \/ drops.stage = "absent" /\ drops' = [drops EXCEPT !.stage = "tables"]
          /\ running' = [Rest EXCEPT !.tool = "drops", !.at = "fill"]
       \/ drops.stage = "ready" /\ drops.from = published /\ UNCHANGED drops
          /\ running' = [Rest EXCEPT !.tool = "drops", !.at = "ask"]
    /\ UNCHANGED <<captureVars, dropsManifest, build, packed, compassChanges, compassFaults>>

FillDrops ==
    /\ Works("drops", "fill") /\ Step("ask")
    /\ drops' = [drops EXCEPT !.stage = "ready", !.from = published,
                              !.requested = DropsOf(tokens)]
    /\ UNCHANGED <<captureVars, dropsManifest, build, packed, compassChanges, compassFaults>>

(* A batch; drops Compass does not answer for stay without metadata.          *)
AskDrop ==
    /\ Works("drops", "ask")
    /\ \E d \in drops.requested \ drops.asked :
          drops' = [drops EXCEPT !.asked = @ \cup {d}, !.captured = @ \cup ({d} \ Unlisted)]
    /\ UNCHANGED <<captureVars, dropsManifest, build, packed, running, compassChanges,
                   compassFaults>>

FinishDrops ==
    /\ Works("drops", "ask") /\ drops.asked = drops.requested
    /\ dropsManifest' = drops.from /\ Ended
    /\ UNCHANGED <<captureVars, drops, build, packed, compassChanges, compassFaults>>
-------------------------------------------------------------------------------
(* build-d1 into an empty directory, its report last. The manifest of the     *)
(* drops is compared by its snapshot id and by its counts.                    *)
NotAnswered == drops.requested \ drops.captured
Coverage ==
    /\ drops.captured \subseteq DropsOf(tokens)
    /\ Cardinality(drops.captured) + Cardinality(NotAnswered) = Cardinality(DropsOf(tokens))

StartD1 ==
    /\ running = Rest /\ Matches /\ dropsManifest # 0 /\ drops.captured # {}
    /\ build.state = "absent"
    /\ build' = [build EXCEPT !.state = "partial"]
    /\ running' = [Rest EXCEPT !.tool = "build"]
    /\ UNCHANGED <<captureVars, drops, dropsManifest, packed, compassChanges, compassFaults>>

FinishD1 ==
    /\ running.tool = "build" /\ Ended
    /\ build' = IF Coverage THEN [state |-> "built", edition |-> published, drops |-> drops.from]
                ELSE build
    /\ UNCHANGED <<captureVars, drops, dropsManifest, packed, compassChanges, compassFaults>>

(* The operator empties a directory before the next build.                    *)
ClearD1 ==
    /\ running = Rest /\ build.state # "absent" /\ build' = Nothing /\ CompassFault
    /\ UNCHANGED <<captureVars, drops, dropsManifest, packed, running, compassChanges>>

(* package: the databases and the build must be of one another.               *)
(* Mistake: any finished build is packed with the databases that are there.   *)
BelongsAnyway == build.state = "built"

BelongsTogether ==
    build.state = "built" /\ build.edition = published /\ build.drops = drops.from

Package ==
    /\ running = Rest /\ Matches /\ dropsManifest # 0 /\ BelongsTogether /\ packed = Nothing
    /\ packed' = [state |-> "packed", edition |-> edition, built |-> build.edition]
    /\ UNCHANGED <<captureVars, drops, dropsManifest, build, running, compassChanges,
                   compassFaults>>

KillTool ==
    /\ running # Rest /\ CompassFault /\ Ended
    /\ UNCHANGED <<captureVars, derivedVars, compassChanges>>
-------------------------------------------------------------------------------
CaptureStep ==
    \/ TakeBound \/ CreateTables \/ FillTables \/ ResumeCapture
    \/ \E s \in ShardIds : CapturePage(s)
    \/ AllRead \/ CountShard \/ Compared \/ ResetShard \/ CloseCapture \/ PublishCapture

CompassNext ==
    \/ CompassChange \/ CaptureStep \/ StartDrops \/ FillDrops \/ AskDrop \/ FinishDrops
    \/ StartD1 \/ FinishD1 \/ ClearD1 \/ Package \/ KillTool

CompassSpec == CompassInit /\ [][CompassNext]_compassVars

(* Tokens of a shard are those the shard has counted, at every step.          *)
ShardsOwnTheirRows ==
    stage = "ready" => \A s \in ShardIds :
        /\ Cardinality(Within(tokens, s)) = shards[s].rows
        /\ \A p \in Within(tokens, s) : p <= shards[s].cursor

(* A file that matches its manifest has every POAP that was there all the     *)
(* time since the bound was taken, none that never was, and as many in each   *)
(* shard as Compass counted last.                                             *)
ManifestIsFaithful ==
    Matches => /\ kept \subseteq tokens /\ tokens \subseteq known
               /\ \A s \in ShardIds : shards[s].count = Cardinality(Within(tokens, s))

(* Drops with a manifest for the current file were all asked for.             *)
DropsAreAsked ==
    Matches /\ dropsManifest = published =>
        drops.asked = DropsOf(tokens) /\ drops.captured = DropsOf(tokens) \ Unlisted

(* A build of the current file has no drop that no POAP of the file names,    *)
(* and the build in a package is of the database in it.                       *)
BuildsAreOfOneFile ==
    /\ build.state = "built" /\ build.edition = edition /\ ~altered =>
         drops.captured \subseteq DropsOf(tokens)
    /\ packed # Nothing => packed.edition = packed.built

CapturesAreSound ==
    CompassTypeOK /\ ShardsOwnTheirRows /\ ManifestIsFaithful /\ DropsAreAsked /\ BuildsAreOfOneFile

(* A capture that is resumed until it is through is published, unless it was  *)
(* killed while its tables were made, or a later run met a shard that an      *)
(* earlier run has recorded as read again.                                    *)
CaptureStuck ==
    \/ stage = "tables"
    \/ \E s \in ShardIds : <<1, s>> \in reconciled /\ Cardinality(Within(poaps, s)) # shards[s].rows

CaptureEnds == <>(published # 0) \/ <>[]CaptureStuck
=============================================================================
