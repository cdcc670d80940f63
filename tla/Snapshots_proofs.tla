--------------------------- MODULE Snapshots_proofs ----------------------------
(***************************************************************************)
(* Proofs about the captures: the export of a table of Compass, the capture *)
(* of the POAPs and the archive of artwork, for any number of rows, POAPs   *)
(* and Drops, any page size and any sequence of runs that are killed        *)
(* between two writes.                                                      *)
(***************************************************************************)
EXTENDS SnapshotExport, CompassCapture, HoldingsArtwork, NaturalSets, SequenceTheorems

-------------------------------------------------------------------------------
(* The exports of Compass tables.                                            *)

States == [upper : Keys \cup {0}, expected : 0..(Cardinality(Keys) + 1), cursor : Keys \cup {0},
           listed : Seq(SUBSET Keys), missing : SUBSET Keys, complete : BOOLEAN]
ExportPhases == {"idle", "counting", "paging", "writing", "recording", "normalizing",
                 "exporting", "sealing"}

Got(s, k) == \E i \in DOMAIN s : k \in s[i]

\* A state has every row up to its cursor that was there all the time, and no row
\* that was never there.
Reaches(w) ==
  /\ \A k \in steady : k <= w.cursor \/ w.complete => Got(w.listed, k)
  /\ \A i \in DOMAIN w.listed : w.listed[i] \subseteq ever
  /\ Drops /\ w.complete => w.listed # << >>
  /\ Drops /\ ~w.complete => \E k \in Keys : k > w.cursor
  /\ ~Drops /\ w # NoState => \A k \in steady : k <= w.upper

\* The pages on disk are those of the state and perhaps one more, which may be
\* older than the export when there is no state yet.
PagesAgree ==
  /\ Len(saved.listed) <= Len(rawPages) /\ Len(rawPages) <= Len(saved.listed) + 1
  /\ \A i \in DOMAIN saved.listed : rawPages[i] = saved.listed[i]
  /\ ~Drops /\ saved = NoState => rawPages = << >>
  /\ \/ Drops /\ saved.listed = << >>
     \/ \A i \in DOMAIN rawPages : rawPages[i] \subseteq ever

ExportTypes ==
  /\ entity \in Entities /\ source \in SUBSET Keys
  /\ steady \subseteq source /\ source \subseteq ever /\ ever \subseteq Keys
  /\ saved \in States /\ rawPages \in Seq(SUBSET Keys) /\ normal \in Seq(SUBSET Keys)
  /\ sealed \in BOOLEAN /\ accepted \in BOOLEAN
  /\ capture \in [at : ExportPhases, work : States, rows : SUBSET Keys]

PageEnd(rows) == IF Drops THEN Max(Asked(saved)) ELSE Max(rows)

\* A page that was fetched has what was there all the time up to its end.
PageIsSound(rows) ==
  /\ rows \subseteq ever /\ (~Drops => rows # {})
  /\ \A k \in steady : k > saved.cursor /\ k <= PageEnd(rows) => k \in rows

RunIsSound ==
  /\ Runs("counting") => /\ saved = NoState /\ ~Drops /\ Reaches(capture.work)
                         /\ capture.work.upper # 0 /\ capture.work.listed = << >>
                         /\ ~capture.work.complete
  /\ capture.at \in {"paging", "writing", "recording"} =>
        capture.work = saved /\ ~saved.complete /\ (~Drops => saved # NoState)
  /\ capture.at \in {"writing", "recording"} => PageIsSound(capture.rows)
  /\ Runs("recording") => /\ Len(rawPages) = Len(saved.listed) + 1
                          /\ rawPages[Len(saved.listed) + 1] = capture.rows
  /\ capture.at \in {"normalizing", "exporting", "sealing"} => saved.complete
  /\ capture.at \in {"exporting", "sealing"} => normal = Collected

\* A state that is complete does not change any more, nor do its pages.
ExportedIsSaved ==
  /\ exported = NothingExported \/ (exported.state = saved /\ saved.complete /\ normal = Collected)
  /\ accepted => exported # NothingExported /\ InOrder(normal)

ExportInv == ExportTypes /\ Reaches(saved) /\ PagesAgree /\ RunIsSound /\ ExportedIsSaved

-------------------------------------------------------------------------------
\* The greatest of some keys.
LEMMA MaxOfKeys ==
  ASSUME NEW S \in SUBSET Keys, S # {}
  PROVE  Max(S) \in S /\ \A k \in S : k <= Max(S)
<1>1. S \in SUBSET Nat /\ IsFiniteSet(S)
  BY ExportConstants, FS_Subset
<1> QED
  BY <1>1, MaxOf

\* A page of keys is the beginning of what it is taken from, and never empty
\* without need.
LEMMA FirstPages ==
  ASSUME NEW S \in SUBSET Keys
  PROVE  /\ FirstPage(S) \in SUBSET S /\ (S # {} => FirstPage(S) # {})
         /\ \A k \in FirstPage(S) : \A j \in S : j <= k => j \in FirstPage(S)
<1>1. S \in SUBSET Nat /\ IsFiniteSet(S) /\ PageSize \in Nat \ {0}
  BY ExportConstants, FS_Subset
<1>2. FirstPage(S) = FirstN(S, PageSize)
  BY DEF FirstPage, FirstN
<1> QED
  BY <1>1, <1>2, FirstOf

LEMMA ExportNumbers ==
  /\ Keys \in SUBSET Nat /\ 0 \notin Keys /\ Keys # {} /\ Cardinality(Keys) \in Nat
  /\ NoState \in States /\ Unknown \in 0..(Cardinality(Keys) + 1)
  /\ \A k \in Keys : k \in Nat /\ k > 0 /\ ~(k <= 0)
  /\ \E k \in Keys : k > 0
<1>1. Keys \in SUBSET Nat /\ 0 \notin Keys /\ Keys # {} /\ Cardinality(Keys) \in Nat
  BY ExportConstants, FS_CardinalityType
<1>2. Unknown \in 0..(Cardinality(Keys) + 1)
  BY <1>1 DEF Unknown
<1>3. << >> \in Seq(SUBSET Keys)
  OBVIOUS
<1>4. \A k \in Keys : k \in Nat /\ k > 0 /\ ~(k <= 0)
  BY ExportConstants
<1>5. \E k \in Keys : k > 0
  BY <1>1, <1>4
<1> QED
  BY <1>1, <1>2, <1>3, <1>4, <1>5 DEF NoState, States

\* Before the first page there is nothing to have.
LEMMA ReachesNothing ==
  ASSUME steady \in SUBSET Keys PROVE Reaches(NoState)
<1>1. NoState.listed = << >> /\ NoState.cursor = 0 /\ NoState.complete = FALSE
  BY DEF NoState
<1>2. \A k \in Keys : k > 0
  BY ExportNumbers
<1>3. \E k \in Keys : k > 0
  BY <1>2, ExportNumbers
<1>4. \A k \in steady : ~(k <= 0)
  BY <1>2, ExportNumbers
<1> QED
  BY <1>1, <1>3, <1>4 DEF Reaches

\* Rows that go or come do not take anything from it.
LEMMA ReachesStays ==
  ASSUME NEW w, Reaches(w), steady' \subseteq steady, ever \subseteq ever', entity' = entity
  PROVE  Reaches(w)'
<1>1. (Drops' <=> Drops) /\ NoState' = NoState
  BY DEF Drops
<1>2. \A k \in steady' : k <= w.cursor \/ w.complete => Got(w.listed, k)
  BY DEF Reaches
<1>3. \A i \in DOMAIN w.listed : w.listed[i] \subseteq ever'
  BY DEF Reaches
<1>4. ~Drops /\ w # NoState => \A k \in steady' : k <= w.upper
  BY DEF Reaches
<1>5. (Drops /\ w.complete => w.listed # << >>)
      /\ (Drops /\ ~w.complete => \E k \in Keys : k > w.cursor)
  BY DEF Reaches
<1> QED
  BY <1>1, <1>2, <1>3, <1>4, <1>5 DEF Reaches

LEMMA ExportInitially == ExportInit => ExportInv
<1> SUFFICES ASSUME ExportInit PROVE ExportInv
  OBVIOUS
<1>1. /\ entity \in Entities /\ source \in SUBSET Keys /\ steady = source /\ ever = source
      /\ saved = NoState /\ rawPages = << >> /\ normal = << >> /\ exported = NothingExported
      /\ sealed = FALSE /\ accepted = FALSE /\ capture = NotRunning
  BY DEF ExportInit
<1>2. NoState.listed = << >> /\ NoState.cursor = 0 /\ NoState.complete = FALSE
  BY DEF NoState
<1>3. ExportTypes
  <2>1. NotRunning \in [at : ExportPhases, work : States, rows : SUBSET Keys]
    BY ExportNumbers DEF NotRunning, ExportPhases
  <2>2. << >> \in Seq(SUBSET Keys)
    OBVIOUS
  <2> QED
    BY <1>1, <2>1, <2>2, ExportNumbers DEF ExportTypes
<1>4. Reaches(saved)
  <2>1. Reaches(NoState)
    BY <1>1, ReachesNothing DEF ExportInit
  <2> QED
    BY <1>1, <2>1
<1>5. PagesAgree
  BY <1>1, <1>2 DEF PagesAgree
<1>6. RunIsSound
  BY <1>1 DEF RunIsSound, Runs, NotRunning
<1>7. ExportedIsSaved
  BY <1>1 DEF ExportedIsSaved
<1> QED
  BY <1>3, <1>4, <1>5, <1>6, <1>7 DEF ExportInv

LEMMA SourceChangeKeeps == ASSUME ExportInv, SourceChange PROVE ExportInv'
<1>1. /\ UNCHANGED <<entity, saved, rawPages, normal, exported, sealed, accepted, capture>>
      /\ source' \in SUBSET Keys /\ ever' = ever \cup source' /\ steady' = steady \cap source'
  BY DEF SourceChange, SymDiff, ExportInv, ExportTypes
<1>2. ExportTypes'
  BY <1>1 DEF ExportInv, ExportTypes
<1>3. steady' \subseteq steady /\ ever \subseteq ever' /\ (Drops' <=> Drops)
  BY <1>1 DEF Drops
<1>4. Reaches(saved)' /\ (Reaches(capture.work) => Reaches(capture.work)')
  <2> DEFINE w == capture.work
  <2>1. PICK s, c : s = saved /\ c = w
    OBVIOUS
  <2>2. Reaches(s) /\ saved' = s /\ capture'.work = c
    BY <1>1, <2>1 DEF ExportInv
  <2>3. Reaches(s)' /\ (Reaches(c) => Reaches(c)')
    BY <1>1, <1>3, <2>2, ReachesStays
  <2>4. Reaches(saved)' <=> Reaches(s)'
    BY <2>2 DEF Reaches
  <2>5. Reaches(capture.work)' <=> Reaches(c)'
    BY <2>2 DEF Reaches
  <2> QED
    BY <2>1, <2>3, <2>4, <2>5
<1>5. PagesAgree'
  BY <1>1, <1>3 DEF ExportInv, PagesAgree
<1>6. Collected' = Collected /\ PageEnd(capture.rows)' = PageEnd(capture.rows)
  BY <1>1, <1>3 DEF Collected, Moments, PageEnd, Asked
<1>7. PageIsSound(capture.rows) => PageIsSound(capture.rows)'
  BY <1>1, <1>3, <1>6 DEF PageIsSound
<1>8. RunIsSound'
  BY <1>1, <1>3, <1>4, <1>6, <1>7 DEF ExportInv, RunIsSound, Runs
<1>9. ExportedIsSaved'
  BY <1>1, <1>3, <1>6 DEF ExportInv, ExportedIsSaved, InOrder, Apart
<1> QED
  BY <1>2, <1>4, <1>5, <1>8, <1>9 DEF ExportInv

\* A step of the run that only moves it, and the end of a run.
LEMMA RunMoves ==
  ASSUME ExportInv, UNCHANGED <<sourceVars, saved, rawPages, normal, exported, accepted>>,
         sealed' \in BOOLEAN,
         NEW at \in ExportPhases, NEW w \in States, NEW rows \in SUBSET Keys,
         capture' = [at |-> at, work |-> w, rows |-> rows],
         at # "counting",
         at \in {"paging", "writing", "recording"} =>
            w = saved /\ ~saved.complete /\ (~Drops => saved # NoState),
         at \in {"writing", "recording"} => PageIsSound(rows),
         at = "recording" => /\ Len(rawPages) = Len(saved.listed) + 1
                             /\ rawPages[Len(saved.listed) + 1] = rows,
         at \in {"normalizing", "exporting", "sealing"} => saved.complete,
         at \in {"exporting", "sealing"} => normal = Collected
  PROVE  ExportInv'
<1>1. capture'.at = at /\ capture'.work = w /\ capture'.rows = rows
  OBVIOUS
<1>2. (Drops' <=> Drops) /\ NoState' = NoState /\ Collected' = Collected
  BY DEF sourceVars, Drops, Collected, Moments
<1>3. ExportTypes'
  BY DEF ExportInv, ExportTypes, sourceVars
<1>4. Reaches(saved)' /\ PagesAgree' /\ ExportedIsSaved'
  BY <1>2 DEF ExportInv, Reaches, PagesAgree, ExportedIsSaved, sourceVars, InOrder, Apart
<1>5. PageIsSound(rows) => PageIsSound(rows)'
  BY <1>2 DEF PageIsSound, PageEnd, Asked, sourceVars
<1>6. PageIsSound(capture.rows)' <=> PageIsSound(rows)'
  BY <1>1 DEF PageIsSound, PageEnd
<1>7. RunIsSound'
  BY <1>1, <1>2, <1>5, <1>6 DEF RunIsSound, Runs
<1> QED
  BY <1>3, <1>4, <1>7 DEF ExportInv

LEMMA RunNow ==
  ASSUME ExportInv
  PROVE  /\ saved \in States /\ capture.work \in States /\ capture.rows \in SUBSET Keys
         /\ saved.listed \in Seq(SUBSET Keys) /\ rawPages \in Seq(SUBSET Keys)
         /\ saved.cursor \in Nat /\ saved.upper \in Nat /\ saved.complete \in BOOLEAN
         /\ steady \in SUBSET Keys /\ source \in SUBSET Keys /\ steady \subseteq source
<1>1. saved \in States /\ capture.work \in States /\ capture.rows \in SUBSET Keys
  BY DEF ExportInv, ExportTypes
<1>2. saved.listed \in Seq(SUBSET Keys) /\ saved.cursor \in Keys \cup {0}
      /\ saved.upper \in Keys \cup {0} /\ saved.complete \in BOOLEAN
  BY <1>1 DEF States
<1>3. saved.cursor \in Nat /\ saved.upper \in Nat
  <2>1. \A k \in Keys \cup {0} : k \in Nat
    BY ExportConstants
  <2> QED
    BY <1>2, <2>1
<1>4. rawPages \in Seq(SUBSET Keys) /\ source \in SUBSET Keys /\ steady \subseteq source
  BY DEF ExportInv, ExportTypes
<1>5. steady \in SUBSET Keys
  BY <1>4
<1> QED
  BY <1>1, <1>2, <1>3, <1>4, <1>5

LEMMA EndKeeps ==
  ASSUME ExportInv, UNCHANGED <<sourceVars, saved, rawPages, normal, exported, accepted>>,
         sealed' \in BOOLEAN, Ends
  PROVE  ExportInv'
<1>1. capture' = [at |-> "idle", work |-> NoState, rows |-> {}]
  BY DEF Ends, NotRunning
<1>2. "idle" \in ExportPhases
  BY DEF ExportPhases
<1>3. PICK at \in ExportPhases : at = "idle" /\ capture' = [at |-> at, work |-> NoState, rows |-> {}]
  BY <1>1, <1>2
<1> QED
  BY <1>3, ExportNumbers, RunMoves

LEMMA KillExportKeeps == ASSUME ExportInv, KillExport PROVE ExportInv'
BY EndKeeps DEF KillExport, ExportInv, ExportTypes

LEMMA SealKeeps == ASSUME ExportInv, Seal PROVE ExportInv'
BY EndKeeps DEF Seal

LEMMA VerifyKeeps == ASSUME ExportInv, Verify PROVE ExportInv'
<1>1. /\ UNCHANGED <<sourceVars, saved, rawPages, normal, exported, sealed, capture, exportFaults>>
      /\ accepted' = Verified /\ exported # NothingExported
  BY DEF Verify
<1>2. (Drops' <=> Drops) /\ Collected' = Collected /\ (InOrder(normal)' <=> InOrder(normal))
  BY <1>1 DEF sourceVars, Drops, Collected, Moments, InOrder, Apart
<1>3. accepted' \in BOOLEAN /\ (accepted' => InOrder(normal))
  <2>1. Verified \in BOOLEAN
    BY DEF Verified
  <2>2. Verified => InOrder(normal)
    BY DEF Verified
  <2> QED
    BY <1>1, <2>1, <2>2
<1>4. ExportTypes'
  BY <1>1, <1>3 DEF ExportInv, ExportTypes, sourceVars
<1>5. Reaches(saved)' /\ PagesAgree'
  BY <1>1, <1>2 DEF ExportInv, Reaches, PagesAgree, sourceVars
<1>6. RunIsSound'
  <2>1. (PageIsSound(capture.rows)' <=> PageIsSound(capture.rows))
        /\ (Reaches(capture.work)' <=> Reaches(capture.work))
    BY <1>1, <1>2 DEF PageIsSound, PageEnd, Reaches, sourceVars, Asked
  <2> QED
    BY <1>1, <1>2, <2>1 DEF ExportInv, RunIsSound, Runs
<1>7. ExportedIsSaved'
  BY <1>1, <1>2, <1>3 DEF ExportInv, ExportedIsSaved
<1> QED
  BY <1>4, <1>5, <1>6, <1>7 DEF ExportInv

LEMMA ResumeExportKeeps == ASSUME ExportInv, ResumeExport PROVE ExportInv'
<1> DEFINE at == IF saved.complete THEN "normalizing" ELSE "paging"
<1>1. /\ UNCHANGED <<sourceVars, saved, rawPages, normal, exported, sealed, accepted>>
      /\ capture' = [at |-> at, work |-> saved, rows |-> {}] /\ saved # NoState
  BY DEF ResumeExport, Onward, Goes
<1>2. /\ at \in ExportPhases /\ at \in {"normalizing", "paging"}
      /\ at = "normalizing" => saved.complete
      /\ at = "paging" => ~saved.complete
  BY DEF ExportPhases
<1>3. sealed' \in BOOLEAN
  BY <1>1 DEF ExportInv, ExportTypes
<1> HIDE DEF at
<1> QED
  BY <1>1, <1>2, <1>3, RunNow, RunMoves

LEMMA FetchRowsKeeps == ASSUME ExportInv, FetchRows PROVE ExportInv'
<1> DEFINE rows == NextRows(saved)
<1>1. capture.work = saved /\ ~saved.complete /\ (~Drops => saved # NoState)
  BY DEF FetchRows, Runs, ExportInv, RunIsSound
<1>2. /\ UNCHANGED <<sourceVars, saved, rawPages, normal, exported, sealed, accepted>>
      /\ capture' = [at |-> "writing", work |-> saved, rows |-> rows]
      /\ rows # {} \/ Drops
  BY <1>1 DEF FetchRows, Goes
<1>3. PageIsSound(rows) /\ rows \in SUBSET Keys
  <2>1. CASE Drops
    <3> DEFINE S == {k \in Keys : k > saved.cursor}
    <3>1. rows = FirstPage(S) \cap source /\ Asked(saved) = FirstPage(S)
      BY <2>1 DEF NextRows, Asked
    <3>2. S \in SUBSET Keys /\ FirstPage(S) \in SUBSET S
      BY FirstPages
    <3>3. rows \in SUBSET Keys /\ rows \subseteq ever
      BY <3>1, <3>2 DEF ExportInv, ExportTypes
    <3>4. ASSUME NEW k \in steady, k > saved.cursor, k <= PageEnd(rows) PROVE k \in rows
      <4>1. k \in S /\ k \in source
        BY <3>4, RunNow
      <4>2. FirstPage(S) # {} /\ FirstPage(S) \in SUBSET Keys
        BY <3>2, <4>1, FirstPages
      <4>3. Max(FirstPage(S)) \in FirstPage(S)
        BY <4>2, MaxOfKeys
      <4>4. k <= Max(FirstPage(S))
        BY <2>1, <3>1, <3>4 DEF PageEnd
      <4>5. k \in FirstPage(S)
        BY <3>2, <4>1, <4>3, <4>4, FirstPages
      <4> QED
        BY <3>1, <4>1, <4>5
    <3> QED
      BY <2>1, <3>3, <3>4 DEF PageIsSound
  <2>2. CASE ~Drops
    <3> DEFINE S == AfterCursor(saved)
    <3>1. rows = FirstPage(S) /\ S \in SUBSET Keys /\ S \in SUBSET source
      BY <2>2, RunNow DEF NextRows, AfterCursor, UpTo
    <3>2. rows \in SUBSET S /\ rows # {} /\ rows \in SUBSET Keys
      BY <1>2, <2>2, <3>1, FirstPages
    <3>3. rows \subseteq ever
      BY <3>1, <3>2 DEF ExportInv, ExportTypes
    <3>4. ASSUME NEW k \in steady, k > saved.cursor, k <= PageEnd(rows) PROVE k \in rows
      <4>1. k \in S
        <5>1. k <= saved.upper /\ k \in source
          BY <1>1, <2>2, RunNow DEF ExportInv, Reaches
        <5> QED
          BY <3>4, <5>1 DEF AfterCursor, UpTo
      <4>2. Max(rows) \in rows
        BY <3>2, MaxOfKeys
      <4>3. k <= Max(rows)
        BY <2>2, <3>4 DEF PageEnd
      <4> QED
        BY <3>1, <4>1, <4>2, <4>3, FirstPages
    <3> QED
      BY <2>2, <3>2, <3>3, <3>4 DEF PageIsSound
  <2> QED
    BY <2>1, <2>2
<1>4. sealed' \in BOOLEAN /\ "writing" \in ExportPhases
  BY <1>2 DEF ExportInv, ExportTypes, ExportPhases
<1> HIDE DEF rows
<1> QED
  BY <1>1, <1>2, <1>3, <1>4, RunNow, RunMoves

\* A new state, while there was none that is complete.
LEMMA NewState ==
  ASSUME ExportInv, ~saved.complete, UNCHANGED <<entity, rawPages, normal, exported, sealed, accepted>>,
         source' \in SUBSET Keys, steady' \subseteq source', source' \subseteq ever', ever' \subseteq Keys,
         NEW w \in States, saved' = w, Reaches(saved)', PagesAgree', ~Drops => w # NoState,
         Onward(w)
  PROVE  ExportInv'
<1> DEFINE at == IF w.complete THEN "normalizing" ELSE "paging"
<1>1. capture' = [at |-> at, work |-> w, rows |-> {}]
  BY DEF Onward, Goes
<1>2. /\ at \in ExportPhases /\ at \in {"normalizing", "paging"}
      /\ at = "normalizing" => w.complete
      /\ at = "paging" => ~w.complete
  BY DEF ExportPhases
<1> HIDE DEF at
<1>3. capture'.at = at /\ capture'.work = w /\ capture'.rows = {}
  BY <1>1
<1>4. (Drops' <=> Drops) /\ NoState' = NoState /\ NothingExported' = NothingExported
  BY DEF Drops
<1>5. ExportTypes'
  <2>1. capture' \in [at : ExportPhases, work : States, rows : SUBSET Keys]
    BY <1>1, <1>2
  <2> QED
    BY <2>1 DEF ExportInv, ExportTypes
<1>6. RunIsSound'
  BY <1>2, <1>3, <1>4 DEF RunIsSound, Runs
<1>7. exported = NothingExported /\ ~accepted
  BY DEF ExportInv, ExportedIsSaved
<1>8. ExportedIsSaved'
  BY <1>4, <1>7 DEF ExportedIsSaved
<1> QED
  BY <1>5, <1>6, <1>8 DEF ExportInv

LEMMA CountExpectedKeeps == ASSUME ExportInv, CountExpected PROVE ExportInv'
<1> DEFINE count == Cardinality(UpTo(capture.work.upper))
<1>1. /\ saved' = [capture.work EXCEPT !.expected = count] /\ Onward(saved') /\ Runs("counting")
      /\ UNCHANGED <<sourceVars, rawPages, normal, exported, sealed, accepted>>
  BY DEF CountExpected
<1>2. PICK w \in States : w = capture.work
  BY RunNow
<1>3. /\ saved = NoState /\ ~Drops /\ Reaches(w) /\ w.upper # 0 /\ w.listed = << >> /\ ~w.complete
  BY <1>1, <1>2 DEF ExportInv, RunIsSound
<1>4. count \in 0..(Cardinality(Keys) + 1)
  <2>1. UpTo(capture.work.upper) \in SUBSET Keys
    BY RunNow DEF UpTo
  <2>2. count \in Nat /\ count <= Cardinality(Keys)
    BY <2>1, FS_Subset, FS_CardinalityType, ExportConstants
  <2> QED
    BY <2>2, ExportNumbers
<1> HIDE DEF count
<1>5. PICK x \in States : /\ x = saved' /\ x.upper = w.upper /\ x.listed = << >> /\ ~x.complete
                          /\ x.cursor = w.cursor
  <2>1. saved' \in States
    BY <1>1, <1>2, <1>4 DEF States
  <2>2. /\ saved'.upper = w.upper /\ saved'.listed = w.listed /\ saved'.cursor = w.cursor
        /\ saved'.complete = w.complete
    BY <1>1, <1>2 DEF States
  <2> QED
    BY <1>3, <2>1, <2>2
<1>6. w # NoState /\ x # NoState
  BY <1>3, <1>5 DEF NoState
<1>7. Reaches(x)
  BY <1>3, <1>5, <1>6 DEF Reaches
<1>8. Reaches(saved)'
  <2>1. Reaches(x)'
    BY <1>1, <1>7, ReachesStays DEF sourceVars
  <2> QED
    BY <1>5, <2>1 DEF Reaches
<1>9. PagesAgree'
  <2>1. rawPages = << >>
    BY <1>3 DEF ExportInv, PagesAgree
  <2> QED
    BY <1>1, <1>5, <2>1 DEF PagesAgree
<1>10. /\ source' \in SUBSET Keys /\ steady' \subseteq source' /\ source' \subseteq ever' /\ ever' \subseteq Keys
       /\ entity' = entity
  BY <1>1 DEF ExportInv, ExportTypes, sourceVars
<1>11. ~saved.complete
  BY <1>3 DEF NoState
<1>12. Onward(x)
  BY <1>1, <1>5
<1> QED
  BY <1>1, <1>5, <1>6, <1>8, <1>9, <1>10, <1>11, <1>12, NewState

LEMMA FetchNothingKeeps == ASSUME ExportInv, FetchNothing PROVE ExportInv'
<1>1. /\ capture.work = saved /\ ~saved.complete /\ ~Drops /\ saved # NoState
      /\ UNCHANGED <<sourceVars, rawPages, normal, exported, sealed, accepted>>
  BY DEF FetchNothing, Runs, ExportInv, RunIsSound
<1>2. CASE Ends /\ UNCHANGED saved
  BY <1>1, <1>2, EndKeeps DEF ExportInv, ExportTypes
<1>3. CASE saved' = [saved EXCEPT !.complete = TRUE] /\ Onward(saved')
  <2>1. AfterCursor(saved) = {}
    <3>1. FirstPage(AfterCursor(saved)) = {}
      BY <1>1 DEF FetchNothing, NextRows
    <3>2. AfterCursor(saved) \in SUBSET Keys
      BY RunNow DEF AfterCursor, UpTo
    <3> QED
      BY <3>1, <3>2, FirstPages
  <2>2. \A k \in steady : k <= saved.cursor
    <3>1. ASSUME NEW k \in steady PROVE k <= saved.cursor
      <4>1. k \in source /\ k <= saved.upper /\ k \in Nat
        BY <1>1, RunNow, ExportNumbers DEF ExportInv, Reaches
      <4>2. ~(k > saved.cursor)
        BY <2>1, <4>1 DEF AfterCursor, UpTo
      <4> QED
        BY <4>1, <4>2, RunNow
    <3> QED
      BY <3>1
  <2>3. PICK x \in States : /\ x = saved' /\ x.upper = saved.upper /\ x.listed = saved.listed /\ x.complete
                            /\ x.cursor = saved.cursor
    <3>1. saved \in States
      BY RunNow
    <3>2. saved' \in States
      BY <1>3, <3>1 DEF States
    <3>3. /\ saved'.upper = saved.upper /\ saved'.listed = saved.listed /\ saved'.complete
          /\ saved'.cursor = saved.cursor
      BY <1>3, <3>1 DEF States
    <3> QED
      BY <3>2, <3>3
  <2>4. x # NoState
    BY <2>3 DEF NoState
  <2>5. Reaches(x)
    BY <1>1, <2>2, <2>3 DEF ExportInv, Reaches
  <2>6. Reaches(saved)'
    <3>1. Reaches(x)'
      BY <1>1, <2>5, ReachesStays DEF sourceVars
    <3> QED
      BY <2>3, <3>1 DEF Reaches
  <2>7. (Drops' <=> Drops) /\ NoState' = NoState /\ saved'.listed = saved.listed /\ saved' # NoState
    BY <1>1, <2>3, <2>4 DEF Drops, sourceVars
  <2>8. PagesAgree'
    BY <1>1, <2>7 DEF ExportInv, PagesAgree, sourceVars
  <2>9. /\ source' \in SUBSET Keys /\ steady' \subseteq source' /\ source' \subseteq ever' /\ ever' \subseteq Keys
        /\ entity' = entity
    BY <1>1 DEF ExportInv, ExportTypes, sourceVars
  <2>10. Onward(x)
    BY <1>3, <2>3
  <2> QED
    BY <1>1, <2>3, <2>4, <2>6, <2>8, <2>9, <2>10, NewState
<1> QED
  BY <1>1, <1>2, <1>3 DEF FetchNothing

LEMMA BeginExportKeeps == ASSUME ExportInv, BeginExport PROVE ExportInv'
<1> DEFINE u == IF source = {} \/ Drops THEN 0 ELSE Max(source)
<1>1. /\ Runs("idle") /\ saved = NoState /\ steady' = source /\ ever' = source
      /\ UNCHANGED <<entity, source, rawPages, normal, exported, sealed, accepted>>
  BY DEF BeginExport
<1>2. u \in Keys \cup {0} /\ (Drops => u = 0) /\ (~Drops => \A k \in source : k <= u)
      /\ (~Drops /\ u = 0 => source = {})
  BY RunNow, MaxOfKeys, ExportNumbers
<1>3. Fresh = [NoState EXCEPT !.upper = u, !.complete = ~Drops /\ u = 0,
                    !.expected = IF u = 0 /\ ~Drops THEN 0 ELSE Unknown]
  BY DEF Fresh
<1> HIDE DEF u
<1>4. PICK w \in States : /\ w = Fresh /\ w.upper = u /\ w.listed = << >> /\ w.cursor = 0
                          /\ (w.complete <=> ~Drops /\ u = 0)
  <2>1. PICK c \in BOOLEAN : c <=> ~Drops /\ u = 0
    OBVIOUS
  <2>2. PICK e \in 0..(Cardinality(Keys) + 1) : e = IF u = 0 /\ ~Drops THEN 0 ELSE Unknown
    BY ExportNumbers
  <2>3. Fresh = [upper |-> u, expected |-> e, cursor |-> 0, listed |-> << >>, missing |-> {},
                 complete |-> c]
    <3>1. Fresh = [NoState EXCEPT !.upper = u, !.complete = c, !.expected = e]
      BY <1>3, <2>1, <2>2
    <3> QED
      BY <3>1 DEF NoState
  <2>4. Fresh \in States
    BY <1>2, <2>3 DEF States
  <2> QED
    BY <2>1, <2>3, <2>4
<1>5. ~Drops => w # NoState
  BY <1>4 DEF NoState
<1>6. \A k \in source : ~(k <= 0)
  <2>1. \A k \in Keys : ~(k <= 0)
    BY ExportNumbers
  <2> QED
    BY <2>1, RunNow
<1>7. Reaches(w)'
  <2>1. (Drops' <=> Drops) /\ NoState' = NoState /\ steady' = source
    BY <1>1 DEF Drops
  <2>2. \A k \in source : ~(k <= 0)
    BY <1>6
  <2>3. w.complete => source = {}
    BY <1>2, <1>4
  <2>4. \E k \in Keys : k > w.cursor
    BY <1>4, ExportNumbers
  <2> QED
    BY <1>2, <1>4, <2>1, <2>2, <2>3, <2>4 DEF Reaches
<1>8. CASE Counted /\ ~Fresh.complete
  <2>1. capture' = [at |-> "counting", work |-> w, rows |-> {}] /\ saved' = saved
    BY <1>4, <1>8 DEF BeginExport, Goes
  <2>2. ~Drops
    BY <1>8 DEF Counted, Drops
  <2>3. capture'.at = "counting" /\ capture'.work = w /\ capture'.rows = {}
    BY <2>1
  <2>4. ExportTypes'
    <3>1. capture' \in [at : ExportPhases, work : States, rows : SUBSET Keys]
      BY <2>1 DEF ExportPhases
    <3> QED
      BY <1>1, <2>1, <3>1 DEF ExportInv, ExportTypes
  <2>5. (Drops' <=> Drops) /\ NoState' = NoState /\ NothingExported' = NothingExported
    BY <1>1 DEF Drops
  <2>6. Reaches(saved)'
    <3>1. NoState.listed = << >> /\ NoState.cursor = 0 /\ NoState.complete = FALSE
      BY DEF NoState
    <3>2. \E k \in Keys : k > 0
      BY ExportNumbers
    <3> QED
      BY <1>1, <1>6, <2>1, <2>5, <3>1, <3>2 DEF Reaches
  <2>7. PagesAgree'
    <3>1. rawPages = << >>
      BY <1>1, <2>2 DEF ExportInv, PagesAgree
    <3> QED
      BY <1>1, <2>1, <2>2, <2>5, <3>1 DEF ExportInv, PagesAgree
  <2>8. RunIsSound'
    <3>1. w.upper # 0 /\ ~w.complete
      BY <1>4, <1>8, <2>2
    <3>2. Reaches(capture.work)'
      BY <1>7, <2>3 DEF Reaches
    <3> QED
      BY <1>1, <1>4, <2>1, <2>2, <2>3, <2>5, <3>1, <3>2 DEF RunIsSound, Runs
  <2>9. ExportedIsSaved'
    <3>1. exported = NothingExported /\ ~accepted
      BY <1>1 DEF ExportInv, ExportedIsSaved, NoState
    <3> QED
      BY <1>1, <2>5, <3>1 DEF ExportedIsSaved
  <2> QED
    BY <2>4, <2>6, <2>7, <2>8, <2>9 DEF ExportInv
<1>9. CASE ~(Counted /\ ~Fresh.complete)
  <2>1. saved' = w /\ Onward(w)
    BY <1>4, <1>9 DEF BeginExport
  <2>2. Reaches(saved)'
    BY <1>7, <2>1 DEF Reaches
  <2>3. (Drops' <=> Drops) /\ NoState' = NoState /\ NoState.listed = << >> /\ ~NoState.complete
    BY <1>1 DEF Drops, NoState
  <2>4. PagesAgree'
    BY <1>1, <1>4, <2>1, <2>3 DEF ExportInv, PagesAgree
  <2>5. /\ source' \in SUBSET Keys /\ steady' \subseteq source' /\ source' \subseteq ever' /\ ever' \subseteq Keys
    BY <1>1 DEF ExportInv, ExportTypes
  <2> QED
    BY <1>1, <1>5, <2>1, <2>2, <2>3, <2>4, <2>5, NewState
<1> QED
  BY <1>8, <1>9

LEMMA WritePageKeeps == ASSUME ExportInv, WritePage PROVE ExportInv'
<1> DEFINE n == PageNumber(capture.work)
           pages == [i \in DOMAIN rawPages \cup {n} |-> IF i = n THEN capture.rows ELSE rawPages[i]]
<1>1. /\ UNCHANGED <<sourceVars, saved, normal, exported, sealed, accepted>>
      /\ rawPages' = pages /\ Runs("writing")
      /\ capture' = [at |-> "recording", work |-> capture.work, rows |-> capture.rows]
  BY DEF WritePage, Goes
<1>2. /\ capture.work = saved /\ ~saved.complete /\ (~Drops => saved # NoState)
      /\ PageIsSound(capture.rows)
  BY <1>1 DEF ExportInv, RunIsSound, Runs
<1>3. /\ n = Len(saved.listed) + 1 /\ Len(saved.listed) \in Nat /\ Len(rawPages) \in Nat
      /\ Len(saved.listed) <= Len(rawPages) /\ Len(rawPages) <= n
  BY <1>2, RunNow DEF PageNumber, ExportInv, PagesAgree
<1> HIDE DEF n
<1>4. DOMAIN rawPages \cup {n} = 1..n
  <2>1. DOMAIN rawPages = 1..Len(rawPages)
    BY RunNow
  <2>2. n \in Nat /\ (Len(rawPages) = n \/ Len(rawPages) = n - 1) /\ n >= 1
    BY <1>3
  <2>3. \A i : i \in 1..Len(rawPages) \/ i = n <=> i \in 1..n
    BY <2>2
  <2> QED
    BY <2>1, <2>3
<1>5. /\ rawPages' \in Seq(SUBSET Keys) /\ Len(rawPages') = n /\ DOMAIN rawPages' = 1..n
      /\ rawPages'[n] = capture.rows
      /\ \A i \in 1..n : i # n => i \in DOMAIN rawPages /\ rawPages'[i] = rawPages[i]
  <2>1. rawPages' = [i \in 1..n |-> IF i = n THEN capture.rows ELSE rawPages[i]]
    BY <1>1, <1>4
  <2>2. \A i \in 1..n : i # n => i \in DOMAIN rawPages
    BY <1>4
  <2>3. \A i \in 1..n : (IF i = n THEN capture.rows ELSE rawPages[i]) \in SUBSET Keys
    BY <2>2, RunNow
  <2>4. rawPages' \in [1..n -> SUBSET Keys]
    BY <2>1, <2>3
  <2>5. n \in Nat /\ n \in 1..n
    BY <1>3
  <2>6. rawPages' \in Seq(SUBSET Keys) /\ Len(rawPages') = n
    BY <2>4, <2>5
  <2> QED
    BY <2>1, <2>2, <2>5, <2>6
<1>6. capture'.at = "recording" /\ capture'.work = saved /\ capture'.rows = capture.rows
  BY <1>1, <1>2
<1>7. (Drops' <=> Drops) /\ NoState' = NoState /\ NothingExported' = NothingExported
  BY <1>1 DEF Drops, sourceVars
<1>8. ExportTypes'
  <2>1. capture' \in [at : ExportPhases, work : States, rows : SUBSET Keys]
    BY <1>1, RunNow DEF ExportPhases
  <2> QED
    BY <1>1, <1>5, <2>1 DEF ExportInv, ExportTypes, sourceVars
<1>9. Reaches(saved)'
  BY <1>1, <1>7 DEF ExportInv, Reaches, sourceVars
<1>10. PagesAgree'
  <2>1. DOMAIN saved.listed = 1..Len(saved.listed)
    BY RunNow
  <2>2. \A i \in DOMAIN saved.listed : rawPages'[i] = saved.listed[i]
    <3>1. \A i \in DOMAIN saved.listed : i \in 1..n /\ i # n
      BY <1>3, <2>1
    <3> QED
      BY <1>5, <3>1 DEF ExportInv, PagesAgree
  <2>3. (Drops /\ saved.listed = << >>) \/ \A i \in 1..n : rawPages'[i] \subseteq ever
    BY <1>2, <1>5 DEF ExportInv, PagesAgree, PageIsSound
  <2>4. /\ saved' = saved /\ ever' = ever
        /\ Len(saved.listed) <= n /\ n <= Len(saved.listed) + 1
    BY <1>1, <1>3 DEF sourceVars
  <2> QED
    BY <1>2, <1>5, <1>7, <2>2, <2>3, <2>4 DEF PagesAgree
<1>11. RunIsSound'
  <2>1. PageIsSound(capture.rows)'
    <3>1. PageEnd(capture.rows)' = PageEnd(capture.rows)
      BY <1>1, <1>6, <1>7 DEF PageEnd, Asked
    <3> QED
      BY <1>1, <1>2, <1>6, <1>7, <3>1 DEF PageIsSound, sourceVars
  <2> QED
    BY <1>1, <1>2, <1>3, <1>5, <1>6, <1>7, <2>1 DEF RunIsSound, Runs
<1>12. ExportedIsSaved'
  <2>1. exported = NothingExported /\ ~accepted
    BY <1>2 DEF ExportInv, ExportedIsSaved
  <2> QED
    BY <1>1, <1>7, <2>1 DEF ExportedIsSaved
<1> QED
  BY <1>8, <1>9, <1>10, <1>11, <1>12 DEF ExportInv

LEMMA RecordPageKeeps == ASSUME ExportInv, RecordPage PROVE ExportInv'
<1> DEFINE rows == capture.rows
           to == PageEnd(rows)
<1>1. /\ UNCHANGED <<sourceVars, rawPages, normal, exported, sealed, accepted>>
      /\ Runs("recording")
  BY DEF RecordPage
<1>2. /\ capture.work = saved /\ ~saved.complete /\ (~Drops => saved # NoState)
      /\ PageIsSound(rows) /\ Len(rawPages) = Len(saved.listed) + 1
      /\ rawPages[Len(saved.listed) + 1] = rows /\ rows \in SUBSET Keys
  BY <1>1, RunNow DEF ExportInv, RunIsSound, Runs
<1>3. to \in Keys
  <2>1. CASE Drops
    <3> DEFINE S == {k \in Keys : k > saved.cursor}
    <3>1. S \in SUBSET Keys /\ S # {}
      BY <1>2, <2>1 DEF ExportInv, Reaches
    <3>2. FirstPage(S) # {} /\ FirstPage(S) \in SUBSET Keys
      BY <3>1, FirstPages
    <3>3. Max(FirstPage(S)) \in Keys
      BY <3>2, MaxOfKeys
    <3> QED
      BY <2>1, <3>3 DEF PageEnd, Asked
  <2>2. CASE ~Drops
    BY <1>2, <2>2, MaxOfKeys DEF PageEnd, PageIsSound
  <2> QED
    BY <2>1, <2>2
<1>4. PICK m \in SUBSET Keys : m = IF Drops THEN saved.missing \cup (Asked(saved) \ rows) ELSE {}
  <2>1. saved.missing \in SUBSET Keys
    BY RunNow DEF States
  <2>2. Asked(saved) \in SUBSET Keys
    BY FirstPages DEF Asked
  <2> QED
    BY <2>1, <2>2
<1>5. PICK c \in BOOLEAN : c <=> IF Drops THEN to = Max(Keys) ELSE to = saved.upper
  OBVIOUS
<1>6. PICK x \in States : /\ x = Advanced(capture.work, rows)
                          /\ x.upper = saved.upper /\ x.cursor = to /\ x.complete = c
                          /\ x.listed = Append(saved.listed, rows)
  <2>1. Advanced(capture.work, rows) =
           [saved EXCEPT !.listed = Append(saved.listed, rows), !.cursor = to,
                         !.missing = m, !.complete = c]
    <3>1. (IF Drops THEN to = Max(Keys) ELSE to = saved.upper) = c
      BY <1>5
    <3>2. to = IF Drops THEN Max(Asked(saved)) ELSE Max(rows)
      BY DEF PageEnd
    <3> QED
      BY <1>2, <1>4, <3>1, <3>2 DEF Advanced
  <2>2. Append(saved.listed, rows) \in Seq(SUBSET Keys) /\ saved \in States
    BY <1>2, RunNow
  <2> HIDE DEF to, rows
  <2> QED
    BY <1>3, <2>1, <2>2 DEF States
<1> HIDE DEF to
<1>7. CASE Ends /\ UNCHANGED saved
  BY <1>1, <1>7, EndKeeps DEF ExportInv, ExportTypes
<1>8. CASE saved' = x /\ Onward(x)
  <2>1. /\ \A i \in DOMAIN saved.listed : i \in DOMAIN x.listed /\ x.listed[i] = saved.listed[i]
        /\ Len(saved.listed) + 1 \in DOMAIN x.listed /\ x.listed[Len(saved.listed) + 1] = rows
        /\ Len(x.listed) = Len(saved.listed) + 1 /\ x.listed # << >>
        /\ \A i \in DOMAIN x.listed : i \in DOMAIN saved.listed \/ i = Len(saved.listed) + 1
    BY <1>2, <1>6, RunNow
  <2>2. \A k : (Got(saved.listed, k) \/ k \in rows) => Got(x.listed, k)
    BY <2>1 DEF Got
  <2>3. ASSUME NEW k \in steady, k <= to PROVE Got(x.listed, k)
    <3>1. CASE k <= saved.cursor
      BY <2>2, <3>1 DEF ExportInv, Reaches
    <3>2. CASE k > saved.cursor
      BY <1>2, <2>2, <2>3, <3>2 DEF PageIsSound, to
    <3>3. k \in Nat
      BY RunNow, ExportNumbers
    <3> QED
      BY <3>1, <3>2, <3>3, RunNow
  <2>4. ASSUME c, NEW k \in steady PROVE k <= to
    <3>1. CASE Drops
      <4>1. to = Max(Keys) /\ k \in Keys
        BY <1>5, <2>4, <3>1, RunNow
      <4> QED
        BY <4>1, MaxOfKeys, ExportNumbers
    <3>2. CASE ~Drops
      BY <1>2, <1>5, <2>4, <3>2 DEF ExportInv, Reaches
    <3> QED
      BY <3>1, <3>2
  <2>5. ASSUME Drops, ~c PROVE \E k \in Keys : k > to
    <3>1. Max(Keys) \in Keys /\ to <= Max(Keys) /\ to # Max(Keys)
      BY <1>3, <1>5, <2>5, MaxOfKeys, ExportNumbers
    <3>2. Max(Keys) \in Nat /\ to \in Nat
      BY <1>3, <3>1, ExportNumbers
    <3>3. Max(Keys) > to
      BY <3>1, <3>2
    <3> QED
      BY <3>1, <3>3
  <2>6. x # NoState
    BY <2>1 DEF NoState
  <2>7. \A i \in DOMAIN x.listed : x.listed[i] \subseteq ever
    BY <1>2, <2>1 DEF ExportInv, Reaches, PageIsSound
  <2>8. ~Drops => \A k \in steady : k <= x.upper
    BY <1>2, <1>6 DEF ExportInv, Reaches
  <2>9. Reaches(x)
    BY <1>6, <2>1, <2>3, <2>4, <2>5, <2>7, <2>8 DEF Reaches
  <2>10. Reaches(saved)'
    <3>1. Reaches(x)'
      BY <1>1, <2>9, ReachesStays DEF sourceVars
    <3> QED
      BY <1>8, <3>1 DEF Reaches
  <2>11. PagesAgree'
    <3>1. (Drops' <=> Drops) /\ NoState' = NoState /\ saved' # NoState /\ saved'.listed = x.listed
      BY <1>1, <1>8, <2>6 DEF Drops, sourceVars
    <3>2. \A i \in DOMAIN x.listed : rawPages[i] = x.listed[i]
      BY <1>2, <2>1 DEF ExportInv, PagesAgree
    <3>3. \A i \in DOMAIN rawPages : rawPages[i] \subseteq ever
      <4>1. DOMAIN rawPages = DOMAIN x.listed
        BY <1>2, <2>1, RunNow
      <4> QED
        BY <2>7, <3>2, <4>1
    <3>4. Len(x.listed) <= Len(rawPages) /\ Len(rawPages) <= Len(x.listed) + 1
      BY <1>2, <2>1, RunNow
    <3> QED
      BY <1>1, <2>1, <3>1, <3>2, <3>3, <3>4 DEF PagesAgree, sourceVars
  <2>12. /\ source' \in SUBSET Keys /\ steady' \subseteq source' /\ source' \subseteq ever' /\ ever' \subseteq Keys
         /\ entity' = entity
    BY <1>1 DEF ExportInv, ExportTypes, sourceVars
  <2> QED
    BY <1>1, <1>2, <1>8, <2>6, <2>10, <2>11, <2>12, NewState
<1> QED
  BY <1>6, <1>7, <1>8 DEF RecordPage

\* What is complete does not change: what was normalized before, and verified,
\* comes out again.
LEMMA NormalizeKeeps == ASSUME ExportInv, Normalize PROVE ExportInv'
<1>1. /\ UNCHANGED <<sourceVars, saved, rawPages, exported, sealed, accepted>>
      /\ Runs("normalizing") /\ normal' = Collected /\ saved.complete
      /\ capture' = [at |-> "exporting", work |-> saved, rows |-> {}]
  BY DEF Normalize, Goes, ExportInv, RunIsSound, Runs
<1>2. (Drops' <=> Drops) /\ NoState' = NoState /\ Collected' = Collected /\ NothingExported' = NothingExported
  BY <1>1 DEF sourceVars, Drops, Collected, Moments
<1>3. Collected \in Seq(SUBSET Keys)
  <2>1. SubSeq(rawPages, 1, Len(saved.listed)) \in Seq(SUBSET Keys)
    <3>1. Len(saved.listed) \in Nat /\ Len(saved.listed) <= Len(rawPages) /\ Len(rawPages) \in Nat
      BY RunNow DEF ExportInv, PagesAgree
    <3>2. \A i \in 1..Len(saved.listed) : rawPages[i] \in SUBSET Keys
      BY <3>1, RunNow
    <3> QED
      BY <3>1, <3>2, RunNow, SubSeqProperties
  <2> QED
    BY <2>1, RunNow DEF Collected
<1>4. ExportTypes'
  <2>1. capture' \in [at : ExportPhases, work : States, rows : SUBSET Keys]
    BY <1>1, RunNow DEF ExportPhases
  <2> QED
    BY <1>1, <1>3, <2>1 DEF ExportInv, ExportTypes, sourceVars
<1>5. Reaches(saved)' /\ PagesAgree'
  BY <1>1, <1>2 DEF ExportInv, Reaches, PagesAgree, sourceVars
<1>6. RunIsSound'
  BY <1>1, <1>2 DEF RunIsSound, Runs
<1>7. ExportedIsSaved'
  <2>1. exported = NothingExported \/ normal' = normal
    BY <1>1 DEF ExportInv, ExportedIsSaved
  <2>2. normal' = normal => (InOrder(normal)' <=> InOrder(normal))
    BY <1>2 DEF InOrder, Apart
  <2> QED
    BY <1>1, <1>2, <2>1, <2>2 DEF ExportInv, ExportedIsSaved
<1> QED
  BY <1>4, <1>5, <1>6, <1>7 DEF ExportInv

LEMMA ExportKeeps == ASSUME ExportInv, Export PROVE ExportInv'
<1>1. /\ UNCHANGED <<sourceVars, saved, rawPages, normal, accepted>>
      /\ exported' = [state |-> saved, normal |-> normal] /\ sealed' = ~Moments
      /\ saved.complete /\ normal = Collected
      /\ capture.at = "exporting"
  BY DEF Export, ExportInv, RunIsSound, Runs
<1>2. (Drops' <=> Drops) /\ NoState' = NoState /\ Collected' = Collected /\ NothingExported' = NothingExported
  BY <1>1 DEF sourceVars, Drops, Collected, Moments
<1>3. capture' \in [at : ExportPhases, work : States, rows : SUBSET Keys]
      /\ capture'.at \in {"sealing", "idle"}
  <2>1. CASE Moments
    BY <1>1, <2>1, RunNow DEF Export, Goes, ExportPhases
  <2>2. CASE ~Moments
    BY <1>1, <2>2, ExportNumbers DEF Export, Ends, NotRunning, ExportPhases
  <2> QED
    BY <2>1, <2>2
<1>4. ExportTypes'
  BY <1>1, <1>3 DEF ExportInv, ExportTypes, sourceVars
<1>5. Reaches(saved)' /\ PagesAgree'
  BY <1>1, <1>2 DEF ExportInv, Reaches, PagesAgree, sourceVars
<1>6. RunIsSound'
  BY <1>1, <1>2, <1>3 DEF RunIsSound, Runs
<1>7. ExportedIsSaved'
  <2>1. exported'.state = saved /\ exported' # NothingExported
    BY <1>1 DEF NothingExported, NoState
  <2>2. InOrder(normal)' <=> InOrder(normal)
    BY <1>1, <1>2 DEF InOrder, Apart
  <2> QED
    BY <1>1, <1>2, <2>1, <2>2 DEF ExportInv, ExportedIsSaved
<1> QED
  BY <1>4, <1>5, <1>6, <1>7 DEF ExportInv

LEMMA ExportStepKeeps == ASSUME ExportInv, [ExportNext]_exportVars PROVE ExportInv'
<1>1. CASE UNCHANGED exportVars
  <2>1. /\ UNCHANGED <<sourceVars, saved, rawPages, normal, exported, sealed, accepted, capture>>
    BY <1>1 DEF exportVars
  <2>2. (Drops' <=> Drops) /\ Collected' = Collected /\ (InOrder(normal)' <=> InOrder(normal))
    BY <2>1 DEF sourceVars, Drops, Collected, Moments, InOrder, Apart
  <2>3. (PageIsSound(capture.rows)' <=> PageIsSound(capture.rows))
        /\ (Reaches(capture.work)' <=> Reaches(capture.work))
    BY <2>1, <2>2 DEF PageIsSound, PageEnd, Reaches, sourceVars, Asked
  <2>4. ExportTypes' /\ Reaches(saved)' /\ PagesAgree'
    BY <2>1, <2>2 DEF ExportInv, ExportTypes, Reaches, PagesAgree, sourceVars
  <2>5. RunIsSound' /\ ExportedIsSaved'
    BY <2>1, <2>2, <2>3 DEF ExportInv, RunIsSound, Runs, ExportedIsSaved
  <2> QED
    BY <2>4, <2>5 DEF ExportInv
<1>2. CASE ExportNext
  BY <1>2, SourceChangeKeeps, BeginExportKeeps, CountExpectedKeeps, ResumeExportKeeps,
     FetchRowsKeeps, FetchNothingKeeps, WritePageKeeps, RecordPageKeeps, NormalizeKeeps,
     ExportKeeps, SealKeeps, KillExportKeeps, VerifyKeeps DEF ExportNext, ExportRunStep
<1> QED
  BY <1>1, <1>2

\* What the invariant says of a report that says verified: the rows of the export
\* are in order, and it is made of the pages of a state that has reached the end.
LEMMA ExportSuffices == ExportInv => ExportsAreFaithful
<1> SUFFICES ASSUME ExportInv PROVE ExportsAreFaithful
  OBVIOUS
<1>1. ExportTypeOK
  <2>1. \A s \in States :
          /\ s.upper \in Keys \cup {0} /\ s.cursor \in Keys \cup {0}
          /\ s.expected \in 0..Cardinality(Keys) \cup {Unknown}
          /\ s.missing \subseteq Keys /\ s.complete \in BOOLEAN
    <3>1. \A e \in 0..(Cardinality(Keys) + 1) : e \in 0..Cardinality(Keys) \cup {Unknown}
      BY ExportNumbers DEF Unknown
    <3> QED
      BY <3>1 DEF States
  <2>2. exported.state \in States
    BY ExportNumbers DEF ExportInv, ExportTypes, ExportedIsSaved, NothingExported
  <2>3. \A i \in DOMAIN rawPages : rawPages[i] \subseteq Keys
    BY RunNow
  <2>4. /\ entity \in Entities /\ {source, steady, ever} \subseteq SUBSET Keys
        /\ {sealed, accepted} \subseteq BOOLEAN /\ capture.at \in ExportPhases
    BY DEF ExportInv, ExportTypes
  <2> QED
    BY <2>1, <2>2, <2>3, <2>4, RunNow DEF ExportTypeOK, ExportPhases
<1>2. ASSUME accepted
      PROVE  /\ saved.complete /\ normal = Collected /\ InOrder(normal) /\ normal \in Seq(SUBSET Keys)
             /\ \A k \in steady : \E i \in DOMAIN normal : k \in normal[i]
             /\ \A i \in DOMAIN normal : normal[i] \subseteq ever
  <2>1. /\ saved.complete /\ normal = Collected /\ InOrder(normal) /\ normal \in Seq(SUBSET Keys)
        /\ \A k \in steady : \E i \in DOMAIN saved.listed : k \in saved.listed[i]
        /\ \A i \in DOMAIN rawPages : rawPages[i] \subseteq ever
    BY <1>2 DEF ExportInv, ExportTypes, ExportedIsSaved, Reaches, PagesAgree, Got
  <2>2. DOMAIN saved.listed = 1..Len(saved.listed) /\ DOMAIN rawPages = 1..Len(rawPages)
        /\ Len(saved.listed) \in Nat /\ Len(rawPages) \in Nat /\ Len(saved.listed) <= Len(rawPages)
    BY RunNow DEF ExportInv, PagesAgree
  <2>3. /\ DOMAIN saved.listed \subseteq DOMAIN normal
        /\ DOMAIN normal \subseteq DOMAIN rawPages
        /\ \A i \in DOMAIN normal : normal[i] = rawPages[i]
    <3>1. CASE Moments
      <4>1. normal = SubSeq(rawPages, 1, Len(saved.listed))
        BY <2>1, <3>1 DEF Collected
      <4>2. DOMAIN normal = 1..Len(saved.listed)
            /\ \A i \in 1..Len(saved.listed) : normal[i] = rawPages[i]
        BY <2>2, <4>1, RunNow
      <4> QED
        BY <2>2, <4>2
    <3>2. CASE ~Moments
      BY <2>1, <2>2, <3>2 DEF Collected
    <3> QED
      BY <3>1, <3>2
  <2>4. \A i \in DOMAIN saved.listed : normal[i] = saved.listed[i]
    BY <2>3 DEF ExportInv, PagesAgree
  <2> QED
    BY <2>1, <2>3, <2>4
<1>3. NothingLost
  BY <1>2 DEF NothingLost, Range
<1>4. EachRowOnce
  <2> SUFFICES ASSUME accepted, NEW i \in DOMAIN normal, NEW j \in DOMAIN normal, i # j,
                      NEW k \in normal[i], k \in normal[j]
               PROVE  FALSE
    BY DEF EachRowOnce
  <2>1. i \in Nat /\ j \in Nat /\ k \in Nat
    <3>1. normal \in Seq(SUBSET Keys)
      BY <1>2
    <3>2. i \in Nat /\ j \in Nat /\ k \in Keys
      BY <3>1
    <3> QED
      BY <3>2, ExportNumbers
  <2>2. i < j \/ j < i
    BY <2>1
  <2>3. Apart(k, k)
    BY <1>2, <2>2 DEF InOrder
  <2> QED
    BY <2>1, <2>3 DEF Apart
<1>5. StateHasItsPages
  BY DEF StateHasItsPages, Trusted, ExportInv, PagesAgree
<1> QED
  BY <1>1, <1>3, <1>4, <1>5 DEF ExportsAreFaithful

\* The states and pages of an export agree with what the invariant says of them,
\* at every moment of every sequence of runs, whichever are killed.
THEOREM ExportInvariance == ExportSpec => []ExportInv
<1>1. ExportInit => ExportInv
  BY ExportInitially
<1>2. ExportInv /\ [ExportNext]_exportVars => ExportInv'
  BY ExportStepKeeps
<1> QED
  BY <1>1, <1>2, PTL DEF ExportSpec

\* A verified export has every row that was at Compass all the time, no row that
\* never was, and each once; its state lists the pages that are on disk.
THEOREM ExportsStayFaithful == ExportSpec => []ExportsAreFaithful
BY ExportInvariance, ExportSuffices, PTL
-------------------------------------------------------------------------------
(* The capture of the POAPs.                                                 *)

ShardStates == [cursor : Nat, rows : Nat, finished : BOOLEAN, count : Nat]
RunPhases == {"", "create", "fill", "read", "count", "reset", "finish", "publish", "ask"}
Runnings == [tool : {"none", "capture", "drops", "build"}, at : RunPhases, attempt : 0..2,
             todo : SUBSET ShardIds, off : SUBSET ShardIds]
DropFiles == [stage : {"absent", "tables", "ready"}, from : Nat, requested : SUBSET DropsOf(Poaps),
              asked : SUBSET DropsOf(Poaps), captured : SUBSET DropsOf(Poaps)]
Builds == [state : {"absent", "partial", "built"}, edition : Nat, drops : Nat]

\* A shard has read everything up to its cursor, and counted what it has read.
ShardHas(s, c, T, K) ==
  /\ LowerOf(s) <= c.cursor
  /\ Cardinality(Within(T, s)) = c.rows
  /\ \A p \in Within(T, s) : p <= c.cursor
  /\ \A p \in Within(K, s) : p <= c.cursor \/ c.finished => p \in T

ShardsAreSound == \A s \in ShardIds : ShardHas(s, shards[s], tokens, kept)

AllShardsAgree ==
  \A s \in ShardIds : shards[s].finished /\ shards[s].count = shards[s].rows
                      /\ shards[s].count # NotCounted

CompassTypes ==
  /\ poaps \in SUBSET Poaps /\ kept \subseteq poaps /\ poaps \subseteq known /\ known \subseteq Poaps
  /\ tokens \subseteq known
  /\ stage \in {"absent", "tables", "ready"} /\ bound \in Poaps \cup {0}
  /\ shards \in [ShardIds -> ShardStates] /\ reconciled \in SUBSET ((1..2) \X ShardIds)
  /\ edition \in Nat /\ published \in Nat /\ dropsManifest \in Nat /\ altered \in BOOLEAN
  /\ drops \in DropFiles /\ build \in Builds /\ running \in Runnings

\* The rows of the file are those of its shards.
FileIsSound ==
  /\ \A p \in tokens : p <= bound
  /\ stage # "ready" => tokens = {}
  /\ stage # "absent" \/ Works("capture", "create") => \A p \in kept : p <= bound
  /\ stage = "ready" => ShardsAreSound

\* What each step of a capture finds, when nothing else runs.
CaptureIsSound ==
  running.tool = "capture" =>
  /\ running.at \in {"create", "fill", "read", "count", "reset", "finish", "publish"}
  /\ running.at = "create" => stage = "absent"
  /\ running.at = "fill" => stage = "tables"
  /\ running.at \in {"read", "count", "reset", "finish", "publish"} => stage = "ready"
  /\ running.at # "publish" => ~Matches
  /\ running.at \in {"count", "reset", "finish"} => \A s \in ShardIds : shards[s].finished \/ (running.at = "reset" /\ s \notin running.off)
  /\ running.at = "count" => \A s \in ShardIds \ (running.todo \cup running.off) :
        shards[s].count = shards[s].rows
  /\ running.at = "reset" => running.off # {} /\ running.attempt < 2
  /\ running.at = "finish" => \A s \in ShardIds : shards[s].count = shards[s].rows
  /\ running.at = "publish" => AllShardsAgree /\ ~altered /\ edition # 0

EditionsAgree ==
  /\ published <= edition
  /\ published # 0 => stage = "ready"
  /\ Matches => AllShardsAgree
  /\ running.tool \in {"drops", "build"} => Matches
  /\ running.tool = "drops" => dropsManifest = 0 /\ running.at \in {"fill", "ask"}
  /\ Works("drops", "fill") => drops.stage = "tables"
  /\ Works("drops", "ask") => drops.stage = "ready" /\ drops.from = published

\* The files made of the capture are of the edition they name.
FilesAgree ==
  /\ drops.captured = drops.asked \ Unlisted /\ drops.asked \subseteq drops.requested
  /\ drops.stage # "ready" => drops.asked = {}
  /\ drops.from <= published
  /\ drops.stage = "ready" /\ Matches /\ drops.from = published => drops.requested = DropsOf(tokens)
  /\ dropsManifest # 0 => /\ drops.stage = "ready" /\ dropsManifest = drops.from
                          /\ drops.asked = drops.requested
  /\ running.tool = "build" => dropsManifest # 0
  /\ build.state = "built" => build.edition <= published /\ build.edition # 0 /\ dropsManifest # 0
  /\ build.state = "built" /\ build.edition = published /\ Matches =>
        drops.captured \subseteq DropsOf(tokens)
  /\ packed # Nothing => packed.edition = packed.built

CompassInv == CompassTypes /\ FileIsSound /\ CaptureIsSound /\ EditionsAgree /\ FilesAgree

-------------------------------------------------------------------------------
LEMMA PoapNumbers ==
  /\ \A p \in Poaps : p \in Nat /\ p > 0
  /\ bound \in Poaps \cup {0} => bound \in Nat
  /\ \A S \in SUBSET Poaps : S \in SUBSET Nat /\ IsFiniteSet(S) /\ Cardinality(S) \in Nat
                              /\ Cardinality(S) <= Cardinality(Poaps)
  /\ NotCounted \in Nat
<1>1. \A p \in Poaps : p \in Nat /\ p > 0
  BY CompassConstants
<1>2. \A S \in SUBSET Poaps : S \in SUBSET Nat /\ IsFiniteSet(S) /\ Cardinality(S) \in Nat
                              /\ Cardinality(S) <= Cardinality(Poaps)
  BY CompassConstants, FS_Subset, FS_CardinalityType
<1>3. Cardinality(Poaps) \in Nat
  BY <1>2
<1> QED
  BY <1>1, <1>2, <1>3 DEF NotCounted

\* The two shards are what is not beyond the bound, each its half.
LEMMA Halves ==
  ASSUME bound \in Nat
  PROVE  /\ LowerOf(0) = 0 /\ UpperOf(0) = LowerOf(1) /\ UpperOf(1) = bound
         /\ \A s \in ShardIds : LowerOf(s) \in Nat /\ UpperOf(s) \in Nat /\ LowerOf(s) <= UpperOf(s)
         /\ \A S \in SUBSET Nat : \A p \in S : p > 0 /\ p <= bound => \E s \in ShardIds : p \in Within(S, s)
         /\ \A S, T : S \subseteq Nat /\ T \subseteq Nat => Within(S, 0) \cap Within(T, 1) = {}
<1>1. /\ LowerOf(0) = 0 /\ LowerOf(1) = bound \div 2 /\ UpperOf(0) = bound \div 2
      /\ UpperOf(1) = bound
  <2>1. (bound * 0) \div 2 = 0 /\ (bound * 1) \div 2 = bound \div 2 /\ (bound * (0 + 1)) \div 2 = bound \div 2
    OBVIOUS
  <2>2. (bound * (1 + 1)) \div 2 = bound
    OBVIOUS
  <2> QED
    BY <2>1, <2>2 DEF LowerOf, UpperOf
<1>2. bound \div 2 \in Nat /\ bound \div 2 <= bound
  OBVIOUS
<1>3. \A S \in SUBSET Nat : \A p \in S : p > 0 /\ p <= bound => \E s \in ShardIds : p \in Within(S, s)
  <2> SUFFICES ASSUME NEW S \in SUBSET Nat, NEW p \in S, p > 0, p <= bound
               PROVE  p \in Within(S, 0) \/ p \in Within(S, 1)
    BY DEF ShardIds
  <2> QED
    BY <1>1, <1>2 DEF Within
<1>4. \A S, T : S \subseteq Nat /\ T \subseteq Nat => Within(S, 0) \cap Within(T, 1) = {}
  <2> SUFFICES ASSUME NEW S, NEW T, S \subseteq Nat, T \subseteq Nat, NEW p,
                      p \in Within(S, 0), p \in Within(T, 1)
               PROVE  FALSE
    OBVIOUS
  <2>1. p \in Nat /\ p <= bound \div 2 /\ bound \div 2 < p
    BY <1>1 DEF Within
  <2> QED
    BY <1>2, <2>1
<1> QED
  BY <1>1, <1>2, <1>3, <1>4 DEF ShardIds

LEMMA UpToBound ==
  ASSUME bound \in Nat, NEW s \in ShardIds
  PROVE  UpperOf(s) \in Nat /\ UpperOf(s) <= bound
<1>1. s = 0 \/ s = 1
  BY DEF ShardIds
<1>2. LowerOf(1) \in Nat /\ UpperOf(1) \in Nat /\ LowerOf(1) <= UpperOf(1)
  BY Halves DEF ShardIds
<1> QED
  BY <1>1, <1>2, Halves

LEMMA ApartShards ==
  ASSUME bound \in Nat, NEW s \in ShardIds, NEW t \in ShardIds, s # t, NEW S \in SUBSET Nat, NEW T \in SUBSET Nat
  PROVE  Within(S, s) \cap Within(T, t) = {}
<1>1. (s = 0 /\ t = 1) \/ (s = 1 /\ t = 0)
  BY DEF ShardIds
<1> QED
  BY <1>1, Halves

\* A page: the rows of a shard after its cursor.
LEMMA PageOfShard ==
  ASSUME bound \in Nat, NEW s \in ShardIds, NEW c \in ShardStates, NEW T \in SUBSET Poaps,
         NEW K \in SUBSET Poaps, NEW P \in SUBSET Poaps, K \subseteq P, ShardHas(s, c, T, K), P = poaps,
         c = shards[s], NEW d \in ShardStates,
         d = IF PageOf(s) = {} THEN [c EXCEPT !.finished = TRUE]
             ELSE [c EXCEPT !.cursor = Max(PageOf(s)), !.rows = @ + Cardinality(PageOf(s))]
  PROVE  ShardHas(s, d, T \cup PageOf(s), K) /\ PageOf(s) \subseteq Within(P, s)
<1> DEFINE A == AfterCursorOf(s)
           Q == PageOf(s)
<1>1. A \in SUBSET Nat /\ IsFiniteSet(A) /\ A \subseteq Within(P, s) /\ A \in SUBSET Poaps
  <2>1. A \subseteq Within(P, s) /\ A \in SUBSET Poaps
    BY DEF AfterCursorOf, Within
  <2> QED
    BY <2>1, PoapNumbers
<1>2. Q = FirstN(A, PagePoaps)
  BY DEF PageOf, FirstN
<1>3. /\ Q \in SUBSET A /\ (A # {} => Q # {})
      /\ \A k \in Q : \A j \in A : j <= k => j \in Q
  BY <1>1, <1>2, CompassConstants, FirstOf
<1>4. \A p \in Q : p > c.cursor /\ p \in Within(P, s)
  BY <1>1, <1>3 DEF AfterCursorOf
<1>5. c.cursor \in Nat /\ c.rows \in Nat /\ LowerOf(s) \in Nat
  BY Halves DEF ShardStates
<1>6. CASE Q = {}
  <2>1. d = [c EXCEPT !.finished = TRUE] /\ T \cup Q = T
    BY <1>6
  <2>2. d.cursor = c.cursor /\ d.rows = c.rows
    BY <2>1 DEF ShardStates
  <2>3. ASSUME NEW p \in Within(K, s) PROVE p \in T
    <3>1. p \in Within(P, s) /\ p \in Nat
      BY PoapNumbers DEF Within
    <3>2. ~(p > c.cursor)
      BY <1>3, <1>6, <3>1 DEF AfterCursorOf
    <3> QED
      BY <1>5, <3>1, <3>2 DEF ShardHas
  <2> QED
    BY <1>6, <2>1, <2>2, <2>3 DEF ShardHas
<1>7. CASE Q # {}
  <2> DEFINE m == Max(Q)
  <2>1. d = [c EXCEPT !.cursor = m, !.rows = c.rows + Cardinality(Q)]
    BY <1>7
  <2>2. IsFiniteSet(Q) /\ Q \in SUBSET Nat /\ Cardinality(Q) \in Nat /\ Q \in SUBSET Poaps
    BY <1>1, <1>3, PoapNumbers
  <2>3. m \in Q /\ m \in Nat /\ \A p \in Q : p <= m
    BY <1>7, <2>2, MaxOf
  <2> HIDE DEF m
  <2>4. d.cursor = m /\ d.rows = c.rows + Cardinality(Q) /\ d.finished = c.finished
    BY <2>1 DEF ShardStates
  <2>5. m > c.cursor
    BY <1>4, <2>3
  <2>6. Within(T \cup Q, s) = Within(T, s) \cup Q
    BY <1>4 DEF Within
  <2>7. Within(T, s) \cap Q = {}
    <3>1. \A p \in Within(T, s) : p <= c.cursor /\ p \in Nat
      BY PoapNumbers DEF ShardHas, Within
    <3>2. \A p \in Q : p \in Nat /\ ~(p <= c.cursor)
      BY <1>4, <1>5, <2>2
    <3> QED
      BY <3>1, <3>2
  <2>8. Cardinality(Within(T, s) \cup Q) = Cardinality(Within(T, s)) + Cardinality(Q)
    <3>1. Within(T, s) \in SUBSET Poaps
      BY DEF Within
    <3>2. IsFiniteSet(Within(T, s)) /\ Cardinality(Within(T, s)) \in Nat
      BY <3>1, PoapNumbers
    <3>3. Cardinality(Within(T, s) \cap Q) = 0
      BY <2>7, FS_EmptySet
    <3>4. Cardinality(Within(T, s) \cup Q)
            = Cardinality(Within(T, s)) + Cardinality(Q) - Cardinality(Within(T, s) \cap Q)
      BY <2>2, <3>2, FS_Union
    <3> QED
      BY <2>2, <3>2, <3>3, <3>4
  <2>9. \A p \in Within(T \cup Q, s) : p <= m
    <3>1. \A p \in Within(T, s) : p <= m
      <4>1. \A p \in Within(T, s) : p <= c.cursor /\ p \in Nat
        BY PoapNumbers DEF ShardHas, Within
      <4> QED
        BY <1>5, <2>3, <2>5, <4>1
    <3> QED
      BY <2>3, <2>6, <3>1
  <2>10. ASSUME NEW p \in Within(K, s), p <= m \/ d.finished PROVE p \in T \cup Q
    <3>1. p \in Within(P, s) /\ p \in Nat
      BY PoapNumbers DEF Within
    <3>2. CASE p <= c.cursor \/ c.finished
      BY <3>2 DEF ShardHas
    <3>3. CASE p > c.cursor /\ p <= m
      BY <1>3, <2>3, <3>1, <3>3 DEF AfterCursorOf
    <3>4. p <= c.cursor \/ p > c.cursor
      BY <1>5, <3>1
    <3>5. c.finished \/ p <= m
      BY <2>4, <2>10
    <3> QED
      BY <3>2, <3>3, <3>4, <3>5
  <2>11. LowerOf(s) <= m
    BY <1>5, <2>3, <2>5 DEF ShardHas
  <2> QED
    BY <1>1, <1>3, <2>4, <2>6, <2>8, <2>9, <2>10, <2>11 DEF ShardHas
<1> QED
  BY <1>6, <1>7

\* The states of the tools and files that are not there.
LEMMA NothingThere ==
  /\ Rest \in Runnings /\ Rest.tool = "none" /\ Rest.at = ""
  /\ NoDrops \in DropFiles /\ NoDrops.stage = "absent" /\ NoDrops.from = 0
  /\ NoDrops.requested = {} /\ NoDrops.asked = {} /\ NoDrops.captured = {}
  /\ Nothing \in Builds /\ Nothing.state = "absent"
<1>1. Rest.tool = "none" /\ Rest.at = "" /\ Rest.attempt = 0 /\ Rest.todo = {} /\ Rest.off = {}
  BY DEF Rest
<1>2. {} \in SUBSET ShardIds /\ 0 \in 0..2 /\ {} \in SUBSET DropsOf(Poaps)
  OBVIOUS
<1>3. Rest \in Runnings
  BY <1>2 DEF Rest, Runnings, RunPhases
<1>4. NoDrops \in DropFiles
  BY <1>2 DEF NoDrops, DropFiles
<1>5. Nothing \in Builds
  BY DEF Nothing, Builds
<1>6. /\ NoDrops.stage = "absent" /\ NoDrops.from = 0
      /\ NoDrops.requested = {} /\ NoDrops.asked = {} /\ NoDrops.captured = {}
      /\ Nothing.state = "absent"
  BY DEF NoDrops, Nothing
<1> QED
  BY <1>1, <1>3, <1>4, <1>5, <1>6

LEMMA CompassInitially == CompassInit => CompassInv
<1> SUFFICES ASSUME CompassInit PROVE CompassInv
  OBVIOUS
<1>1. /\ poaps \in SUBSET Poaps /\ kept = poaps /\ known = poaps
      /\ stage = "absent" /\ bound = 0 /\ shards = [s \in ShardIds |-> PendingShard(s)]
      /\ tokens = {} /\ reconciled = {} /\ edition = 0 /\ altered = FALSE /\ published = 0
      /\ drops = NoDrops /\ dropsManifest = 0 /\ build = Nothing /\ packed = Nothing
      /\ running = Rest
  BY DEF CompassInit
<1>2. shards \in [ShardIds -> ShardStates]
  <2>1. \A s \in ShardIds : LowerOf(s) \in Nat
    BY <1>1, Halves
  <2> QED
    BY <1>1, <2>1, PoapNumbers DEF PendingShard, ShardStates
<1>3. CompassTypes
  <2>1. drops \in DropFiles /\ build \in Builds /\ running \in Runnings
    BY <1>1, NothingThere
  <2> QED
    BY <1>1, <1>2, <2>1 DEF CompassTypes
<1>4. FileIsSound
  BY <1>1, NothingThere DEF FileIsSound, Works
<1>5. CaptureIsSound /\ EditionsAgree
  <2>1. running.tool = "none" /\ published = 0 /\ edition = 0
    BY <1>1, NothingThere
  <2>2. CaptureIsSound
    BY <2>1 DEF CaptureIsSound
  <2>3. EditionsAgree
    BY <2>1 DEF EditionsAgree, Works, Matches
  <2> QED
    BY <2>2, <2>3
<1>6. FilesAgree
  <2>1. /\ running.tool = "none" /\ published = 0 /\ dropsManifest = 0 /\ packed = Nothing
        /\ drops.stage = "absent" /\ drops.from = 0 /\ drops.captured = {} /\ drops.asked = {}
        /\ drops.requested = {} /\ build.state = "absent"
    BY <1>1, NothingThere
  <2> QED
    BY <2>1 DEF FilesAgree
<1> QED
  BY <1>3, <1>4, <1>5, <1>6 DEF CompassInv

\* Rows that go at Compass, and counts, change nothing of what a shard has.
LEMMA ShardsStaySound ==
  ASSUME ShardsAreSound, bound' = bound, tokens' = tokens, kept' \subseteq kept,
         \A s \in ShardIds : /\ shards'[s].cursor = shards[s].cursor
                             /\ shards'[s].rows = shards[s].rows
                             /\ shards'[s].finished = shards[s].finished
  PROVE  ShardsAreSound'
<1> SUFFICES ASSUME NEW s \in ShardIds PROVE ShardHas(s, shards[s], tokens, kept)'
  BY DEF ShardsAreSound
<1>1. /\ LowerOf(s)' = LowerOf(s) /\ UpperOf(s)' = UpperOf(s)
      /\ Within(tokens, s)' = Within(tokens, s)
      /\ \A p \in Within(kept, s)' : p \in Within(kept, s)
  BY DEF LowerOf, UpperOf, Within
<1>2. ShardHas(s, shards[s], tokens, kept)
  BY DEF ShardsAreSound
<1> QED
  BY <1>1, <1>2 DEF ShardHas

\* A step that leaves the capture and all files as they are.
LEMMA RestOfIt ==
  ASSUME CompassInv, UNCHANGED <<captureVars, derivedVars>>,
         running' \in Runnings, CaptureIsSound',
         Works("capture", "create")' => Works("capture", "create"),
         running'.tool \in {"drops", "build"} => Matches,
         running'.tool = "drops" => dropsManifest = 0 /\ running'.at \in {"fill", "ask"},
         Works("drops", "fill")' => drops.stage = "tables",
         Works("drops", "ask")' => drops.stage = "ready" /\ drops.from = published,
         running'.tool = "build" => dropsManifest # 0
  PROVE  CompassInv'
<1>1. Matches' <=> Matches
  BY DEF Matches, captureVars
<1>2. CompassTypes'
  BY DEF CompassInv, CompassTypes, captureVars, derivedVars
<1>3. FileIsSound'
  <2>1. stage = "ready" => ShardsAreSound'
    <3> SUFFICES ASSUME ShardsAreSound PROVE ShardsAreSound'
      BY DEF CompassInv, FileIsSound
    <3> QED
      BY ShardsStaySound DEF captureVars
  <2> QED
    BY <2>1 DEF CompassInv, FileIsSound, captureVars
<1>4. EditionsAgree'
  BY <1>1 DEF CompassInv, EditionsAgree, AllShardsAgree, Works, captureVars, derivedVars
<1>5. FilesAgree'
  BY <1>1 DEF CompassInv, FilesAgree, DropsOf, captureVars, derivedVars
<1> QED
  BY <1>2, <1>3, <1>4, <1>5 DEF CompassInv

LEMMA KillToolKeeps == ASSUME CompassInv, KillTool PROVE CompassInv'
<1>1. UNCHANGED <<captureVars, derivedVars>> /\ running' = Rest
  BY DEF KillTool, Ended
<1>2. running' \in Runnings /\ running'.tool = "none" /\ running'.at = ""
  BY <1>1, NothingThere
<1>3. CaptureIsSound'
  BY <1>2 DEF CaptureIsSound
<1> QED
  BY <1>1, <1>2, <1>3, RestOfIt DEF Works

LEMMA AllReadKeeps == ASSUME CompassInv, AllRead PROVE CompassInv'
<1>1. /\ UNCHANGED <<captureVars, derivedVars>> /\ Works("capture", "read")
      /\ \A s \in ShardIds : shards[s].finished
      /\ running' = [running EXCEPT !.at = "count", !.todo = ShardIds, !.off = {}]
  BY DEF AllRead
<1>2. running \in Runnings
  BY DEF CompassInv, CompassTypes
<1>3. /\ running' \in Runnings /\ running'.tool = "capture" /\ running'.at = "count"
      /\ running'.todo = ShardIds
  BY <1>1, <1>2 DEF Runnings, RunPhases, Works
<1>4. (Matches' <=> Matches) /\ stage' = stage /\ shards' = shards
  BY <1>1 DEF Matches, captureVars
<1>5. CaptureIsSound'
  BY <1>1, <1>3, <1>4 DEF CompassInv, CaptureIsSound, Works
<1> QED
  BY <1>1, <1>3, <1>5, RestOfIt DEF Works

LEMMA ComparedKeeps == ASSUME CompassInv, Compared PROVE CompassInv'
<1>1. /\ UNCHANGED <<captureVars, derivedVars>> /\ Works("capture", "count") /\ running.todo = {}
      /\ \/ running.off = {} /\ running' = [running EXCEPT !.at = "finish"]
         \/ running.off # {} /\ running.attempt < 2 /\ running' = [running EXCEPT !.at = "reset"]
         \/ running' = Rest
  <2>1. running.attempt \in 0..2
    BY DEF CompassInv, CompassTypes, Runnings
  <2>2. UNCHANGED <<captureVars, derivedVars>> /\ Works("capture", "count") /\ running.todo = {}
    BY DEF Compared
  <2>3. running.attempt >= 2 \/ running.attempt < 2
    BY <2>1
  <2> QED
    BY <2>2, <2>3 DEF Compared, Step, Ended
<1>2. running \in Runnings
  BY DEF CompassInv, CompassTypes
<1>3. (Matches' <=> Matches) /\ stage' = stage /\ shards' = shards
  BY <1>1 DEF Matches, captureVars
<1>4. CASE running' = Rest
  <2>1. running' \in Runnings /\ running'.tool = "none"
    BY <1>4, NothingThere
  <2>2. CaptureIsSound'
    BY <2>1 DEF CaptureIsSound
  <2> QED
    BY <1>1, <2>1, <2>2, RestOfIt DEF Works
<1>5. CASE running.off = {} /\ running' = [running EXCEPT !.at = "finish"]
  <2>1. running' \in Runnings /\ running'.tool = "capture" /\ running'.at = "finish"
    BY <1>1, <1>2, <1>5 DEF Runnings, RunPhases, Works
  <2>2. CaptureIsSound'
    BY <1>1, <1>3, <1>5, <2>1 DEF CompassInv, CaptureIsSound, Works
  <2> QED
    BY <1>1, <2>1, <2>2, RestOfIt DEF Works
<1>6. CASE running.off # {} /\ running.attempt < 2 /\ running' = [running EXCEPT !.at = "reset"]
  <2>1. /\ running' \in Runnings /\ running'.tool = "capture" /\ running'.at = "reset"
        /\ running'.off = running.off /\ running'.attempt = running.attempt
    BY <1>1, <1>2, <1>6 DEF Runnings, RunPhases, Works
  <2>2. CaptureIsSound'
    BY <1>1, <1>3, <1>6, <2>1 DEF CompassInv, CaptureIsSound, Works
  <2> QED
    BY <1>1, <2>1, <2>2, RestOfIt DEF Works
<1> QED
  BY <1>1, <1>4, <1>5, <1>6

\* The files made of a capture stay right when a step of the capture leaves the rows of a file
\* that matches as they are, or publishes another.
LEMMA FilesStay ==
  ASSUME CompassInv, UNCHANGED derivedVars, published' \in Nat, published <= published',
         Matches' => \/ Matches /\ tokens' = tokens /\ published' = published
                     \/ published < published',
         running'.tool = "build" => running.tool = "build"
  PROVE  FilesAgree'
<1>1. drops' = drops /\ dropsManifest' = dropsManifest /\ build' = build /\ packed' = packed
  BY DEF derivedVars
<1>2. FilesAgree /\ published \in Nat /\ drops.from \in Nat /\ build.edition \in Nat
  BY DEF CompassInv, CompassTypes, DropFiles, Builds
<1>3. /\ drops.captured = drops.asked \ Unlisted /\ drops.asked \subseteq drops.requested
      /\ drops.stage # "ready" => drops.asked = {}
      /\ drops.from <= published'
      /\ dropsManifest # 0 => /\ drops.stage = "ready" /\ dropsManifest = drops.from
                              /\ drops.asked = drops.requested
      /\ running'.tool = "build" => dropsManifest # 0
      /\ packed # Nothing => packed.edition = packed.built
  BY <1>2 DEF FilesAgree
<1>4. build.state = "built" => build.edition <= published' /\ build.edition # 0 /\ dropsManifest # 0
  BY <1>2 DEF FilesAgree
<1>5. ASSUME drops.stage = "ready", Matches', drops.from = published'
      PROVE  drops.requested = DropsOf(tokens')
  <2>1. ~(published < published')
    BY <1>2, <1>5 DEF FilesAgree
  <2>2. Matches /\ tokens' = tokens /\ published' = published
    BY <1>5, <2>1
  <2> QED
    BY <1>2, <1>5, <2>2 DEF FilesAgree
<1>6. ASSUME build.state = "built", build.edition = published', Matches'
      PROVE  drops.captured \subseteq DropsOf(tokens')
  <2>1. ~(published < published')
    BY <1>2, <1>6 DEF FilesAgree
  <2>2. Matches /\ tokens' = tokens /\ published' = published
    BY <1>6, <2>1
  <2> QED
    BY <1>2, <1>6, <2>2 DEF FilesAgree
<1>7. DropsOf(tokens)' = DropsOf(tokens')
  BY DEF DropsOf
<1> QED
  BY <1>1, <1>3, <1>4, <1>5, <1>6, <1>7 DEF FilesAgree

LEMMA CompassChangeKeeps == ASSUME CompassInv, CompassChange PROVE CompassInv'
<1>1. /\ poaps' \in SUBSET Poaps /\ kept' = kept \cap poaps' /\ known' = known \cup poaps'
      /\ UNCHANGED <<stage, bound, shards, tokens, reconciled, edition, altered, published,
                     derivedVars, running>>
  <2>1. PICK p \in Poaps : poaps' = SymDiff(poaps, {p})
    BY DEF CompassChange
  <2>2. poaps \in SUBSET Poaps
    BY DEF CompassInv, CompassTypes
  <2>3. poaps' \in SUBSET Poaps
    BY <2>1, <2>2 DEF SymDiff
  <2> QED
    BY <2>3 DEF CompassChange
<1>2. Matches' <=> Matches
  BY <1>1 DEF Matches
<1>3. CompassTypes'
  BY <1>1 DEF CompassInv, CompassTypes, derivedVars
<1>4. FileIsSound'
  <2>1. ASSUME ShardsAreSound PROVE ShardsAreSound'
    BY <1>1, <2>1, ShardsStaySound
  <2> QED
    BY <1>1, <2>1 DEF CompassInv, FileIsSound, Works
<1>5. CaptureIsSound'
  BY <1>1, <1>2 DEF CompassInv, CaptureIsSound, AllShardsAgree
<1>6. EditionsAgree'
  BY <1>1, <1>2 DEF CompassInv, EditionsAgree, AllShardsAgree, Works, derivedVars
<1>7. FilesAgree'
  <2>1. published \in Nat /\ published' = published /\ published <= published
    BY <1>1 DEF CompassInv, CompassTypes
  <2> QED
    BY <1>1, <1>2, <2>1, FilesStay
<1> QED
  BY <1>3, <1>4, <1>5, <1>6, <1>7 DEF CompassInv

LEMMA TakeBoundKeeps == ASSUME CompassInv, TakeBound PROVE CompassInv'
<1>1. /\ running = Rest /\ stage = "absent" /\ kept' = poaps /\ known' = poaps
      /\ running' = [Rest EXCEPT !.tool = "capture", !.at = "create"]
      /\ UNCHANGED <<poaps, stage, shards, tokens, reconciled, edition, altered, published,
                     derivedVars>>
  BY DEF TakeBound
<1>2. bound' \in Poaps \cup {0} /\ \A p \in poaps : p <= bound'
  <2>1. poaps \in SUBSET Poaps
    BY DEF CompassInv, CompassTypes
  <2>2. poaps \in SUBSET Nat /\ IsFiniteSet(poaps)
    BY <2>1, PoapNumbers
  <2>3. CASE poaps = {}
    BY <2>3 DEF TakeBound
  <2>4. CASE poaps # {}
    <3>1. bound' = Max(poaps)
      BY <2>4 DEF TakeBound
    <3> QED
      BY <2>1, <2>2, <2>4, <3>1, MaxOf
  <2> QED
    BY <2>3, <2>4
<1>3. tokens = {} /\ published = 0
  BY <1>1 DEF CompassInv, FileIsSound, EditionsAgree
<1>4. running' \in Runnings /\ running'.tool = "capture" /\ running'.at = "create"
  <2>1. PICK r : r = running'
    OBVIOUS
  <2>2. "create" \in RunPhases /\ r = [Rest EXCEPT !.tool = "capture", !.at = "create"]
    BY <1>1, <2>1 DEF RunPhases
  <2>3. r \in Runnings /\ r.tool = "capture" /\ r.at = "create"
    BY <2>2, NothingThere DEF Runnings, RunPhases
  <2> QED
    BY <2>1, <2>3
<1>5. ~Matches'
  BY <1>1, <1>3 DEF Matches
<1>6. CompassTypes'
  BY <1>1, <1>2, <1>3, <1>4 DEF CompassInv, CompassTypes, derivedVars
<1>7. FileIsSound'
  BY <1>1, <1>2, <1>3 DEF FileIsSound
<1>8. CaptureIsSound'
  BY <1>1, <1>4, <1>5 DEF CaptureIsSound
<1>9. EditionsAgree'
  BY <1>1, <1>3, <1>4, <1>5 DEF CompassInv, EditionsAgree, Works
<1>10. FilesAgree'
  <2>1. published' \in Nat /\ published <= published'
    BY <1>1, <1>3
  <2> QED
    BY <1>1, <1>4, <1>5, <2>1, FilesStay
<1> QED
  BY <1>6, <1>7, <1>8, <1>9, <1>10 DEF CompassInv

LEMMA CreateTablesKeeps == ASSUME CompassInv, CreateTables PROVE CompassInv'
<1>1. /\ running.tool = "capture" /\ running.at = "create" /\ stage' = "tables"
      /\ running' = [running EXCEPT !.at = "fill"]
      /\ UNCHANGED <<poaps, kept, known, bound, shards, tokens, reconciled, edition, altered,
                     published, derivedVars>>
  BY DEF CreateTables, Works, Step
<1>2. running' \in Runnings /\ running'.tool = "capture" /\ running'.at = "fill"
  <2>1. running \in Runnings
    BY DEF CompassInv, CompassTypes
  <2> QED
    BY <1>1, <2>1 DEF Runnings, RunPhases
<1>3. stage = "absent" /\ published = 0 /\ tokens = {}
  BY <1>1 DEF CompassInv, CaptureIsSound, FileIsSound, EditionsAgree
<1>4. ~Matches'
  BY <1>1, <1>3 DEF Matches
<1>5. CompassTypes'
  BY <1>1, <1>2 DEF CompassInv, CompassTypes, derivedVars
<1>6. FileIsSound'
  BY <1>1, <1>3 DEF CompassInv, FileIsSound, Works
<1>7. CaptureIsSound'
  BY <1>1, <1>2, <1>4 DEF CaptureIsSound
<1>8. EditionsAgree'
  BY <1>1, <1>2, <1>3, <1>4 DEF CompassInv, EditionsAgree, Works
<1>9. FilesAgree'
  <2>1. published' \in Nat /\ published <= published'
    BY <1>1, <1>3
  <2> QED
    BY <1>1, <1>2, <1>4, <2>1, FilesStay
<1> QED
  BY <1>5, <1>6, <1>7, <1>8, <1>9 DEF CompassInv

\* A shard that is to be read again from its start.
LEMMA PendingHas ==
  ASSUME bound \in Poaps \cup {0}, NEW s \in ShardIds, NEW T, NEW K, K \in SUBSET Poaps,
         Within(T, s) = {}
  PROVE  PendingShard(s) \in ShardStates /\ ShardHas(s, PendingShard(s), T, K)
<1>1. bound \in Nat /\ NotCounted \in Nat
  BY PoapNumbers
<1>2. LowerOf(s) \in Nat
  BY <1>1, Halves
<1>3. /\ PendingShard(s) \in ShardStates /\ PendingShard(s).cursor = LowerOf(s)
      /\ PendingShard(s).rows = 0 /\ PendingShard(s).finished = FALSE
  BY <1>1, <1>2 DEF PendingShard, ShardStates
<1>4. Cardinality(Within(T, s)) = 0
  BY FS_EmptySet
<1>5. ASSUME NEW p \in Within(K, s), p <= LowerOf(s) PROVE FALSE
  <2>1. p \in Nat /\ LowerOf(s) < p
    BY PoapNumbers DEF Within
  <2> QED
    BY <1>2, <1>5, <2>1
<1>6. LowerOf(s) <= LowerOf(s)
  BY <1>2
<1> QED
  BY <1>3, <1>4, <1>5, <1>6 DEF ShardHas

LEMMA FillTablesKeeps == ASSUME CompassInv, FillTables PROVE CompassInv'
<1>1. /\ running.tool = "capture" /\ running.at = "fill" /\ stage' = "ready"
      /\ running' = [running EXCEPT !.at = "read"]
      /\ shards' = [s \in ShardIds |-> PendingShard(s)]
      /\ UNCHANGED <<poaps, kept, known, bound, tokens, reconciled, edition, altered,
                     published, derivedVars>>
  BY DEF FillTables, Works, Step
<1>2. running' \in Runnings /\ running'.tool = "capture" /\ running'.at = "read"
  <2>1. running \in Runnings
    BY DEF CompassInv, CompassTypes
  <2> QED
    BY <1>1, <2>1 DEF Runnings, RunPhases
<1>3. stage = "tables" /\ published = 0 /\ tokens = {}
  BY <1>1 DEF CompassInv, CaptureIsSound, FileIsSound, EditionsAgree
<1>4. ~Matches'
  BY <1>1, <1>3 DEF Matches
<1>5. \A s \in ShardIds : PendingShard(s) \in ShardStates /\ ShardHas(s, PendingShard(s), tokens, kept)
  <2>1. kept \in SUBSET Poaps /\ bound \in Poaps \cup {0}
    BY DEF CompassInv, CompassTypes
  <2>2. PICK T, K : T = tokens /\ K = kept
    OBVIOUS
  <2>3. \A s \in ShardIds : Within(T, s) = {}
    BY <1>3, <2>2 DEF Within
  <2>4. \A s \in ShardIds : PendingShard(s) \in ShardStates /\ ShardHas(s, PendingShard(s), T, K)
    BY <2>1, <2>2, <2>3, PendingHas
  <2> QED
    BY <2>2, <2>4
<1>6. CompassTypes'
  <2>1. shards' \in [ShardIds -> ShardStates]
    BY <1>1, <1>5
  <2> QED
    BY <1>1, <1>2, <2>1 DEF CompassInv, CompassTypes, derivedVars
<1>7. FileIsSound'
  <2>1. ShardsAreSound'
    <3> SUFFICES ASSUME NEW s \in ShardIds PROVE ShardHas(s, shards[s], tokens, kept)'
      BY DEF ShardsAreSound
    <3>1. /\ LowerOf(s)' = LowerOf(s) /\ UpperOf(s)' = UpperOf(s)
          /\ Within(tokens, s)' = Within(tokens, s) /\ Within(kept, s)' = Within(kept, s)
          /\ shards'[s] = PendingShard(s)
      BY <1>1 DEF LowerOf, UpperOf, Within
    <3> HIDE DEF PendingShard
    <3> QED
      BY <1>1, <1>5, <3>1 DEF ShardHas
  <2> QED
    BY <1>1, <1>3, <2>1 DEF CompassInv, FileIsSound
<1>8. CaptureIsSound'
  BY <1>1, <1>2, <1>4 DEF CaptureIsSound
<1>9. EditionsAgree'
  BY <1>1, <1>2, <1>3, <1>4 DEF CompassInv, EditionsAgree, Works
<1>10. FilesAgree'
  <2>1. published' \in Nat /\ published <= published'
    BY <1>1, <1>3
  <2> QED
    BY <1>1, <1>2, <1>4, <2>1, FilesStay
<1> QED
  BY <1>6, <1>7, <1>8, <1>9, <1>10 DEF CompassInv

LEMMA ResumeCaptureKeeps == ASSUME CompassInv, ResumeCapture PROVE CompassInv'
<1>1. /\ running = Rest /\ stage = "ready"
      /\ altered' = (altered \/ \E s \in ShardIds : shards[s].count # NotCounted)
      /\ shards' = [s \in ShardIds |-> [shards[s] EXCEPT !.count = NotCounted]]
      /\ running' = [Rest EXCEPT !.tool = "capture", !.at = "read"]
      /\ UNCHANGED <<poaps, kept, known, stage, bound, tokens, reconciled, edition, published,
                     derivedVars>>
  BY DEF ResumeCapture
<1>2. running' \in Runnings /\ running'.tool = "capture" /\ running'.at = "read"
  <2>1. PICK r : r = running'
    OBVIOUS
  <2>2. "read" \in RunPhases /\ r = [Rest EXCEPT !.tool = "capture", !.at = "read"]
    BY <1>1, <2>1 DEF RunPhases
  <2>3. r \in Runnings /\ r.tool = "capture" /\ r.at = "read"
    BY <2>2, NothingThere DEF Runnings, RunPhases
  <2> QED
    BY <2>1, <2>3
<1>3. ~Matches'
  <2>1. CASE Matches
    <3>1. \E s \in ShardIds : shards[s].count # NotCounted
      <4>1. 0 \in ShardIds /\ \A s \in ShardIds : shards[s].count # NotCounted
        BY <2>1 DEF CompassInv, EditionsAgree, AllShardsAgree, ShardIds
      <4> QED
        BY <4>1
    <3>2. altered'
      BY <1>1, <3>1
    <3> QED
      BY <3>2 DEF Matches
  <2>2. CASE ~Matches
    <3>1. altered => altered'
      BY <1>1
    <3> QED
      BY <1>1, <2>2, <3>1 DEF Matches
  <2> QED
    BY <2>1, <2>2
<1>4. \A s \in ShardIds : /\ shards'[s] \in ShardStates /\ shards'[s].cursor = shards[s].cursor
                          /\ shards'[s].rows = shards[s].rows
                          /\ shards'[s].finished = shards[s].finished
  <2>1. \A s \in ShardIds : shards[s] \in ShardStates
    BY DEF CompassInv, CompassTypes
  <2> QED
    BY <1>1, <2>1, PoapNumbers DEF ShardStates
<1>5. CompassTypes'
  <2>1. shards' \in [ShardIds -> ShardStates]
    BY <1>1, <1>4
  <2>2. altered' \in BOOLEAN
    BY <1>1
  <2> QED
    BY <1>1, <1>2, <2>1, <2>2 DEF CompassInv, CompassTypes, derivedVars
<1>6. FileIsSound'
  <2>1. ShardsAreSound
    BY <1>1 DEF CompassInv, FileIsSound
  <2>2. ShardsAreSound'
    BY <1>1, <1>4, <2>1, ShardsStaySound
  <2> QED
    BY <1>1, <2>2 DEF CompassInv, FileIsSound
<1>7. CaptureIsSound'
  BY <1>1, <1>2, <1>3 DEF CaptureIsSound
<1>8. EditionsAgree'
  BY <1>1, <1>2, <1>3 DEF CompassInv, EditionsAgree, Works
<1>9. FilesAgree'
  <2>1. published' \in Nat /\ published <= published'
    BY <1>1 DEF CompassInv, CompassTypes
  <2> QED
    BY <1>1, <1>2, <1>3, <2>1, FilesStay
<1> QED
  BY <1>5, <1>6, <1>7, <1>8, <1>9 DEF CompassInv

\* What the rows of the one shard are is nothing to the other.
LEMMA OtherShardStays ==
  ASSUME bound \in Nat, NEW s \in ShardIds, NEW t \in ShardIds, s # t,
         NEW T \in SUBSET Nat, NEW U \in SUBSET Nat, NEW D \in SUBSET Nat, Within(D, s) = D,
         U = T \cup D \/ U = T \ D
  PROVE  Within(U, t) = Within(T, t)
<1>1. Within(D, s) \cap Within(T, t) = {} /\ Within(D, s) \cap Within(D, t) = {}
  BY ApartShards
<1> QED
  BY <1>1 DEF Within

LEMMA CapturePageKeeps ==
  ASSUME CompassInv, NEW s \in ShardIds, CapturePage(s)
  PROVE  CompassInv'
<1>1. /\ running.tool = "capture" /\ running.at = "read" /\ ~shards[s].finished
      /\ tokens' = tokens \cup PageOf(s)
      /\ UNCHANGED <<poaps, kept, known, stage, bound, reconciled, edition, altered, published,
                     derivedVars, running>>
  BY DEF CapturePage, Works
<1>2. /\ poaps \in SUBSET Poaps /\ kept \in SUBSET Poaps /\ tokens \in SUBSET Poaps
      /\ kept \subseteq poaps /\ poaps \subseteq known /\ tokens \subseteq known
      /\ bound \in Nat /\ shards \in [ShardIds -> ShardStates]
  BY PoapNumbers DEF CompassInv, CompassTypes
<1>3. stage = "ready" /\ ShardsAreSound /\ ~Matches
  BY <1>1 DEF CompassInv, CaptureIsSound, FileIsSound
<1>4. PICK d : d = AfterPage(s)
  OBVIOUS
<1>5. shards' = [shards EXCEPT ![s] = d]
  BY <1>4 DEF CapturePage
<1>6. PageOf(s) \subseteq Within(poaps, s)
  BY DEF PageOf, AfterCursorOf, Within
<1>7. d \in ShardStates
  <2>1. shards[s] \in ShardStates
    BY <1>2
  <2>2. PageOf(s) \in SUBSET Poaps
    BY <1>2, <1>6 DEF Within
  <2>3. /\ PageOf(s) \in SUBSET Nat /\ IsFiniteSet(PageOf(s)) /\ Cardinality(PageOf(s)) \in Nat
    BY <2>2, PoapNumbers
  <2>4. CASE PageOf(s) = {}
    BY <1>4, <2>1, <2>4 DEF AfterPage, ShardStates
  <2>5. CASE PageOf(s) # {}
    <3>1. Max(PageOf(s)) \in Nat
      BY <2>3, <2>5, MaxOf
    <3>2. d = [shards[s] EXCEPT !.cursor = Max(PageOf(s)),
                                !.rows = shards[s].rows + Cardinality(PageOf(s))]
      BY <1>4, <2>5 DEF AfterPage
    <3>3. shards[s].rows + Cardinality(PageOf(s)) \in Nat
      BY <2>1, <2>3 DEF ShardStates
    <3> QED
      BY <2>1, <3>1, <3>2, <3>3 DEF ShardStates
  <2> QED
    BY <2>4, <2>5
<1>8. ShardHas(s, d, tokens', kept)
  <2>1. PICK c, T, K, P : c = shards[s] /\ T = tokens /\ K = kept /\ P = poaps
    OBVIOUS
  <2>2. ShardHas(s, c, T, K)
    BY <1>3, <2>1 DEF ShardsAreSound
  <2>3. c \in ShardStates
    BY <1>2, <2>1
  <2>4. d = IF PageOf(s) = {} THEN [c EXCEPT !.finished = TRUE]
            ELSE [c EXCEPT !.cursor = Max(PageOf(s)), !.rows = @ + Cardinality(PageOf(s))]
    BY <1>4, <2>1 DEF AfterPage
  <2>5. ShardHas(s, d, T \cup PageOf(s), K)
    BY ZenonT(60), <1>2, <1>7, <2>1, <2>2, <2>3, <2>4, PageOfShard
  <2> QED
    BY <1>1, <2>1, <2>5
<1>9. Matches' <=> Matches
  BY <1>1 DEF Matches
<1>10. CompassTypes'
  <2>1. shards' \in [ShardIds -> ShardStates]
    BY <1>2, <1>5, <1>7
  <2>2. tokens' \subseteq known'
    <3>1. PageOf(s) \subseteq poaps
      BY <1>6 DEF Within
    <3> QED
      BY <1>1, <1>2, <3>1
  <2> QED
    BY <1>1, <2>1, <2>2 DEF CompassInv, CompassTypes, derivedVars
<1>11. FileIsSound'
  <2>1. ShardsAreSound'
    <3> SUFFICES ASSUME NEW t \in ShardIds PROVE ShardHas(t, shards[t], tokens, kept)'
      BY DEF ShardsAreSound
    <3>1. /\ LowerOf(t)' = LowerOf(t) /\ UpperOf(t)' = UpperOf(t)
          /\ Within(tokens, t)' = Within(tokens', t) /\ Within(kept, t)' = Within(kept, t)
      BY <1>1 DEF LowerOf, UpperOf, Within
    <3>2. CASE t = s
      <4>1. shards'[s] = d
        BY <1>2, <1>5
      <4> QED
        BY <1>1, <1>8, <3>1, <3>2, <4>1 DEF ShardHas
    <3>3. CASE t # s
      <4>1. shards'[t] = shards[t]
        BY <1>2, <1>5, <3>3
      <4>2. Within(tokens', t) = Within(tokens, t)
        <5>1. PICK T, D, U : T = tokens /\ D = PageOf(s) /\ U = tokens'
          OBVIOUS
        <5>2. D \in SUBSET Poaps /\ Within(D, s) = D
          BY <1>2, <1>6, <5>1 DEF Within
        <5>3. T \in SUBSET Nat /\ D \in SUBSET Nat /\ U \in SUBSET Nat /\ U = T \cup D
          BY <1>1, <1>2, <5>1, <5>2, PoapNumbers
        <5>4. Within(U, t) = Within(T, t)
          BY <1>2, <3>3, <5>2, <5>3, OtherShardStays
        <5> QED
          BY <5>1, <5>4
      <4>3. ShardHas(t, shards[t], tokens, kept)
        BY <1>3 DEF ShardsAreSound
      <4>4. \A p \in Within(kept, t) : p \in tokens => p \in tokens'
        BY <1>1
      <4> QED
        BY <1>1, <3>1, <4>1, <4>2, <4>3, <4>4 DEF ShardHas
    <3> QED
      BY <3>2, <3>3
  <2>2. \A p \in tokens' : p <= bound'
    <3>1. \A p \in tokens : p <= bound
      BY DEF CompassInv, FileIsSound
    <3>2. \A p \in PageOf(s) : p <= bound
      <4>1. UpperOf(s) \in Nat /\ UpperOf(s) <= bound
        BY <1>2, UpToBound
      <4>2. \A p \in PageOf(s) : p \in Nat /\ p <= UpperOf(s)
        BY <1>2, <1>6, PoapNumbers DEF Within
      <4> QED
        BY <1>2, <4>1, <4>2
    <3> QED
      BY <1>1, <3>1, <3>2
  <2> QED
    BY <1>1, <1>3, <2>1, <2>2 DEF CompassInv, FileIsSound
<1>12. CaptureIsSound'
  BY <1>1, <1>3, <1>9 DEF CaptureIsSound
<1>13. EditionsAgree'
  BY <1>1, <1>3, <1>9 DEF CompassInv, EditionsAgree, Works
<1>14. FilesAgree'
  <2>1. published' \in Nat /\ published <= published'
    BY <1>1 DEF CompassInv, CompassTypes
  <2> QED
    BY <1>1, <1>3, <1>9, <2>1, FilesStay
<1> QED
  BY <1>10, <1>11, <1>12, <1>13, <1>14 DEF CompassInv

LEMMA CountShardKeeps == ASSUME CompassInv, CountShard PROVE CompassInv'
<1>1. /\ running.tool = "capture" /\ running.at = "count" /\ running.todo # {}
      /\ UNCHANGED <<poaps, kept, known, stage, bound, tokens, reconciled, edition, altered,
                     published, derivedVars>>
  BY DEF CountShard, Works
<1>2. PICK s, n : s = Min(running.todo) /\ n = Cardinality(Within(poaps, s))
  OBVIOUS
<1>3. /\ shards' = [shards EXCEPT ![s].count = n]
      /\ running' = [running EXCEPT !.todo = @ \ {s},
                                    !.off = IF n = shards[s].rows THEN @ ELSE @ \cup {s}]
  BY <1>2 DEF CountShard
<1>4. running \in Runnings /\ shards \in [ShardIds -> ShardStates] /\ poaps \in SUBSET Poaps
  BY DEF CompassInv, CompassTypes
<1>5. s \in running.todo /\ s \in ShardIds
  <2>1. running.todo \in SUBSET ShardIds
    BY <1>4 DEF Runnings
  <2>2. running.todo \in SUBSET Nat
    BY <2>1 DEF ShardIds
  <2> QED
    BY <1>1, <1>2, <2>1, <2>2, MinOf
<1>6. n \in Nat
  <2>1. Within(poaps, s) \in SUBSET Poaps
    BY <1>4 DEF Within
  <2> QED
    BY <1>2, <2>1, PoapNumbers
<1>7. /\ \A t \in ShardIds : /\ shards'[t].cursor = shards[t].cursor
                              /\ shards'[t].rows = shards[t].rows
                              /\ shards'[t].finished = shards[t].finished
      /\ \A t \in ShardIds \ {s} : shards'[t].count = shards[t].count
      /\ shards' \in [ShardIds -> ShardStates] /\ shards'[s].count = n
  <2>1. shards[s] \in ShardStates
    BY <1>4, <1>5
  <2>2. PICK d : d = [shards[s] EXCEPT !.count = n]
    OBVIOUS
  <2>3. /\ d \in ShardStates /\ d.count = n /\ d.cursor = shards[s].cursor
        /\ d.rows = shards[s].rows /\ d.finished = shards[s].finished
    BY <1>6, <2>1, <2>2 DEF ShardStates
  <2>4. shards' = [shards EXCEPT ![s] = d]
    BY <1>3, <2>2
  <2>5. /\ shards' \in [ShardIds -> ShardStates] /\ shards'[s] = d
        /\ \A t \in ShardIds \ {s} : shards'[t] = shards[t]
    BY <1>4, <1>5, <2>3, <2>4
  <2> QED
    BY <2>3, <2>5
<1>8. PICK o \in SUBSET ShardIds : /\ o = running.off \/ o = running.off \cup {s}
                                   /\ n # shards[s].rows => s \in o
                                   /\ running' = [running EXCEPT !.todo = @ \ {s}, !.off = o]
  <2>1. running.off \in SUBSET ShardIds /\ running.off \cup {s} \in SUBSET ShardIds
    BY <1>4, <1>5 DEF Runnings
  <2>2. CASE n = shards[s].rows
    <3>1. running' = [running EXCEPT !.todo = @ \ {s}, !.off = running.off]
      BY <1>3, <2>2
    <3> QED
      BY <2>1, <2>2, <3>1
  <2>3. CASE n # shards[s].rows
    <3>1. running' = [running EXCEPT !.todo = @ \ {s}, !.off = running.off \cup {s}]
      BY <1>3, <2>3
    <3> QED
      BY <2>1, <2>3, <3>1
  <2> QED
    BY <2>2, <2>3
<1>9. /\ running' \in Runnings /\ running'.tool = "capture" /\ running'.at = "count"
      /\ running'.todo = running.todo \ {s} /\ running'.off = o
  <2>1. PICK w : w = running.todo \ {s}
    OBVIOUS
  <2>2. w \in SUBSET ShardIds
    BY <1>4, <2>1 DEF Runnings
  <2>3. running' = [running EXCEPT !.todo = w, !.off = o]
    BY <1>8, <2>1
  <2> QED
    BY <1>1, <1>4, <2>1, <2>2, <2>3 DEF Runnings
<1>10. ~Matches /\ (Matches' <=> Matches) /\ stage = "ready"
  BY <1>1 DEF CompassInv, CaptureIsSound, Matches
<1>11. CompassTypes'
  BY <1>1, <1>7, <1>9 DEF CompassInv, CompassTypes, derivedVars
<1>12. FileIsSound'
  <2>1. ShardsAreSound
    BY <1>10 DEF CompassInv, FileIsSound
  <2>2. ShardsAreSound'
    BY <1>1, <1>7, <2>1, ShardsStaySound
  <2> QED
    BY <1>1, <1>10, <2>2 DEF CompassInv, FileIsSound
<1>13. CaptureIsSound'
  <2>1. \A t \in ShardIds : shards[t].finished
    BY <1>1 DEF CompassInv, CaptureIsSound
  <2>2. \A t \in ShardIds \ (running.todo \cup running.off) : shards[t].count = shards[t].rows
    BY <1>1 DEF CompassInv, CaptureIsSound
  <2>3. ASSUME NEW t \in ShardIds \ ((running.todo \ {s}) \cup o)
        PROVE  shards'[t].count = shards'[t].rows
    <3>1. CASE t = s
      <4>1. n = shards[s].rows
        BY <1>8, <2>3, <3>1
      <4> QED
        BY <1>5, <1>7, <3>1, <4>1
    <3>2. CASE t # s
      <4>1. running.off \subseteq o
        BY <1>8
      <4>2. t \in ShardIds \ (running.todo \cup running.off) /\ t \in ShardIds \ {s}
        BY <2>3, <3>2, <4>1
      <4>3. shards[t].count = shards[t].rows
        BY <2>2, <4>2
      <4> QED
        BY <1>7, <4>2, <4>3
    <3> QED
      BY <3>1, <3>2
  <2>4. \A t \in ShardIds : shards'[t].finished
    BY <1>7, <2>1
  <2> QED
    BY <1>1, <1>9, <1>10, <2>3, <2>4 DEF CaptureIsSound
<1>14. EditionsAgree'
  BY <1>1, <1>9, <1>10 DEF CompassInv, EditionsAgree, Works
<1>15. FilesAgree'
  <2>1. published' \in Nat /\ published <= published'
    BY <1>1 DEF CompassInv, CompassTypes
  <2> QED
    BY <1>1, <1>9, <1>10, <2>1, FilesStay
<1> QED
  BY <1>11, <1>12, <1>13, <1>14, <1>15 DEF CompassInv

LEMMA ResetShardKeeps == ASSUME CompassInv, ResetShard PROVE CompassInv'
<1>1. PICK s, key : s = Min(running.off) /\ key = <<running.attempt + 1, s>>
  OBVIOUS
<1>2. /\ running.tool = "capture" /\ running.at = "reset"
      /\ UNCHANGED <<poaps, kept, known, stage, bound, edition, altered, published, derivedVars>>
  BY DEF ResetShard, Works
<1>3. \/ running' = Rest /\ UNCHANGED <<tokens, shards, reconciled>>
      \/ /\ reconciled' = reconciled \cup {key}
         /\ tokens' = ResetRows(s)
         /\ shards' = [shards EXCEPT ![s] = PendingShard(s)]
         /\ \/ running.off = {s} /\ running' = [running EXCEPT !.off = {}, !.attempt = @ + 1,
                                                                !.at = "read"]
            \/ running.off # {s} /\ running' = [running EXCEPT !.off = @ \ {s}]
  <2>1. CASE key \in reconciled
    BY <1>1, <2>1 DEF ResetShard, Ended
  <2>2. CASE key \notin reconciled
    <3>1. /\ reconciled' = reconciled \cup {key}
          /\ tokens' = ResetRows(s)
          /\ shards' = [shards EXCEPT ![s] = PendingShard(s)]
      BY <1>1, <2>2 DEF ResetShard
    <3>2. running' = IF running.off = {s}
                     THEN [running EXCEPT !.off = {}, !.attempt = @ + 1, !.at = "read"]
                     ELSE [running EXCEPT !.off = @ \ {s}]
      BY <1>1, <2>2 DEF ResetShard
    <3>3. \/ running.off = {s} /\ running' = [running EXCEPT !.off = {}, !.attempt = @ + 1,
                                                             !.at = "read"]
          \/ running.off # {s} /\ running' = [running EXCEPT !.off = @ \ {s}]
      BY <3>2
    <3> QED
      BY <3>1, <3>3
  <2> QED
    BY <2>1, <2>2
<1>4. CASE running' = Rest /\ UNCHANGED <<tokens, shards, reconciled>>
  <2>1. running' \in Runnings /\ running'.tool = "none"
    BY <1>4, NothingThere
  <2>2. CaptureIsSound'
    BY <2>1 DEF CaptureIsSound
  <2>3. UNCHANGED <<captureVars, derivedVars>>
    BY <1>2, <1>4 DEF captureVars
  <2> QED
    BY <2>1, <2>2, <2>3, RestOfIt DEF Works
<1>5. ASSUME reconciled' = reconciled \cup {key}, tokens' = ResetRows(s),
             shards' = [shards EXCEPT ![s] = PendingShard(s)],
             \/ running.off = {s} /\ running' = [running EXCEPT !.off = {}, !.attempt = @ + 1,
                                                                !.at = "read"]
             \/ running.off # {s} /\ running' = [running EXCEPT !.off = @ \ {s}]
      PROVE  CompassInv'
  <2>1. /\ running \in Runnings /\ shards \in [ShardIds -> ShardStates] /\ kept \in SUBSET Poaps
        /\ tokens \in SUBSET Poaps /\ bound \in Poaps \cup {0} /\ bound \in Nat
        /\ reconciled \in SUBSET ((1..2) \X ShardIds) /\ running.attempt \in 0..2
    BY PoapNumbers DEF CompassInv, CompassTypes, Runnings
  <2>2. running.off # {} /\ running.attempt < 2 /\ stage = "ready" /\ ~Matches
    BY <1>2 DEF CompassInv, CaptureIsSound
  <2>3. s \in running.off /\ s \in ShardIds
    <3>1. running.off \in SUBSET ShardIds
      BY <2>1 DEF Runnings
    <3>2. running.off \in SUBSET Nat
      BY <3>1 DEF ShardIds
    <3> QED
      BY <1>1, <2>2, <3>1, <3>2, MinOf
  <2>4. running.attempt + 1 \in 1..2 /\ running.attempt + 1 \in 0..2
    BY <2>1, <2>2
  <2>5. /\ running' \in Runnings /\ running'.tool = "capture"
        /\ \/ running'.at = "read"
           \/ /\ running'.at = "reset" /\ running'.off = running.off \ {s}
              /\ running'.off # {} /\ running'.attempt < 2
    <3>1. CASE running' = [running EXCEPT !.off = {}, !.attempt = @ + 1, !.at = "read"]
      <4>1. {} \in SUBSET ShardIds /\ "read" \in RunPhases
        BY DEF RunPhases
      <4>2. running' \in Runnings
        BY <2>1, <2>4, <3>1, <4>1 DEF Runnings
      <4>3. running'.tool = "capture" /\ running'.at = "read"
        BY <1>2, <2>1, <3>1 DEF Runnings
      <4> QED
        BY <4>2, <4>3
    <3>2. CASE running.off # {s} /\ running' = [running EXCEPT !.off = @ \ {s}]
      <4>1. PICK o : o = running.off \ {s}
        OBVIOUS
      <4>2. o \in SUBSET ShardIds /\ o # {}
        BY <2>1, <2>3, <3>2, <4>1 DEF Runnings
      <4>3. running' = [running EXCEPT !.off = o]
        BY <3>2, <4>1
      <4> QED
        BY <1>2, <2>1, <2>2, <4>1, <4>2, <4>3 DEF Runnings
    <3> QED
      BY <1>5, <3>1, <3>2
  <2>6. tokens' = tokens \ Within(Poaps, s) /\ Within(tokens', s) = {}
    BY <1>5, <2>1 DEF ResetRows, Within
  <2>7. PendingShard(s) \in ShardStates /\ ShardHas(s, PendingShard(s), tokens', kept)
    <3>1. PICK T, K : T = tokens' /\ K = kept
      OBVIOUS
    <3>2. PendingShard(s) \in ShardStates /\ ShardHas(s, PendingShard(s), T, K)
      BY <2>1, <2>3, <2>6, <3>1, PendingHas
    <3> QED
      BY <3>1, <3>2
  <2>8. PICK d : d = PendingShard(s)
    OBVIOUS
  <2>9. /\ shards' \in [ShardIds -> ShardStates] /\ shards'[s] = d
        /\ \A t \in ShardIds \ {s} : shards'[t] = shards[t]
    BY <1>5, <2>1, <2>3, <2>7, <2>8
  <2>10. ~Matches'
    BY <1>2, <2>2 DEF Matches
  <2>11. CompassTypes'
    <3>1. key \in (1..2) \X ShardIds
      BY <1>1, <2>3, <2>4
    <3>2. reconciled' \in SUBSET ((1..2) \X ShardIds)
      BY <1>5, <2>1, <3>1
    <3>3. tokens' \subseteq known'
      BY <1>2, <2>6 DEF CompassInv, CompassTypes
    <3> QED
      BY <1>2, <2>5, <2>9, <3>2, <3>3 DEF CompassInv, CompassTypes, derivedVars
  <2>12. FileIsSound'
    <3>1. ShardsAreSound'
      <4> SUFFICES ASSUME NEW t \in ShardIds PROVE ShardHas(t, shards[t], tokens, kept)'
        BY DEF ShardsAreSound
      <4>1. /\ LowerOf(t)' = LowerOf(t) /\ UpperOf(t)' = UpperOf(t)
            /\ Within(tokens, t)' = Within(tokens', t) /\ Within(kept, t)' = Within(kept, t)
        BY <1>2 DEF LowerOf, UpperOf, Within
      <4>2. CASE t = s
        <5>1. ShardHas(t, d, tokens', kept)
          BY <2>7, <2>8, <4>2
        <5> QED
          BY <1>2, <2>9, <4>1, <4>2, <5>1 DEF ShardHas
      <4>3. CASE t # s
        <5>1. shards'[t] = shards[t]
          BY <2>9, <4>3
        <5>2. PICK T, D, U : T = tokens /\ D = Within(Poaps, s) /\ U = tokens'
          OBVIOUS
        <5>3. Within(D, s) = D /\ D \in SUBSET Poaps
          BY <5>2 DEF Within
        <5>4. T \in SUBSET Nat /\ D \in SUBSET Nat /\ U \in SUBSET Nat /\ U = T \ D
          BY <2>1, <2>6, <5>2, <5>3, PoapNumbers
        <5>5. Within(U, t) = Within(T, t)
          BY <2>1, <2>3, <4>3, <5>3, <5>4, OtherShardStays
        <5>6. ShardHas(t, shards[t], tokens, kept)
          BY <1>2, <2>2 DEF CompassInv, FileIsSound, ShardsAreSound
        <5>7. \A p \in Within(kept, t) : p \in tokens => p \in tokens'
          <6>1. kept \in SUBSET Nat
            BY <2>1, PoapNumbers
          <6>2. \A p \in Within(kept, t) : p \in Within(T, t) => p \in U
            BY <5>5 DEF Within
          <6> QED
            BY <5>2, <6>2 DEF Within
        <5> QED
          BY <1>2, <4>1, <5>1, <5>2, <5>5, <5>6, <5>7 DEF ShardHas
      <4> QED
        BY <4>2, <4>3
    <3>2. \A p \in tokens' : p <= bound'
      BY <1>2, <2>6 DEF CompassInv, FileIsSound
    <3> QED
      BY <1>2, <2>2, <3>1, <3>2 DEF CompassInv, FileIsSound
  <2>13. CaptureIsSound'
    <3>1. CASE running'.at = "read"
      BY <1>2, <2>2, <2>5, <2>10, <3>1 DEF CaptureIsSound
    <3>2. CASE running'.at = "reset" /\ running'.off = running.off \ {s}
               /\ running'.off # {} /\ running'.attempt < 2
      <4>1. \A t \in ShardIds : shards[t].finished \/ t \notin running.off
        BY <1>2 DEF CompassInv, CaptureIsSound
      <4>2. \A t \in ShardIds : shards'[t].finished \/ t \notin running'.off
        BY <2>9, <3>2, <4>1
      <4> QED
        BY <1>2, <2>2, <2>5, <2>10, <3>2, <4>2 DEF CaptureIsSound
    <3> QED
      BY <2>5, <3>1, <3>2
  <2>14. EditionsAgree'
    BY <1>2, <2>2, <2>5, <2>10 DEF CompassInv, EditionsAgree, Works
  <2>15. FilesAgree'
    <3>1. published' \in Nat /\ published <= published'
      BY <1>2 DEF CompassInv, CompassTypes
    <3> QED
      BY <1>2, <2>5, <2>10, <3>1, FilesStay
  <2> QED
    BY <2>11, <2>12, <2>13, <2>14, <2>15 DEF CompassInv
<1> QED
  BY <1>3, <1>4, <1>5

LEMMA CloseCaptureKeeps == ASSUME CompassInv, CloseCapture PROVE CompassInv'
<1>1. /\ running.tool = "capture" /\ running.at = "finish" /\ Complete
      /\ edition' = edition + 1 /\ altered' = FALSE
      /\ running' = [running EXCEPT !.at = "publish"]
      /\ UNCHANGED <<poaps, kept, known, stage, bound, shards, tokens, reconciled, published,
                     derivedVars>>
  BY DEF CloseCapture, Works, Step
<1>2. running \in Runnings /\ edition \in Nat /\ published \in Nat
  BY DEF CompassInv, CompassTypes
<1>3. running' \in Runnings /\ running'.tool = "capture" /\ running'.at = "publish"
  BY <1>1, <1>2 DEF Runnings, RunPhases
<1>4. stage = "ready" /\ published <= edition /\ AllShardsAgree
  <2>1. \A s \in ShardIds : shards[s].finished /\ shards[s].count # NotCounted
    BY <1>1 DEF Complete
  <2>2. stage = "ready" /\ published <= edition /\ \A s \in ShardIds : shards[s].count = shards[s].rows
    BY <1>1 DEF CompassInv, CaptureIsSound, EditionsAgree
  <2> QED
    BY <2>1, <2>2 DEF AllShardsAgree
<1>5. ~Matches' /\ published' <= edition' /\ edition' \in Nat /\ edition' # 0
  BY <1>1, <1>2, <1>4 DEF Matches
<1>6. AllShardsAgree'
  BY <1>1, <1>4 DEF AllShardsAgree
<1>7. CompassTypes'
  BY <1>1, <1>3, <1>5 DEF CompassInv, CompassTypes, derivedVars
<1>8. FileIsSound'
  <2>1. ShardsAreSound
    BY <1>4 DEF CompassInv, FileIsSound
  <2>2. ShardsAreSound'
    BY <1>1, <2>1, ShardsStaySound
  <2> QED
    BY <1>1, <1>4, <2>2 DEF CompassInv, FileIsSound
<1>9. CaptureIsSound'
  BY <1>1, <1>3, <1>4, <1>5, <1>6 DEF CaptureIsSound
<1>10. EditionsAgree'
  BY <1>1, <1>3, <1>4, <1>5 DEF CompassInv, EditionsAgree, Works
<1>11. FilesAgree'
  <2>1. published' \in Nat /\ published <= published'
    BY <1>1, <1>2
  <2> QED
    BY <1>1, <1>3, <1>5, <2>1, FilesStay
<1> QED
  BY <1>7, <1>8, <1>9, <1>10, <1>11 DEF CompassInv

LEMMA PublishCaptureKeeps == ASSUME CompassInv, PublishCapture PROVE CompassInv'
<1>1. /\ running.tool = "capture" /\ running.at = "publish" /\ published' = edition
      /\ running' = Rest
      /\ UNCHANGED <<poaps, kept, known, stage, bound, shards, tokens, reconciled, edition,
                     altered, derivedVars>>
  BY DEF PublishCapture, Works, Ended
<1>2. /\ stage = "ready" /\ AllShardsAgree /\ ~altered /\ edition # 0 /\ published <= edition
      /\ edition \in Nat /\ published \in Nat
  BY <1>1 DEF CompassInv, CompassTypes, CaptureIsSound, EditionsAgree
<1>3. running' \in Runnings /\ running'.tool = "none"
  BY <1>1, NothingThere
<1>4. AllShardsAgree'
  BY <1>1, <1>2 DEF AllShardsAgree
<1>5. CompassTypes'
  BY <1>1, <1>2, <1>3 DEF CompassInv, CompassTypes, derivedVars
<1>6. FileIsSound'
  <2>1. ShardsAreSound
    BY <1>2 DEF CompassInv, FileIsSound
  <2>2. ShardsAreSound'
    BY <1>1, <2>1, ShardsStaySound
  <2> QED
    BY <1>1, <1>2, <2>2 DEF CompassInv, FileIsSound
<1>7. CaptureIsSound'
  BY <1>3 DEF CaptureIsSound
<1>8. EditionsAgree'
  <2>1. published' <= edition'
    BY <1>1, <1>2
  <2> QED
    BY <1>1, <1>2, <1>3, <1>4, <2>1 DEF EditionsAgree, Works
<1>9. FilesAgree'
  <2>1. published' \in Nat /\ published <= published'
    BY <1>1, <1>2
  <2>2. published' = published \/ published < published'
    BY <1>2, <2>1
  <2>3. published' = published => Matches
    BY <1>1, <1>2 DEF Matches
  <2> QED
    BY <1>1, <1>3, <2>1, <2>2, <2>3, FilesStay
<1> QED
  BY <1>5, <1>6, <1>7, <1>8, <1>9 DEF CompassInv

\* The tools that read a finished capture leave it as it is.
LEMMA CaptureStays ==
  ASSUME CompassInv, UNCHANGED captureVars, running' \in Runnings, running'.tool # "capture",
         drops' \in DropFiles, build' \in Builds, dropsManifest' \in Nat
  PROVE  /\ CompassTypes' /\ FileIsSound' /\ CaptureIsSound' /\ (Matches' <=> Matches)
         /\ (AllShardsAgree' <=> AllShardsAgree) /\ DropsOf(tokens)' = DropsOf(tokens)
         /\ published' = published /\ edition' = edition /\ stage' = stage /\ published \in Nat
<1>1. CompassTypes'
  BY DEF CompassInv, CompassTypes, captureVars
<1>2. FileIsSound'
  <2>1. ASSUME ShardsAreSound PROVE ShardsAreSound'
    BY <2>1, ShardsStaySound DEF captureVars
  <2> QED
    BY <2>1 DEF CompassInv, FileIsSound, Works, captureVars
<1>3. CaptureIsSound'
  BY DEF CaptureIsSound
<1>4. /\ Matches' <=> Matches
      /\ AllShardsAgree' <=> AllShardsAgree
      /\ DropsOf(tokens)' = DropsOf(tokens)
      /\ published' = published /\ edition' = edition /\ stage' = stage /\ published \in Nat
  BY DEF Matches, AllShardsAgree, DropsOf, captureVars, CompassInv, CompassTypes
<1> QED
  BY <1>1, <1>2, <1>3, <1>4

LEMMA StartDropsKeeps == ASSUME CompassInv, StartDrops PROVE CompassInv'
<1>1. /\ running = Rest /\ Matches /\ dropsManifest = 0
      /\ UNCHANGED captureVars /\ UNCHANGED <<dropsManifest, build, packed>>
  BY DEF StartDrops
<1>2. PICK a \in {"fill", "ask"} :
        /\ running' = [Rest EXCEPT !.tool = "drops", !.at = a]
        /\ \/ /\ a = "fill" /\ drops.stage = "absent"
              /\ drops' = [drops EXCEPT !.stage = "tables"]
           \/ a = "ask" /\ drops.stage = "ready" /\ drops.from = published /\ drops' = drops
  BY DEF StartDrops
<1>3. running' \in Runnings /\ running'.tool = "drops" /\ running'.at = a
  BY <1>2, NothingThere DEF Runnings, RunPhases
<1>4. drops \in DropFiles /\ build \in Builds /\ dropsManifest \in Nat /\ FilesAgree /\ EditionsAgree
  BY DEF CompassInv, CompassTypes
<1>5. /\ drops' \in DropFiles /\ drops'.from = drops.from /\ drops'.requested = drops.requested
      /\ drops'.asked = drops.asked /\ drops'.captured = drops.captured
      /\ a = "fill" => drops'.stage = "tables" /\ drops.stage = "absent"
      /\ a = "ask" => drops' = drops /\ drops.stage = "ready" /\ drops.from = published
  BY <1>2, <1>4 DEF DropFiles
<1>6. /\ CompassTypes' /\ FileIsSound' /\ CaptureIsSound' /\ (Matches' <=> Matches)
      /\ (AllShardsAgree' <=> AllShardsAgree) /\ DropsOf(tokens)' = DropsOf(tokens)
      /\ published' = published /\ edition' = edition /\ stage' = stage
  BY <1>1, <1>3, <1>4, <1>5, CaptureStays
<1>7. EditionsAgree'
  BY <1>1, <1>3, <1>4, <1>5, <1>6 DEF EditionsAgree, Works
<1>8. FilesAgree'
  <2>1. build.state # "built" /\ build' = build /\ packed' = packed /\ dropsManifest' = 0
    BY <1>1, <1>4 DEF FilesAgree
  <2>2. CASE a = "fill"
    BY <1>3, <1>4, <1>5, <1>6, <2>1, <2>2 DEF FilesAgree
  <2>3. CASE a = "ask"
    BY <1>3, <1>4, <1>5, <1>6, <2>1, <2>3 DEF FilesAgree
  <2> QED
    BY <2>2, <2>3
<1> QED
  BY <1>6, <1>7, <1>8 DEF CompassInv

LEMMA FillDropsKeeps == ASSUME CompassInv, FillDrops PROVE CompassInv'
<1>1. /\ running.tool = "drops" /\ running.at = "fill" /\ running' = [running EXCEPT !.at = "ask"]
      /\ drops' = [drops EXCEPT !.stage = "ready", !.from = published,
                                !.requested = DropsOf(tokens)]
      /\ UNCHANGED captureVars /\ UNCHANGED <<dropsManifest, build, packed>>
  BY DEF FillDrops, Works, Step
<1>2. /\ drops \in DropFiles /\ build \in Builds /\ dropsManifest \in Nat /\ FilesAgree /\ EditionsAgree
      /\ running \in Runnings /\ published \in Nat /\ tokens \in SUBSET Poaps
  BY DEF CompassInv, CompassTypes
<1>3. running' \in Runnings /\ running'.tool = "drops" /\ running'.at = "ask"
  BY <1>1, <1>2 DEF Runnings, RunPhases
<1>4. Matches /\ dropsManifest = 0 /\ drops.stage = "tables"
  BY <1>1, <1>2 DEF EditionsAgree, Works
<1>5. drops.asked = {} /\ drops.captured = {} /\ build.state # "built"
  BY <1>2, <1>4 DEF FilesAgree
<1>6. /\ drops' \in DropFiles /\ drops'.from = published /\ drops'.requested = DropsOf(tokens)
      /\ drops'.asked = {} /\ drops'.captured = {} /\ drops'.stage = "ready"
  <2>1. DropsOf(tokens) \in SUBSET DropsOf(Poaps)
    BY <1>2 DEF DropsOf
  <2> QED
    BY <1>1, <1>2, <1>5, <2>1 DEF DropFiles
<1>7. /\ CompassTypes' /\ FileIsSound' /\ CaptureIsSound' /\ (Matches' <=> Matches)
      /\ (AllShardsAgree' <=> AllShardsAgree) /\ DropsOf(tokens)' = DropsOf(tokens)
      /\ published' = published /\ edition' = edition /\ stage' = stage
  BY <1>1, <1>2, <1>3, <1>6, CaptureStays
<1>8. EditionsAgree'
  BY <1>1, <1>2, <1>3, <1>4, <1>6, <1>7 DEF EditionsAgree, Works
<1>9. FilesAgree'
  <2>1. drops'.from <= published' /\ dropsManifest' = 0 /\ build' = build /\ packed' = packed
    BY <1>1, <1>2, <1>4, <1>6, <1>7
  <2>2. drops'.captured = drops'.asked \ Unlisted /\ drops'.asked \subseteq drops'.requested
    BY <1>6
  <2> QED
    BY <1>2, <1>3, <1>5, <1>6, <1>7, <2>1, <2>2 DEF FilesAgree
<1> QED
  BY <1>7, <1>8, <1>9 DEF CompassInv

LEMMA AskDropKeeps == ASSUME CompassInv, AskDrop PROVE CompassInv'
<1>1. /\ running.tool = "drops" /\ running.at = "ask" /\ running' = running
      /\ UNCHANGED captureVars /\ UNCHANGED <<dropsManifest, build, packed>>
  BY DEF AskDrop, Works
<1>2. PICK d \in drops.requested \ drops.asked :
        drops' = [drops EXCEPT !.asked = @ \cup {d}, !.captured = @ \cup ({d} \ Unlisted)]
  BY DEF AskDrop
<1>3. /\ drops \in DropFiles /\ build \in Builds /\ dropsManifest \in Nat /\ FilesAgree /\ EditionsAgree
      /\ running \in Runnings
  BY DEF CompassInv, CompassTypes
<1>4. Matches /\ dropsManifest = 0 /\ drops.stage = "ready" /\ drops.from = published
  BY <1>1, <1>3 DEF EditionsAgree, Works
<1>5. build.state # "built"
  BY <1>3, <1>4 DEF FilesAgree
<1>6. PICK A, C : A = drops.asked \cup {d} /\ C = drops.captured \cup ({d} \ Unlisted)
  OBVIOUS
<1>7. A \in SUBSET DropsOf(Poaps) /\ C \in SUBSET DropsOf(Poaps)
  BY <1>2, <1>3, <1>6 DEF DropFiles
<1>8. /\ drops' \in DropFiles /\ drops'.from = drops.from /\ drops'.requested = drops.requested
      /\ drops'.asked = A /\ drops'.captured = C /\ drops'.stage = "ready"
  <2>1. drops' = [drops EXCEPT !.asked = A, !.captured = C]
    BY <1>2, <1>6
  <2> QED
    BY <1>3, <1>4, <1>7, <2>1 DEF DropFiles
<1>9. C = A \ Unlisted /\ A \subseteq drops.requested
  BY <1>2, <1>3, <1>6 DEF FilesAgree
<1>10. /\ CompassTypes' /\ FileIsSound' /\ CaptureIsSound' /\ (Matches' <=> Matches)
       /\ (AllShardsAgree' <=> AllShardsAgree) /\ DropsOf(tokens)' = DropsOf(tokens)
       /\ published' = published /\ edition' = edition /\ stage' = stage
  BY <1>1, <1>3, <1>8, CaptureStays
<1>11. EditionsAgree'
  BY <1>1, <1>3, <1>4, <1>8, <1>10 DEF EditionsAgree, Works
<1>12. FilesAgree'
  <2>1. dropsManifest' = 0 /\ build' = build /\ packed' = packed
    BY <1>1, <1>4
  <2> QED
    BY <1>1, <1>3, <1>4, <1>5, <1>8, <1>9, <1>10, <2>1 DEF FilesAgree
<1> QED
  BY <1>10, <1>11, <1>12 DEF CompassInv

LEMMA FinishDropsKeeps == ASSUME CompassInv, FinishDrops PROVE CompassInv'
<1>1. /\ running.tool = "drops" /\ running.at = "ask" /\ running' = Rest
      /\ drops.asked = drops.requested /\ dropsManifest' = drops.from
      /\ UNCHANGED captureVars /\ UNCHANGED <<drops, build, packed>>
  BY DEF FinishDrops, Works, Ended
<1>2. /\ drops \in DropFiles /\ build \in Builds /\ FilesAgree /\ EditionsAgree /\ drops.from \in Nat
  BY DEF CompassInv, CompassTypes, DropFiles
<1>3. Matches /\ dropsManifest = 0 /\ drops.stage = "ready" /\ drops.from = published
  BY <1>1, <1>2 DEF EditionsAgree, Works
<1>4. running' \in Runnings /\ running'.tool = "none" /\ build.state # "built"
  BY <1>1, <1>2, <1>3, NothingThere DEF FilesAgree
<1>5. /\ CompassTypes' /\ FileIsSound' /\ CaptureIsSound' /\ (Matches' <=> Matches)
      /\ (AllShardsAgree' <=> AllShardsAgree) /\ DropsOf(tokens)' = DropsOf(tokens)
      /\ published' = published /\ edition' = edition /\ stage' = stage
  BY <1>1, <1>2, <1>4, CaptureStays
<1>6. EditionsAgree'
  BY <1>1, <1>2, <1>3, <1>4, <1>5 DEF EditionsAgree, Works
<1>7. FilesAgree'
  BY <1>1, <1>2, <1>3, <1>4, <1>5 DEF FilesAgree
<1> QED
  BY <1>5, <1>6, <1>7 DEF CompassInv

LEMMA StartD1Keeps == ASSUME CompassInv, StartD1 PROVE CompassInv'
<1>1. /\ running = Rest /\ Matches /\ dropsManifest # 0 /\ build.state = "absent"
      /\ build' = [build EXCEPT !.state = "partial"]
      /\ running' = [Rest EXCEPT !.tool = "build"]
      /\ UNCHANGED captureVars /\ UNCHANGED <<drops, dropsManifest, packed>>
  BY DEF StartD1
<1>2. /\ drops \in DropFiles /\ build \in Builds /\ dropsManifest \in Nat /\ FilesAgree /\ EditionsAgree
  BY DEF CompassInv, CompassTypes
<1>3. running' \in Runnings /\ running'.tool = "build"
  BY <1>1, NothingThere DEF Runnings
<1>4. build' \in Builds /\ build'.state = "partial"
  BY <1>1, <1>2 DEF Builds
<1>5. /\ CompassTypes' /\ FileIsSound' /\ CaptureIsSound' /\ (Matches' <=> Matches)
      /\ (AllShardsAgree' <=> AllShardsAgree) /\ DropsOf(tokens)' = DropsOf(tokens)
      /\ published' = published /\ edition' = edition /\ stage' = stage
  BY <1>1, <1>2, <1>3, <1>4, CaptureStays
<1>6. EditionsAgree'
  BY <1>1, <1>2, <1>3, <1>5 DEF EditionsAgree, Works
<1>7. FilesAgree'
  BY <1>1, <1>2, <1>3, <1>4, <1>5 DEF FilesAgree
<1> QED
  BY <1>5, <1>6, <1>7 DEF CompassInv

LEMMA FinishD1Keeps == ASSUME CompassInv, FinishD1 PROVE CompassInv'
<1>1. /\ running.tool = "build" /\ running' = Rest
      /\ UNCHANGED captureVars /\ UNCHANGED <<drops, dropsManifest, packed>>
      /\ \/ Coverage /\ build' = [state |-> "built", edition |-> published, drops |-> drops.from]
         \/ build' = build
  BY DEF FinishD1, Ended
<1>2. /\ drops \in DropFiles /\ build \in Builds /\ dropsManifest \in Nat /\ FilesAgree /\ EditionsAgree
      /\ published \in Nat /\ drops.from \in Nat
  BY DEF CompassInv, CompassTypes, DropFiles
<1>3. running' \in Runnings /\ running'.tool = "none"
  BY <1>1, NothingThere
<1>4. Matches /\ dropsManifest # 0
  BY <1>1, <1>2 DEF EditionsAgree, FilesAgree
<1>5. /\ build' \in Builds
      /\ \/ /\ build'.edition = published /\ drops.captured \subseteq DropsOf(tokens)
         \/ build' = build
  <2>1. CASE Coverage /\ build' = [state |-> "built", edition |-> published, drops |-> drops.from]
    <3>1. drops.captured \subseteq DropsOf(tokens)
      BY <2>1 DEF Coverage
    <3>2. build' \in Builds /\ build'.edition = published
      BY <1>2, <2>1 DEF Builds
    <3> QED
      BY <3>1, <3>2
  <2>2. CASE build' = build
    BY <1>2, <2>2
  <2> QED
    BY <1>1, <2>1, <2>2
<1>6. /\ CompassTypes' /\ FileIsSound' /\ CaptureIsSound' /\ (Matches' <=> Matches)
      /\ (AllShardsAgree' <=> AllShardsAgree) /\ DropsOf(tokens)' = DropsOf(tokens)
      /\ published' = published /\ edition' = edition /\ stage' = stage
  BY <1>1, <1>2, <1>3, <1>5, CaptureStays
<1>7. EditionsAgree'
  BY <1>1, <1>2, <1>3, <1>6 DEF EditionsAgree, Works
<1>8. FilesAgree'
  <2>1. drops' = drops /\ dropsManifest' = dropsManifest /\ packed' = packed
    BY <1>1
  <2>2. published # 0 /\ published <= published
    BY <1>2, <1>4 DEF Matches
  <2>3. CASE build'.edition = published /\ drops.captured \subseteq DropsOf(tokens)
    BY <1>2, <1>3, <1>4, <1>6, <2>1, <2>2, <2>3 DEF FilesAgree
  <2>4. CASE build' = build
    BY <1>2, <1>3, <1>6, <2>1, <2>4 DEF FilesAgree
  <2> QED
    BY <1>5, <2>3, <2>4
<1> QED
  BY <1>6, <1>7, <1>8 DEF CompassInv

LEMMA ClearD1Keeps == ASSUME CompassInv, ClearD1 PROVE CompassInv'
<1>1. /\ running = Rest /\ running' = running /\ build' = Nothing
      /\ UNCHANGED captureVars /\ UNCHANGED <<drops, dropsManifest, packed>>
  BY DEF ClearD1
<1>2. /\ drops \in DropFiles /\ dropsManifest \in Nat /\ FilesAgree /\ EditionsAgree
  BY DEF CompassInv, CompassTypes
<1>3. running' \in Runnings /\ running'.tool = "none" /\ build' \in Builds /\ build'.state = "absent"
  BY <1>1, NothingThere
<1>4. /\ CompassTypes' /\ FileIsSound' /\ CaptureIsSound' /\ (Matches' <=> Matches)
      /\ (AllShardsAgree' <=> AllShardsAgree) /\ DropsOf(tokens)' = DropsOf(tokens)
      /\ published' = published /\ edition' = edition /\ stage' = stage
  BY <1>1, <1>2, <1>3, CaptureStays
<1>5. EditionsAgree'
  BY <1>1, <1>2, <1>3, <1>4 DEF EditionsAgree, Works
<1>6. FilesAgree'
  BY <1>1, <1>2, <1>3, <1>4 DEF FilesAgree
<1> QED
  BY <1>4, <1>5, <1>6 DEF CompassInv

LEMMA PackageKeeps == ASSUME CompassInv, Package PROVE CompassInv'
<1>1. /\ running = Rest /\ running' = running /\ Matches /\ BelongsTogether
      /\ packed' = [state |-> "packed", edition |-> edition, built |-> build.edition]
      /\ UNCHANGED captureVars /\ UNCHANGED <<drops, dropsManifest, build>>
  BY DEF Package
<1>2. /\ drops \in DropFiles /\ build \in Builds /\ dropsManifest \in Nat /\ FilesAgree /\ EditionsAgree
  BY DEF CompassInv, CompassTypes
<1>3. running' \in Runnings /\ running'.tool = "none"
  BY <1>1, NothingThere
<1>4. packed'.edition = packed'.built
  BY <1>1 DEF Matches, BelongsTogether
<1>5. /\ CompassTypes' /\ FileIsSound' /\ CaptureIsSound' /\ (Matches' <=> Matches)
      /\ (AllShardsAgree' <=> AllShardsAgree) /\ DropsOf(tokens)' = DropsOf(tokens)
      /\ published' = published /\ edition' = edition /\ stage' = stage
  BY <1>1, <1>2, <1>3, CaptureStays
<1>6. EditionsAgree'
  BY <1>1, <1>2, <1>3, <1>5 DEF EditionsAgree, Works
<1>7. FilesAgree'
  BY <1>1, <1>2, <1>3, <1>4, <1>5 DEF FilesAgree
<1> QED
  BY <1>5, <1>6, <1>7 DEF CompassInv

LEMMA CompassStepKeeps == CompassInv /\ [CompassNext]_compassVars => CompassInv'
<1> SUFFICES ASSUME CompassInv, [CompassNext]_compassVars PROVE CompassInv'
  OBVIOUS
<1>1. CASE CompassChange
  BY <1>1, CompassChangeKeeps
<1>2. CASE CaptureStep
  BY <1>2, TakeBoundKeeps, CreateTablesKeeps, FillTablesKeeps, ResumeCaptureKeeps,
     CapturePageKeeps, AllReadKeeps, CountShardKeeps, ComparedKeeps, ResetShardKeeps,
     CloseCaptureKeeps, PublishCaptureKeeps DEF CaptureStep
<1>3. CASE StartDrops \/ FillDrops \/ AskDrop \/ FinishDrops
  BY <1>3, StartDropsKeeps, FillDropsKeeps, AskDropKeeps, FinishDropsKeeps
<1>4. CASE StartD1 \/ FinishD1 \/ ClearD1 \/ Package
  BY <1>4, StartD1Keeps, FinishD1Keeps, ClearD1Keeps, PackageKeeps
<1>5. CASE KillTool
  BY <1>5, KillToolKeeps
<1>6. CASE UNCHANGED compassVars
  <2>1. UNCHANGED <<captureVars, derivedVars>> /\ running' = running
    BY <1>6 DEF compassVars
  <2>2. (Matches' <=> Matches) /\ running \in Runnings
    BY <2>1 DEF Matches, captureVars, CompassInv, CompassTypes
  <2>3. CaptureIsSound'
    BY <2>1, <2>2 DEF CompassInv, CaptureIsSound, AllShardsAgree, captureVars
  <2>4. EditionsAgree /\ FilesAgree
    BY DEF CompassInv
  <2> QED
    BY <2>1, <2>2, <2>3, <2>4, RestOfIt DEF Works, EditionsAgree, FilesAgree
<1> QED
  BY <1>1, <1>2, <1>3, <1>4, <1>5, <1>6 DEF CompassNext

LEMMA CompassSuffices == CompassInv => CapturesAreSound
<1> SUFFICES ASSUME CompassInv PROVE CapturesAreSound
  OBVIOUS
<1>1. /\ poaps \in SUBSET Poaps /\ kept \in SUBSET Poaps /\ known \in SUBSET Poaps
      /\ tokens \in SUBSET Poaps /\ tokens \subseteq known
      /\ stage \in {"absent", "tables", "ready"} /\ bound \in Poaps \cup {0} /\ bound \in Nat
      /\ shards \in [ShardIds -> ShardStates] /\ reconciled \in SUBSET ((1..2) \X ShardIds)
      /\ edition \in Nat /\ published \in Nat /\ dropsManifest \in Nat /\ altered \in BOOLEAN
      /\ drops \in DropFiles
  BY PoapNumbers DEF CompassInv, CompassTypes
<1>2. CompassTypeOK
  <2>1. \A s \in ShardIds : shards[s].rows \in Nat /\ shards[s].finished \in BOOLEAN
    BY <1>1 DEF ShardStates
  <2>2. drops.from \in Nat
    BY <1>1 DEF DropFiles
  <2>3. drops.captured \subseteq drops.asked /\ drops.asked \subseteq drops.requested
    BY DEF CompassInv, FilesAgree
  <2> QED
    BY <1>1, <2>1, <2>2, <2>3 DEF CompassTypeOK
<1>3. ShardsOwnTheirRows
  BY DEF CompassInv, FileIsSound, ShardsAreSound, ShardHas, ShardsOwnTheirRows
<1>4. ManifestIsFaithful
  <2> SUFFICES ASSUME Matches
               PROVE  /\ kept \subseteq tokens /\ tokens \subseteq known
                      /\ \A s \in ShardIds : shards[s].count = Cardinality(Within(tokens, s))
    BY DEF ManifestIsFaithful
  <2>1. published # 0 /\ AllShardsAgree /\ stage = "ready"
    BY DEF CompassInv, EditionsAgree, Matches
  <2>2. ShardsAreSound /\ \A p \in kept : p <= bound
    BY <2>1 DEF CompassInv, FileIsSound
  <2>3. kept \subseteq tokens
    <3> SUFFICES ASSUME NEW p \in kept PROVE p \in tokens
      OBVIOUS
    <3>1. p \in Nat /\ p > 0 /\ p <= bound /\ kept \in SUBSET Nat
      BY <1>1, <2>2, PoapNumbers
    <3>2. PICK s \in ShardIds : p \in Within(kept, s)
      BY <1>1, <3>1, Halves
    <3>3. shards[s].finished
      BY <2>1 DEF AllShardsAgree
    <3> QED
      BY <2>2, <3>2, <3>3 DEF ShardsAreSound, ShardHas
  <2>4. \A s \in ShardIds : shards[s].count = Cardinality(Within(tokens, s))
    BY <2>1, <2>2 DEF AllShardsAgree, ShardsAreSound, ShardHas
  <2> QED
    BY <1>1, <2>3, <2>4
<1>5. DropsAreAsked
  <2> SUFFICES ASSUME Matches, dropsManifest = published
               PROVE  drops.asked = DropsOf(tokens) /\ drops.captured = DropsOf(tokens) \ Unlisted
    BY DEF DropsAreAsked
  <2>1. published # 0
    BY DEF Matches
  <2>2. drops.stage = "ready" /\ drops.from = published /\ drops.asked = drops.requested
    BY <2>1 DEF CompassInv, FilesAgree
  <2>3. drops.requested = DropsOf(tokens) /\ drops.captured = drops.asked \ Unlisted
    BY <2>2 DEF CompassInv, FilesAgree
  <2> QED
    BY <2>2, <2>3
<1>6. BuildsAreOfOneFile
  <2>1. ASSUME build.state = "built", build.edition = edition, ~altered
        PROVE  drops.captured \subseteq DropsOf(tokens)
    <3>1. build.edition <= published /\ build.edition # 0 /\ published <= edition
      BY <2>1 DEF CompassInv, FilesAgree, EditionsAgree
    <3>2. published = edition
      BY <1>1, <2>1, <3>1
    <3>3. Matches
      BY <2>1, <3>1, <3>2 DEF Matches
    <3> QED
      BY <2>1, <3>2, <3>3 DEF CompassInv, FilesAgree
  <2>2. packed # Nothing => packed.edition = packed.built
    BY DEF CompassInv, FilesAgree
  <2> QED
    BY <2>1, <2>2 DEF BuildsAreOfOneFile
<1> QED
  BY <1>2, <1>3, <1>4, <1>5, <1>6 DEF CapturesAreSound

\* Whatever tools run and are killed, in any order, and whatever changes at Compass meanwhile, a
\* shard has read all of its POAPs up to its cursor, and what was made of a file names it.
THEOREM CompassInvariance == CompassSpec => []CompassInv
  BY CompassInitially, CompassStepKeeps, PTL DEF CompassSpec

\* A capture that matches its manifest has every POAP that was there all the time and none that
\* never was; the drops, builds and packages made of it are of that file.
THEOREM CapturesStaySound == CompassSpec => []CapturesAreSound
  BY CompassInvariance, CompassSuffices, PTL

-------------------------------------------------------------------------------
(* The artwork of a Holdings snapshot.                                       *)

\* A record of a release, and a row, is carried or that of an image that is stored.
GoodRecord(d, n) ==
    \/ n = CarriedRecord
    \/ /\ n \in DOMAIN checkpoint
       /\ checkpoint[n].drop = d /\ checkpoint[n].image \in originals

LostForGood(d) ==
    \E i \in DOMAIN checkpoint :
        checkpoint[i].drop = d /\ checkpoint[i].attempts = [k \in 1..Candidates |-> "gone"]

ReleaseIsSound(rel) ==
    /\ rel \in Releases
    /\ \A d \in DOMAIN rel.objects : GoodRecord(d, rel.objects[d])
    /\ rel # NoRelease => \A d \in HeldDrops \ DOMAIN rel.objects : LostForGood(d)

\* Releases are told apart by when they were made, and this file has the newest.
Knows(rel) == rel.made <= release.made /\ (rel.made = release.made => rel = release)

KnownReleases == {NoRelease, release, d1Report, readBack, backedUp, artLoader.report,
                  artLoader.release}

CheckpointIsSound ==
    /\ checkpoint \in Seq(CaptureRecords) /\ Len(checkpoint) <= MaxRecords
    /\ \A i \in DOMAIN checkpoint : checkpoint[i].image \in originals \cup {"none"}

\* The first n rows of a release are in the shards.
Written(rel, n) ==
    n <= Len(shardFiles) /\ \A i \in 1..n : shardFiles[i] = ShardRow(rel, i)

\* The shards are of rising Drops, so that none has two records.
ArtShardsAreSound ==
    /\ finalizer \in 0..(ArtRowCount(release) + 1)
    /\ finalizer # 0 => Written(release, finalizer - 1)
    /\ \A i, j \in DOMAIN shardFiles : i < j => shardFiles[i].drop < shardFiles[j].drop
    /\ \A i \in DOMAIN shardFiles : GoodRecord(shardFiles[i].drop, shardFiles[i].record)
    /\ Written(d1Report, ArtRowCount(d1Report))
    /\ Written(artLoader.report, ArtRowCount(artLoader.report))

Serves(objects) ==
    \A d \in DOMAIN objects : d \in DOMAIN artworkRows /\ artworkRows[d] = objects[d]

LoaderTypes == [at : Nat, report : Releases, release : Releases]

\* The rows come from the shards, and what a loader has gone through is there.
RowsAreSound ==
    /\ artLoader \in LoaderTypes
    /\ artLoader.at \in 0..(ArtRowCount(artLoader.report) + 1)
    /\ \A d \in DOMAIN artworkRows :
          \E i \in DOMAIN shardFiles : shardFiles[i] = [drop |-> d, record |-> artworkRows[d]]
    /\ \A i \in 1..(artLoader.at - 1) :
          /\ shardFiles[i].drop \in DOMAIN artworkRows
          /\ artworkRows[shardFiles[i].drop] = shardFiles[i].record
    /\ Serves(readBack.objects) /\ Serves(backedUp.objects)

ArtworkInv ==
    /\ ArtworkTypeOK /\ CheckpointIsSound
    /\ \A rel \in KnownReleases : ReleaseIsSound(rel) /\ Knows(rel)
    /\ ArtShardsAreSound /\ RowsAreSound

LEMMA HeldAreFinite ==
  /\ IsFiniteSet(HeldDrops) /\ HeldDrops \subseteq Nat /\ HeldDrops # {}
  /\ IsFiniteSet(Wanted) /\ Cardinality(Wanted) \in Nat
<1>1. IsFiniteSet(HeldDrops) /\ HeldDrops \subseteq Nat /\ Wanted \in SUBSET HeldDrops /\ HeldDrops # {}
  BY ArtworkAssumption DEF HeldDrops
<1> QED
  BY <1>1, FS_Subset, FS_CardinalityType

LEMMA ReleaseTypes ==
  ASSUME NEW rel \in Releases
  PROVE  /\ rel.made \in 0..MaxReleases /\ rel = [made |-> rel.made, objects |-> rel.objects]
         /\ DOMAIN rel.objects \subseteq HeldDrops
         /\ rel.objects \in [DOMAIN rel.objects -> 0..MaxRecords]
         /\ DOMAIN rel.objects \in SUBSET Nat /\ IsFiniteSet(DOMAIN rel.objects)
         /\ ArtRowCount(rel) = Cardinality(DOMAIN rel.objects) /\ ArtRowCount(rel) \in Nat
<1>1. rel.made \in 0..MaxReleases /\ rel = [made |-> rel.made, objects |-> rel.objects]
  BY DEF Releases
<1>2. rel.objects \in UNION {[held -> 0..MaxRecords] : held \in SUBSET HeldDrops}
  BY DEF Releases
<1>3. PICK held \in SUBSET HeldDrops : rel.objects \in [held -> 0..MaxRecords]
  BY <1>2, Zenon
<1>4. DOMAIN rel.objects = held
  BY <1>3
<1>5. DOMAIN rel.objects \in SUBSET HeldDrops
  BY <1>4
<1>6. IsFiniteSet(DOMAIN rel.objects) /\ DOMAIN rel.objects \in SUBSET Nat
  BY <1>5, HeldAreFinite, FS_Subset
<1> QED
  BY <1>1, <1>3, <1>4, <1>5, <1>6, FS_CardinalityType DEF ArtRowCount

LEMMA NoReleaseIsOne ==
  /\ NoRelease \in Releases /\ DOMAIN NoRelease.objects = {}
  /\ NoRelease.made = 0 /\ ArtRowCount(NoRelease) = 0
<1>1. <<>> \in [{} -> 0..MaxRecords] /\ DOMAIN <<>> = {}
  OBVIOUS
<1>2. <<>> \in UNION {[held -> 0..MaxRecords] : held \in SUBSET HeldDrops}
  BY <1>1
<1>3. 0 \in 0..MaxReleases
  BY ArtworkAssumption
<1>4. NoRelease \in Releases
  BY <1>2, <1>3 DEF NoRelease, Releases
<1> QED
  BY <1>1, <1>4, FS_EmptySet DEF NoRelease, ArtRowCount

\* The rows of a release, one per shard, in the order of its Drops.
LEMMA ShardRows ==
  ASSUME NEW rel \in Releases
  PROVE  /\ \A i \in 1..ArtRowCount(rel) :
              /\ ShardRow(rel, i).drop \in DOMAIN rel.objects
              /\ ShardRow(rel, i) = [drop |-> ShardRow(rel, i).drop,
                                     record |-> rel.objects[ShardRow(rel, i).drop]]
         /\ \A d \in DOMAIN rel.objects : \E i \in 1..ArtRowCount(rel) :
              ShardRow(rel, i) = [drop |-> d, record |-> rel.objects[d]]
         /\ \A i, j \in 1..ArtRowCount(rel) :
              i < j => ShardRow(rel, i).drop < ShardRow(rel, j).drop
<1> DEFINE S == DOMAIN rel.objects
           Rank(d) == Cardinality({e \in S : e < d})
           At(i) == CHOOSE d \in S : Rank(d) = i - 1
<1>1. S \in SUBSET Nat /\ IsFiniteSet(S) /\ ArtRowCount(rel) = Cardinality(S) /\ Cardinality(S) \in Nat
  BY ReleaseTypes
<1>2. \A i \in 1..Cardinality(S) : \E d \in S : Rank(d) = i - 1
  <2> HIDE DEF S
  <2> QED
    BY <1>1, NthOf
<1>3. /\ \A d \in S : Rank(d) \in 0..(Cardinality(S) - 1)
      /\ \A d, e \in S : d < e => Rank(d) < Rank(e)
  <2> HIDE DEF S
  <2> QED
    BY <1>1, RankOf
<1>4. \A i : ShardRow(rel, i) = [drop |-> At(i), record |-> rel.objects[At(i)]]
  BY DEF ShardRow
<1>5. \A i \in 1..Cardinality(S) : At(i) \in S /\ Rank(At(i)) = i - 1
  <2> HIDE DEF S, Rank
  <2> QED
    BY <1>2
<1> HIDE DEF S, Rank, At
<1>6. \A d, e \in S : Rank(d) = Rank(e) => d = e
  <2> SUFFICES ASSUME NEW d \in S, NEW e \in S, Rank(d) = Rank(e) PROVE d = e
    OBVIOUS
  <2>1. d \in Nat /\ e \in Nat /\ Rank(d) \in Nat
    BY <1>1, <1>3
  <2>2. ~ (d < e) /\ ~ (e < d)
    BY <1>3, <2>1
  <2> QED
    BY <2>1, <2>2
<1>7. ASSUME NEW d \in S
      PROVE  \E i \in 1..Cardinality(S) : ShardRow(rel, i) = [drop |-> d, record |-> rel.objects[d]]
  <2> DEFINE i == Rank(d) + 1
  <2>1. i \in 1..Cardinality(S) /\ Rank(d) = i - 1
    BY <1>1, <1>3
  <2>2. At(i) = d
    <3> HIDE DEF i
    <3> QED
      BY <1>5, <1>6, <2>1
  <2> QED
    BY <1>4, <2>1, <2>2
<1>8. ASSUME NEW i \in 1..Cardinality(S), NEW j \in 1..Cardinality(S), i < j PROVE At(i) < At(j)
  <2>1. At(i) \in S /\ At(j) \in S /\ Rank(At(i)) = i - 1 /\ Rank(At(j)) = j - 1
    BY <1>5
  <2>2. At(i) \in Nat /\ At(j) \in Nat
    BY <1>1, <2>1
  <2>3. At(i) # At(j) /\ ~ (At(j) < At(i))
    BY <1>3, <1>8, <2>1, <2>2
  <2> QED
    BY <2>2, <2>3
<1> QED
  BY <1>1, <1>4, <1>5, <1>7, <1>8 DEF S

\* The last record of a Drop.
LEMMA LatestRecord ==
  ASSUME checkpoint \in Seq(CaptureRecords), NEW d
  PROVE  /\ Latest(d) \in 0..Len(checkpoint)
         /\ Latest(d) # 0 => Latest(d) \in DOMAIN checkpoint /\ checkpoint[Latest(d)].drop = d
<1> DEFINE I == {i \in 1..Len(checkpoint) : checkpoint[i].drop = d}
<1>1. Latest(d) = IF I # {} THEN Max(I) ELSE 0
  BY DEF Latest, SelectLastInSeq
<1>2. I \in SUBSET Nat /\ Len(checkpoint) \in Nat
  BY LenProperties
<1>3. ASSUME I # {} PROVE Max(I) \in I
  <2>1. IsFiniteSet(I)
    BY <1>2, FS_BoundedSetOfNaturals
  <2>2. PICK x \in I : \A y \in I : y <= x
    <3> HIDE DEF I
    <3> QED
      BY <1>2, <1>3, <2>1, GreatestOf
  <2>3. \A y \in I : x >= y
    BY <1>2, <2>2
  <2> HIDE DEF I
  <2> QED
    BY <2>2, <2>3 DEF Max
<1>4. DOMAIN checkpoint = 1..Len(checkpoint)
  BY LenProperties
<1> QED
  BY <1>1, <1>2, <1>3, <1>4

\* What a record with terminal attempts says.
LEMMA TerminalIsGone ==
  ASSUME NEW r \in CaptureRecords, Terminal(r.attempts)
  PROVE  r.attempts = [k \in 1..Candidates |-> "gone"]
<1>1. r.attempts \in Attempts
  BY DEF CaptureRecords, Attempts
<1>2. r.attempts \in Seq(Answers)
  <2>1. r.attempts = <<>> \/ r.attempts \in UNION {[1..m -> Answers] : m \in 0..Candidates}
    BY <1>1 DEF Attempts, BoundedSeq, SeqOf
  <2>2. CASE r.attempts \in UNION {[1..m -> Answers] : m \in 0..Candidates}
    <3>1. PICK m \in 0..Candidates : r.attempts \in [1..m -> Answers]
      BY <2>2, Zenon
    <3>2. m \in Nat
      BY ArtworkAssumption
    <3> QED
      BY <3>1, <3>2, SeqDef
  <2>3. <<>> \in Seq(Answers)
    BY EmptySeq
  <2> QED
    BY <2>1, <2>2, <2>3, Zenon
<1>3. DOMAIN r.attempts = 1..Candidates /\ \A i \in 1..Candidates : r.attempts[i] = "gone"
  BY <1>2, LenProperties DEF Terminal
<1>4. r.attempts = [i \in DOMAIN r.attempts |-> r.attempts[i]]
  BY <1>2, LenProperties
<1> QED
  BY <1>3, <1>4

LEMMA NoLoadType ==
  NoLoad \in LoaderTypes /\ NoLoad.at = 0 /\ NoLoad.report = NoRelease /\ NoLoad.release = NoRelease
BY NoReleaseIsOne DEF NoLoad, LoaderTypes

LEMMA ArtworkInitInv == ArtworkInit => ArtworkInv
<1> SUFFICES ASSUME ArtworkInit PROVE ArtworkInv
  OBVIOUS
<1>1. /\ originals = {} /\ checkpoint = <<>> /\ legible = "absent"
      /\ artCapture = [c \in Capturers |-> NoCapture]
      /\ artReport = NoCaptureReport /\ review = NoReview
      /\ release = NoRelease /\ shardFiles = <<>> /\ d1Report = NoRelease
      /\ finalizer = 0 /\ artLoader = NoLoad
      /\ artworkRows = <<>> /\ readBack = NoRelease /\ backedUp = NoRelease
  BY DEF ArtworkInit
<1>2. Len(<<>>) = 0 /\ DOMAIN <<>> = {} /\ MaxRecords \in Nat
  BY ArtworkAssumption
<1>3. CheckpointIsSound
  BY <1>1, <1>2, EmptySeq DEF CheckpointIsSound
<1>4. /\ artLoader.at = 0 /\ artLoader.report = NoRelease /\ artLoader.release = NoRelease
  BY <1>1 DEF NoLoad
<1>5. \A rel \in KnownReleases : rel = NoRelease
  BY <1>1, <1>4 DEF KnownReleases
<1>6. \A rel \in KnownReleases : ReleaseIsSound(rel) /\ Knows(rel)
  BY <1>1, <1>5, NoReleaseIsOne DEF ReleaseIsSound, Knows
<1>7. ArtShardsAreSound
  BY <1>1, <1>2, <1>4, NoReleaseIsOne DEF ArtShardsAreSound, Written
<1>8. RowsAreSound
  <2>1. artLoader \in LoaderTypes
    BY <1>1, NoLoadType
  <2> QED
    BY <1>1, <1>2, <1>4, <2>1, NoReleaseIsOne DEF RowsAreSound, Serves
<1>9. ArtworkTypeOK
  <2>1. originals \subseteq Originals /\ checkpoint \in Seq(CaptureRecords)
    BY <1>1, EmptySeq
  <2>2. NoCapture \in [at : {"idle", "header", "busy"}, todo : SUBSET Wanted,
                       seen : [Wanted -> {"none", "stored", "failed"}]]
    BY DEF NoCapture
  <2>3. artCapture \in [Capturers -> [at : {"idle", "header", "busy"}, todo : SUBSET Wanted,
                                      seen : [Wanted -> {"none", "stored", "failed"}]]]
    BY <1>1, <2>2
  <2>4. {artReport.completed, artReport.failed} \subseteq 0..Cardinality(Wanted)
    BY <1>1, HeldAreFinite DEF NoCaptureReport
  <2>5. review.rows \subseteq Wanted
    BY <1>1 DEF NoReview
  <2>6. {release, d1Report, readBack, backedUp} \subseteq Releases
    BY <1>1, NoReleaseIsOne
  <2>7. shardFiles \in Seq([drop : HeldDrops, record : 0..MaxRecords])
    BY <1>1, EmptySeq
  <2> QED
    BY <1>1, <2>1, <2>3, <2>4, <2>5, <2>6, <2>7 DEF ArtworkTypeOK
<1> QED
  BY <1>3, <1>6, <1>7, <1>8, <1>9 DEF ArtworkInv

\* Nothing that is known of a release is lost when captures go on.
LEMMA GrowthKeeps ==
  ASSUME ArtworkInv, UNCHANGED <<releaseVars, serveVars>>, originals \subseteq originals',
         DOMAIN checkpoint \subseteq DOMAIN checkpoint',
         \A i \in DOMAIN checkpoint : checkpoint'[i] = checkpoint[i]
  PROVE  /\ (\A rel \in KnownReleases : ReleaseIsSound(rel) /\ Knows(rel))'
         /\ ArtShardsAreSound' /\ RowsAreSound'
<1>1. ASSUME NEW d, NEW n, GoodRecord(d, n) PROVE GoodRecord(d, n)'
  BY <1>1 DEF GoodRecord
<1>2. ASSUME NEW d, LostForGood(d) PROVE LostForGood(d)'
  BY <1>2 DEF LostForGood
<1>3. /\ release' = release /\ shardFiles' = shardFiles /\ d1Report' = d1Report
      /\ finalizer' = finalizer /\ artLoader' = artLoader /\ artworkRows' = artworkRows
      /\ readBack' = readBack /\ backedUp' = backedUp
  BY DEF releaseVars, serveVars
<1>4. KnownReleases' = KnownReleases
  BY <1>3 DEF KnownReleases
<1>5. ASSUME NEW rel \in KnownReleases PROVE (ReleaseIsSound(rel) /\ Knows(rel))'
  <2>1. ReleaseIsSound(rel) /\ Knows(rel)
    BY DEF ArtworkInv
  <2>2. Knows(rel)'
    BY <1>3, <2>1 DEF Knows
  <2>3. ReleaseIsSound(rel)'
    BY <1>1, <1>2, <2>1 DEF ReleaseIsSound
  <2> QED
    BY <2>2, <2>3
<1>6. ArtShardsAreSound'
  BY <1>1, <1>3 DEF ArtworkInv, ArtShardsAreSound, Written
<1>7. RowsAreSound'
  BY <1>3 DEF ArtworkInv, RowsAreSound, Serves
<1> QED
  BY <1>4, <1>5, <1>6, <1>7

CaptureTypes == [at : {"idle", "header", "busy"}, todo : SUBSET Wanted,
                 seen : [Wanted -> {"none", "stored", "failed"}]]

\* Steps that write neither records nor images.
LEMMA QuietKeeps ==
  ASSUME ArtworkInv, UNCHANGED <<releaseVars, serveVars>>, originals' = originals,
         checkpoint' = checkpoint, legible' \in {"absent", "readable", "broken"},
         artCapture' \in [Capturers -> CaptureTypes],
         {artReport'.completed, artReport'.failed} \subseteq 0..Cardinality(Wanted),
         review'.rows \subseteq Wanted
  PROVE  ArtworkInv'
<1>1. /\ (\A rel \in KnownReleases : ReleaseIsSound(rel) /\ Knows(rel))'
      /\ ArtShardsAreSound' /\ RowsAreSound'
  BY GrowthKeeps
<1>2. CheckpointIsSound'
  BY DEF ArtworkInv, CheckpointIsSound
<1>3. ArtworkTypeOK'
  BY DEF ArtworkInv, ArtworkTypeOK, CaptureTypes, releaseVars, serveVars
<1> QED
  BY <1>1, <1>2, <1>3 DEF ArtworkInv

LEMMA StandingTypes == \A d : Standing(d) \in {"none", "stored", "failed"}
BY DEF Standing, Outcome

LEMMA CaptureKeeps ==
  ASSUME ArtworkInv, NEW c \in Capturers,
         StartCapture(c) \/ WriteHeader(c) \/ EndCapture(c) \/ KillCapture(c)
  PROVE  ArtworkInv'
<1>1. /\ artCapture \in [Capturers -> CaptureTypes] /\ legible \in {"absent", "readable", "broken"}
      /\ {artReport.completed, artReport.failed} \subseteq 0..Cardinality(Wanted)
      /\ review.rows \subseteq Wanted
  BY DEF ArtworkInv, ArtworkTypeOK, CaptureTypes
<1>2. NoCapture \in CaptureTypes
  BY DEF NoCapture, CaptureTypes
<1>3. CASE StartCapture(c)
  <2>1. [d \in Wanted |-> Standing(d)] \in [Wanted -> {"none", "stored", "failed"}]
    BY StandingTypes
  <2>2. [at |-> IF legible = "absent" THEN "header" ELSE "busy",
         todo |-> {d \in Wanted : Standing(d) # "stored"},
         seen |-> [d \in Wanted |-> Standing(d)]] \in CaptureTypes
    BY <2>1 DEF CaptureTypes
  <2>3. artCapture' \in [Capturers -> CaptureTypes]
    BY <1>1, <1>3, <2>2 DEF StartCapture
  <2> QED
    BY <1>1, <1>3, <2>3, QuietKeeps DEF StartCapture, reportVars
<1>4. CASE WriteHeader(c)
  <2>1. artCapture' \in [Capturers -> CaptureTypes]
    BY <1>1, <1>4 DEF WriteHeader, CaptureTypes
  <2> QED
    BY <1>1, <1>4, <2>1, QuietKeeps DEF WriteHeader, reportVars
<1>5. CASE EndCapture(c)
  <2>1. artCapture' \in [Capturers -> CaptureTypes]
    BY <1>1, <1>2, <1>5 DEF EndCapture
  <2> DEFINE Seen(outcome) == Cardinality({d \in Wanted : artCapture[c].seen[d] = outcome})
  <2>2. ASSUME NEW outcome PROVE Seen(outcome) \in 0..Cardinality(Wanted)
    <3> DEFINE T == {d \in Wanted : artCapture[c].seen[d] = outcome}
    <3>1. T \in SUBSET Wanted /\ Seen(outcome) = Cardinality(T)
      OBVIOUS
    <3> HIDE DEF T, Seen
    <3>2. Cardinality(T) \in Nat /\ Cardinality(T) <= Cardinality(Wanted)
      BY <3>1, HeldAreFinite, FS_Subset, FS_CardinalityType
    <3> QED
      BY <3>1, <3>2, HeldAreFinite
  <2>3. {artReport'.completed, artReport'.failed} \subseteq 0..Cardinality(Wanted)
    <3>1. artReport' = [length |-> Len(checkpoint), completed |-> Seen("stored"),
                        failed |-> Seen("failed")]
      BY <1>5 DEF EndCapture
    <3> HIDE DEF Seen
    <3> QED
      BY <2>2, <3>1
  <2>4. review'.rows \subseteq Wanted
    BY <1>1, <1>5 DEF EndCapture
  <2> QED
    BY <1>1, <1>5, <2>1, <2>3, <2>4, QuietKeeps DEF EndCapture
<1>6. CASE KillCapture(c)
  <2>1. artCapture' \in [Capturers -> CaptureTypes]
    BY <1>1, <1>2, <1>6 DEF KillCapture
  <2> QED
    BY <1>1, <1>6, <2>1, QuietKeeps DEF KillCapture, reportVars
<1> QED
  BY <1>3, <1>4, <1>5, <1>6

LEMMA ReviewKeeps == ArtworkInv /\ ReviewUnavailable => ArtworkInv'
<1> SUFFICES ASSUME ArtworkInv, ReviewUnavailable PROVE ArtworkInv'
  OBVIOUS
<1>1. review'.rows \subseteq Wanted
  BY DEF ReviewUnavailable, Unstored
<1> QED
  BY <1>1, QuietKeeps
  DEF ReviewUnavailable, artCaptureVars, ArtworkInv, ArtworkTypeOK, CaptureTypes

LEMMA CaptureOneKeeps ==
  ASSUME ArtworkInv, NEW c \in Capturers, NEW r \in CaptureRecords, CaptureOne(c, r)
  PROVE  ArtworkInv'
<1>1. /\ originals' = originals \union ({r.image} \ {"none"})
      /\ checkpoint' = Append(checkpoint, r) /\ Len(checkpoint) < MaxRecords
      /\ UNCHANGED <<legible, reportVars, releaseVars, serveVars>>
  BY DEF CaptureOne
<1>2. checkpoint \in Seq(CaptureRecords) /\ Len(checkpoint) \in Nat
  BY LenProperties DEF ArtworkInv, CheckpointIsSound
<1>3. /\ checkpoint' \in Seq(CaptureRecords) /\ Len(checkpoint') = Len(checkpoint) + 1
      /\ DOMAIN checkpoint' = DOMAIN checkpoint \cup {Len(checkpoint) + 1}
      /\ \A i \in DOMAIN checkpoint : checkpoint'[i] = checkpoint[i]
      /\ checkpoint'[Len(checkpoint) + 1] = r
  <2>1. /\ Append(checkpoint, r) \in Seq(CaptureRecords)
        /\ Len(Append(checkpoint, r)) = Len(checkpoint) + 1
        /\ \A i \in 1..Len(checkpoint) : Append(checkpoint, r)[i] = checkpoint[i]
        /\ Append(checkpoint, r)[Len(checkpoint) + 1] = r
    BY <1>2, AppendProperties
  <2>2. /\ DOMAIN checkpoint = 1..Len(checkpoint)
        /\ DOMAIN Append(checkpoint, r) = 1..(Len(checkpoint) + 1)
    BY <1>2, <2>1, LenProperties
  <2> QED
    BY <1>1, <1>2, <2>1, <2>2
<1>4. /\ (\A rel \in KnownReleases : ReleaseIsSound(rel) /\ Knows(rel))'
      /\ ArtShardsAreSound' /\ RowsAreSound'
  BY <1>1, <1>3, GrowthKeeps
<1>5. CheckpointIsSound'
  <2>1. Len(checkpoint') <= MaxRecords
    BY <1>1, <1>2, <1>3, ArtworkAssumption
  <2>2. \A i \in DOMAIN checkpoint : checkpoint[i].image \in originals \cup {"none"}
    BY DEF ArtworkInv, CheckpointIsSound
  <2>3. \A i \in DOMAIN checkpoint' : checkpoint'[i].image \in originals' \cup {"none"}
    BY <1>1, <1>3, <2>2
  <2> QED
    BY <1>3, <2>1, <2>3 DEF CheckpointIsSound
<1>6. r.drop \in Wanted /\ r.image \in Originals \cup {"none"}
  BY DEF CaptureRecords
<1>7. artCapture' \in [Capturers -> CaptureTypes]
  <2>1. artCapture \in [Capturers -> CaptureTypes]
    BY DEF ArtworkInv, ArtworkTypeOK, CaptureTypes
  <2>2. PICK o \in {"stored", "failed"} : o = Outcome(r)
    BY DEF Outcome
  <2>3. artCapture' = [artCapture EXCEPT ![c].todo = @ \ {r.drop}, ![c].seen[r.drop] = o]
    BY <2>2 DEF CaptureOne
  <2>4. ASSUME NEW b \in Capturers PROVE artCapture'[b] \in CaptureTypes
    <3>1. artCapture[b] \in CaptureTypes
      BY <2>1
    <3>2. CASE b # c
      BY <2>1, <2>3, <3>1, <3>2
    <3>3. CASE b = c
      <4>1. PICK run \in CaptureTypes : run = artCapture[c]
        BY <2>1
      <4>2. artCapture'[c] = [run EXCEPT !.todo = @ \ {r.drop}, !.seen[r.drop] = o]
        BY <2>1, <2>3, <4>1
      <4>3. [run.seen EXCEPT ![r.drop] = o] \in [Wanted -> {"none", "stored", "failed"}]
        BY <2>2 DEF CaptureTypes
      <4>4. PICK seen \in [Wanted -> {"none", "stored", "failed"}] :
              seen = [run.seen EXCEPT ![r.drop] = o]
        BY <4>3
      <4>5. artCapture'[c] = [at |-> run.at, todo |-> run.todo \ {r.drop}, seen |-> seen]
        BY <4>2, <4>4 DEF CaptureTypes
      <4> QED
        BY <3>3, <4>4, <4>5 DEF CaptureTypes
    <3> QED
      BY <3>2, <3>3
  <2>5. artCapture' = [b \in Capturers |-> artCapture'[b]]
    BY <2>1, <2>3
  <2> QED
    BY <2>4, <2>5
<1>8. ArtworkTypeOK'
  <2>1. originals' \subseteq Originals
    BY <1>1, <1>6 DEF ArtworkInv, ArtworkTypeOK
  <2>2. /\ legible' = legible /\ artReport' = artReport /\ review' = review
        /\ release' = release /\ d1Report' = d1Report /\ readBack' = readBack
        /\ backedUp' = backedUp /\ shardFiles' = shardFiles
    BY <1>1 DEF reportVars, releaseVars, serveVars
  <2> QED
    BY <1>3, <1>7, <2>1, <2>2 DEF ArtworkInv, ArtworkTypeOK, CaptureTypes
<1> QED
  BY <1>4, <1>5, <1>8 DEF ArtworkInv

LEMMA FinalizeKeeps ==
  ASSUME ArtworkInv, FinalizeArtwork
  PROVE  ArtworkInv'
<1> DEFINE covered == Wanted \ Unavailable
<1>1. /\ finalizer = 0 /\ release.made < MaxReleases
      /\ CaptureComplete \/ ReviewHolds
      /\ \A d \in covered : Standing(d) = "stored"
      /\ finalizer' = 1
      /\ UNCHANGED <<artCaptureVars, reportVars, shardFiles, d1Report, serveVars>>
  BY DEF FinalizeArtwork
<1>2. /\ originals' = originals /\ checkpoint' = checkpoint /\ legible' = legible
      /\ artCapture' = artCapture /\ artReport' = artReport /\ review' = review
      /\ shardFiles' = shardFiles /\ d1Report' = d1Report
      /\ artLoader' = artLoader /\ artworkRows' = artworkRows
      /\ readBack' = readBack /\ backedUp' = backedUp
  BY <1>1 DEF artCaptureVars, reportVars, serveVars
<1> DEFINE records == [d \in Carried \union covered |->
                         IF d \in Carried THEN CarriedRecord ELSE Latest(d)]
<1>3. release' = [made |-> release.made + 1, objects |-> records]
  BY DEF FinalizeArtwork
<1>4. /\ ArtworkTypeOK /\ CheckpointIsSound /\ ArtShardsAreSound /\ RowsAreSound
      /\ \A rel \in KnownReleases : ReleaseIsSound(rel) /\ Knows(rel)
      /\ checkpoint \in Seq(CaptureRecords) /\ Len(checkpoint) \in Nat
      /\ Len(checkpoint) <= MaxRecords /\ MaxRecords \in Nat
  BY ArtworkAssumption, LenProperties DEF ArtworkInv, CheckpointIsSound
<1>5. ASSUME NEW d \in covered
      PROVE  Latest(d) \in 0..MaxRecords /\ GoodRecord(d, Latest(d))
  <2>1. Standing(d) = "stored"
    BY <1>1
  <2>2. Latest(d) # 0 /\ checkpoint[Latest(d)].image # "none"
    BY <2>1 DEF Standing, Outcome
  <2>3. /\ Latest(d) \in 0..Len(checkpoint) /\ Latest(d) \in DOMAIN checkpoint
        /\ checkpoint[Latest(d)].drop = d
    BY <1>4, <2>2, LatestRecord
  <2>4. checkpoint[Latest(d)].image \in originals
    BY <1>4, <2>2, <2>3 DEF CheckpointIsSound
  <2> QED
    BY <1>4, <2>3, <2>4 DEF GoodRecord
<1>6. covered \subseteq Wanted /\ Carried \cap Wanted = {} /\ Carried \cup covered \subseteq HeldDrops
  BY ArtworkAssumption DEF HeldDrops
<1> HIDE DEF covered
<1>7. /\ records \in [Carried \cup covered -> 0..MaxRecords]
      /\ \A d \in Carried \cup covered : GoodRecord(d, records[d])
      /\ DOMAIN records = Carried \cup covered
  <2>1. ASSUME NEW d \in Carried PROVE records[d] = CarriedRecord
    OBVIOUS
  <2>2. ASSUME NEW d \in covered PROVE records[d] = Latest(d)
    BY <1>6
  <2>3. CarriedRecord \in 0..MaxRecords
    BY <1>4 DEF CarriedRecord
  <2>4. \A d \in Carried \cup covered : records[d] \in 0..MaxRecords /\ GoodRecord(d, records[d])
    <3> TAKE d \in Carried \cup covered
    <3>1. CASE d \in Carried
      BY <2>1, <2>3, <3>1 DEF GoodRecord
    <3>2. CASE d \in covered
      BY <1>5, <2>2, <3>2
    <3> QED
      BY <3>1, <3>2
  <2> QED
    BY <2>4
<1> HIDE DEF records
<1>8. release'.made = release.made + 1 /\ release'.objects = records
  BY <1>3
<1>9. release \in KnownReleases /\ release.made \in 0..MaxReleases /\ MaxReleases \in Nat
  BY <1>4, ReleaseTypes, ArtworkAssumption DEF KnownReleases, ReleaseIsSound
<1>10. release' \in Releases
  <2>1. records \in UNION {[held -> 0..MaxRecords] : held \in SUBSET HeldDrops}
    BY <1>6, <1>7, Zenon
  <2>2. release.made + 1 \in 0..MaxReleases
    BY <1>1, <1>9
  <2> QED
    BY <1>3, <2>1, <2>2 DEF Releases
<1>11. ASSUME NEW d \in HeldDrops \ (Carried \cup covered) PROVE LostForGood(d)
  <2>1. d \in Unavailable /\ d \in Wanted
    BY <1>11 DEF covered, HeldDrops
  <2>2. ~ CaptureComplete /\ d \in review.rows
    BY <2>1 DEF Unavailable
  <2>3. ReviewHolds
    BY <1>1, <2>2
  <2>4. d \in Unstored /\ Terminal(checkpoint[Latest(d)].attempts)
    BY <2>2, <2>3 DEF ReviewHolds, AllTerminal
  <2>5. Latest(d) # 0
    BY <2>4 DEF Unstored, Standing
  <2>6. Latest(d) \in DOMAIN checkpoint /\ checkpoint[Latest(d)].drop = d
    BY <1>4, <2>5, LatestRecord
  <2>7. checkpoint[Latest(d)] \in CaptureRecords
    BY <1>4, <2>6, ElementOfSeq, LenProperties
  <2>8. checkpoint[Latest(d)].attempts = [k \in 1..Candidates |-> "gone"]
    BY <2>4, <2>7, TerminalIsGone
  <2> QED
    BY <2>6, <2>8 DEF LostForGood
<1>12. /\ \A d, n : GoodRecord(d, n)' <=> GoodRecord(d, n)
       /\ \A d : LostForGood(d)' <=> LostForGood(d)
  BY <1>2 DEF GoodRecord, LostForGood
<1>13. ReleaseIsSound(release)'
  BY <1>7, <1>8, <1>10, <1>11, <1>12 DEF ReleaseIsSound
<1>14. ASSUME NEW rel \in KnownReleases PROVE (ReleaseIsSound(rel) /\ Knows(rel))'
  <2>1. ReleaseIsSound(rel)'
    BY <1>4, <1>12 DEF ReleaseIsSound
  <2>2. rel.made <= release.made /\ rel.made \in Nat
    BY <1>4, ReleaseTypes DEF Knows, ReleaseIsSound
  <2>3. Knows(rel)'
    BY <1>8, <1>9, <2>2 DEF Knows
  <2> QED
    BY <2>1, <2>3
<1>15. KnownReleases' \subseteq KnownReleases \cup {release'}
  BY <1>2 DEF KnownReleases
<1>16. Knows(release)'
  BY <1>8, <1>9 DEF Knows
<1>17. (\A rel \in KnownReleases : ReleaseIsSound(rel) /\ Knows(rel))'
  BY <1>13, <1>14, <1>15, <1>16
<1>18. ArtRowCount(release') \in Nat
  BY <1>10, ReleaseTypes
<1>19. ArtShardsAreSound'
  <2>1. Len(shardFiles) \in Nat
    BY <1>4, LenProperties DEF ArtworkTypeOK
  <2>2. finalizer' \in 0..(ArtRowCount(release') + 1) /\ Written(release, finalizer - 1)'
    BY <1>1, <1>2, <1>18, <2>1 DEF Written
  <2>3. /\ \A i, j \in DOMAIN shardFiles : i < j => shardFiles[i].drop < shardFiles[j].drop
        /\ \A i \in DOMAIN shardFiles : GoodRecord(shardFiles[i].drop, shardFiles[i].record)
    BY <1>4 DEF ArtShardsAreSound
  <2>4. Written(d1Report, ArtRowCount(d1Report)) /\ Written(artLoader.report, ArtRowCount(artLoader.report))
    BY <1>4 DEF ArtShardsAreSound
  <2>5. (\A i \in DOMAIN shardFiles : GoodRecord(shardFiles[i].drop, shardFiles[i].record))'
    BY <1>2, <1>12, <2>3
  <2> QED
    BY <1>2, <2>2, <2>3, <2>4, <2>5 DEF ArtShardsAreSound, Written
<1>20. RowsAreSound'
  BY <1>2, <1>4 DEF RowsAreSound, Serves
<1>21. CheckpointIsSound'
  BY <1>2, <1>4 DEF CheckpointIsSound
<1>22. ArtworkTypeOK'
  BY <1>2, <1>4, <1>10 DEF ArtworkTypeOK
<1> QED
  BY <1>17, <1>19, <1>20, <1>21, <1>22 DEF ArtworkInv

\* Where only the finalizer, the shards, the report, the loader and what it serves change.
LEMMA LaterKeeps ==
  ASSUME ArtworkInv, UNCHANGED <<artCaptureVars, reportVars, release>>,
         {d1Report', readBack', backedUp', artLoader'.report, artLoader'.release}
            \subseteq KnownReleases
  PROVE  /\ (\A rel \in KnownReleases : ReleaseIsSound(rel) /\ Knows(rel))'
         /\ CheckpointIsSound'
         /\ \A d, n : GoodRecord(d, n)' <=> GoodRecord(d, n)
         /\ shardFiles' \in Seq([drop : HeldDrops, record : 0..MaxRecords]) => ArtworkTypeOK'
<1>1. /\ originals' = originals /\ checkpoint' = checkpoint /\ legible' = legible
      /\ artCapture' = artCapture /\ artReport' = artReport /\ review' = review
      /\ release' = release
  BY DEF artCaptureVars, reportVars
<1>2. /\ \A d, n : GoodRecord(d, n)' <=> GoodRecord(d, n)
      /\ \A d : LostForGood(d)' <=> LostForGood(d)
  BY <1>1 DEF GoodRecord, LostForGood
<1>3. KnownReleases' \subseteq KnownReleases
  BY <1>1 DEF KnownReleases
<1>4. ASSUME NEW rel \in KnownReleases PROVE (ReleaseIsSound(rel) /\ Knows(rel))'
  <2>1. ReleaseIsSound(rel) /\ Knows(rel)
    BY DEF ArtworkInv
  <2> QED
    BY <1>1, <1>2, <2>1 DEF ReleaseIsSound, Knows
<1>5. CheckpointIsSound'
  BY <1>1 DEF ArtworkInv, CheckpointIsSound
<1>6. {release', d1Report', readBack', backedUp'} \subseteq Releases
  <2>1. \A rel \in KnownReleases : rel \in Releases
    BY DEF ArtworkInv, ReleaseIsSound
  <2>2. {release', d1Report', readBack', backedUp'} \subseteq KnownReleases
    BY <1>1 DEF KnownReleases
  <2> QED
    BY <2>1, <2>2
<1>7. ASSUME shardFiles' \in Seq([drop : HeldDrops, record : 0..MaxRecords]) PROVE ArtworkTypeOK'
  BY <1>1, <1>6, <1>7 DEF ArtworkInv, ArtworkTypeOK
<1> QED
  BY <1>2, <1>3, <1>4, <1>5, <1>7

LEMMA WriteShardKeeps ==
  ASSUME ArtworkInv, WriteShard
  PROVE  ArtworkInv'
<1> DEFINE f == finalizer
           row == ShardRow(release, f)
           n == Len(shardFiles)
           Shard == [drop : HeldDrops, record : 0..MaxRecords]
<1>1. /\ f \in 1..ArtRowCount(release)
      /\ IF f <= n
         THEN /\ finalizer' = IF shardFiles[f] = row THEN f + 1 ELSE 0
              /\ UNCHANGED shardFiles
         ELSE shardFiles' = Append(shardFiles, row) /\ finalizer' = f + 1
      /\ UNCHANGED <<artCaptureVars, reportVars, release, d1Report, serveVars>>
  BY DEF WriteShard
<1>2. /\ release' = release /\ d1Report' = d1Report /\ readBack' = readBack
      /\ backedUp' = backedUp /\ artLoader' = artLoader /\ artworkRows' = artworkRows
  BY <1>1 DEF serveVars
<1>3. /\ ArtShardsAreSound /\ RowsAreSound /\ shardFiles \in Seq(Shard) /\ n \in Nat
      /\ release \in KnownReleases /\ ReleaseIsSound(release) /\ release \in Releases
      /\ artLoader.report \in Releases /\ d1Report \in Releases
  BY LenProperties DEF ArtworkInv, ArtworkTypeOK, KnownReleases, ReleaseIsSound
<1>4. {d1Report', readBack', backedUp', artLoader'.report, artLoader'.release} \subseteq KnownReleases
  BY <1>2 DEF KnownReleases
<1>5. /\ ArtRowCount(release) \in Nat /\ f \in Nat /\ f >= 1 /\ f <= ArtRowCount(release)
      /\ ArtRowCount(artLoader.report) \in Nat /\ ArtRowCount(d1Report) \in Nat
  BY <1>1, <1>3, ReleaseTypes
<1>6. row \in Shard /\ GoodRecord(row.drop, row.record)
  <2>1. row.drop \in DOMAIN release.objects /\ row = [drop |-> row.drop, record |-> release.objects[row.drop]]
    BY <1>1, <1>3, ShardRows
  <2>2. /\ DOMAIN release.objects \subseteq HeldDrops
        /\ release.objects \in [DOMAIN release.objects -> 0..MaxRecords]
    BY <1>3, ReleaseTypes
  <2> HIDE DEF row
  <2>3. release.objects[row.drop] \in 0..MaxRecords /\ row.record = release.objects[row.drop]
    BY <2>1, <2>2
  <2> QED
    BY <1>3, <2>1, <2>2, <2>3 DEF ReleaseIsSound
<1>7. Written(release, f - 1)
  BY <1>3, <1>5 DEF ArtShardsAreSound
<1>8. f <= n \/ f = n + 1
  BY <1>3, <1>5, <1>7 DEF Written
<1>9. /\ (\A rel \in KnownReleases : ReleaseIsSound(rel) /\ Knows(rel))' /\ CheckpointIsSound'
      /\ \A d, k : GoodRecord(d, k)' <=> GoodRecord(d, k)
      /\ shardFiles' \in Seq(Shard) => ArtworkTypeOK'
  BY <1>1, <1>4, LaterKeeps
<1> HIDE DEF row, n
<1>10. CASE f <= n
  <2>1. shardFiles' = shardFiles /\ finalizer' \in {0, f + 1}
    BY <1>1, <1>10
  <2>2. finalizer' \in 0..(ArtRowCount(release) + 1)
    BY <1>5, <2>1
  <2>3. ASSUME finalizer' # 0 PROVE Written(release, f)
    <3>1. shardFiles[f] = row
      BY <1>1, <1>10, <2>3
    <3> QED
      BY <1>3, <1>5, <1>7, <1>10, <3>1 DEF Written, n, row
  <2>4. ASSUME finalizer' # 0 PROVE Written(release, finalizer - 1)'
    <3>1. finalizer' - 1 = f
      <4>1. finalizer' = f + 1 /\ f \in Nat
        BY <1>5, <2>1, <2>4
      <4> HIDE DEF f
      <4> QED
        BY <4>1
    <3>2. f <= Len(shardFiles) /\ \A i \in 1..f : shardFiles[i] = ShardRow(release, i)
      BY <2>3, <2>4 DEF Written
    <3> QED
      BY <1>2, <2>1, <3>1, <3>2 DEF Written
  <2>5. ArtShardsAreSound'
    BY <1>2, <1>3, <1>9, <2>1, <2>2, <2>4 DEF ArtShardsAreSound, Written
  <2>6. RowsAreSound'
    BY <1>2, <1>3, <2>1 DEF RowsAreSound, Serves
  <2> QED
    BY <1>3, <1>9, <2>1, <2>5, <2>6 DEF ArtworkInv
<1>11. CASE f = n + 1
  <2>1. shardFiles' = Append(shardFiles, row) /\ finalizer' = f + 1
    BY <1>1, <1>3, <1>11
  <2>2. /\ shardFiles' \in Seq(Shard) /\ Len(shardFiles') = n + 1
        /\ \A i \in 1..n : shardFiles'[i] = shardFiles[i]
        /\ shardFiles'[n + 1] = row
        /\ DOMAIN shardFiles = 1..n /\ DOMAIN shardFiles' = 1..(n + 1)
    <3>1. /\ Append(shardFiles, row) \in Seq(Shard) /\ Len(Append(shardFiles, row)) = n + 1
          /\ \A i \in 1..n : Append(shardFiles, row)[i] = shardFiles[i]
          /\ Append(shardFiles, row)[n + 1] = row
      BY <1>3, <1>6, AppendProperties DEF n
    <3> QED
      BY <1>3, <2>1, <3>1, LenProperties DEF n
  <2>3. ASSUME NEW rel, NEW k \in Nat, Written(rel, k) PROVE Written(rel, k)'
    BY <1>3, <2>2, <2>3 DEF Written, n
  <2>4. f <= Len(shardFiles') /\ \A i \in 1..f : shardFiles'[i] = ShardRow(release, i)
    <3>1. \A i \in 1..(f - 1) : shardFiles'[i] = ShardRow(release, i)
      BY <1>3, <1>7, <1>11, <2>2 DEF Written
    <3> QED
      BY <1>3, <1>5, <1>11, <2>2, <3>1 DEF row
  <2>5. \A i \in 1..n : shardFiles'[i].drop < shardFiles'[n + 1].drop
    <3> TAKE i \in 1..n
    <3>1. shardFiles'[i] = ShardRow(release, i)
      BY <1>3, <1>7, <1>11, <2>2 DEF Written
    <3>2. i \in 1..ArtRowCount(release) /\ f \in 1..ArtRowCount(release) /\ i < f
      BY <1>3, <1>5, <1>11
    <3>3. ShardRow(release, i).drop < ShardRow(release, f).drop
      BY <1>3, <3>2, ShardRows
    <3> QED
      BY <2>2, <3>1, <3>3 DEF row
  <2>6. \A i, j \in DOMAIN shardFiles' : i < j => shardFiles'[i].drop < shardFiles'[j].drop
    <3> TAKE i, j \in DOMAIN shardFiles'
    <3> HAVE i < j
    <3>1. CASE j = n + 1
      <4>1. i \in 1..n
        BY <1>3, <2>2, <3>1
      <4> QED
        BY <2>5, <3>1, <4>1
    <3>2. CASE j # n + 1
      <4>1. i \in 1..n /\ j \in 1..n
        BY <1>3, <2>2, <3>2
      <4> QED
        BY <1>3, <2>2, <4>1 DEF ArtShardsAreSound
    <3> QED
      BY <3>1, <3>2
  <2>7. \A i \in DOMAIN shardFiles' : GoodRecord(shardFiles'[i].drop, shardFiles'[i].record)
    <3> TAKE i \in DOMAIN shardFiles'
    <3>1. CASE i = n + 1
      BY <1>6, <2>2, <3>1
    <3>2. CASE i # n + 1
      <4>1. i \in 1..n
        BY <1>3, <2>2, <3>2
      <4> QED
        BY <1>3, <2>2, <4>1 DEF ArtShardsAreSound
    <3> QED
      BY <3>1, <3>2
  <2>8. finalizer' \in 0..(ArtRowCount(release) + 1) /\ Written(release, finalizer - 1)'
    <3>1. finalizer' \in 0..(ArtRowCount(release) + 1) /\ finalizer' - 1 = f
      BY <1>5, <2>1
    <3> QED
      BY <1>2, <2>4, <3>1 DEF Written
  <2>9. Written(d1Report, ArtRowCount(d1Report))' /\ Written(artLoader.report, ArtRowCount(artLoader.report))'
    <3>1. Written(d1Report, ArtRowCount(d1Report)) /\ Written(artLoader.report, ArtRowCount(artLoader.report))
      BY <1>3 DEF ArtShardsAreSound
    <3> QED
      BY <1>2, <1>3, <1>5, <2>2, <3>1 DEF Written, n
  <2>10. ArtShardsAreSound'
    BY <1>2, <1>9, <2>6, <2>7, <2>8, <2>9 DEF ArtShardsAreSound
  <2>11. RowsAreSound'
    <3>1. /\ artLoader' \in LoaderTypes /\ artLoader'.at \in 0..(ArtRowCount(artLoader'.report) + 1)
          /\ Serves(readBack.objects)' /\ Serves(backedUp.objects)'
      BY <1>2, <1>3 DEF RowsAreSound, Serves
    <3>2. \A d \in DOMAIN artworkRows' :
            \E i \in DOMAIN shardFiles' : shardFiles'[i] = [drop |-> d, record |-> artworkRows'[d]]
      BY <1>2, <1>3, <2>2 DEF RowsAreSound
    <3>3. artLoader.at - 1 <= n
      <4>1. artLoader.at \in 0..(ArtRowCount(artLoader.report) + 1)
        BY <1>3 DEF RowsAreSound
      <4>2. ArtRowCount(artLoader.report) <= n
        BY <1>3 DEF ArtShardsAreSound, Written, n
      <4> QED
        BY <1>3, <1>5, <4>1, <4>2
    <3>4. \A i \in 1..(artLoader'.at - 1) :
            /\ shardFiles'[i].drop \in DOMAIN artworkRows'
            /\ artworkRows'[shardFiles'[i].drop] = shardFiles'[i].record
      <4> TAKE i \in 1..(artLoader'.at - 1)
      <4>1. i \in 1..n /\ i \in 1..(artLoader.at - 1)
        <5>1. artLoader.at \in 0..(ArtRowCount(artLoader.report) + 1) /\ i \in 1..(artLoader.at - 1)
          BY <1>2, <1>3 DEF RowsAreSound
        <5> QED
          BY <1>3, <1>5, <3>3, <5>1
      <4> QED
        BY <1>2, <1>3, <2>2, <4>1 DEF RowsAreSound
    <3> QED
      BY <3>1, <3>2, <3>4 DEF RowsAreSound
  <2> QED
    BY <1>9, <2>2, <2>10, <2>11 DEF ArtworkInv
<1> QED
  BY <1>8, <1>10, <1>11

LEMMA FinalizeStopKeeps ==
  ASSUME ArtworkInv, WriteD1Report \/ KillFinalize
  PROVE  ArtworkInv'
<1>1. /\ finalizer' = 0
      /\ \/ d1Report' = d1Report
         \/ d1Report' = release /\ finalizer = ArtRowCount(release) + 1
      /\ UNCHANGED <<artCaptureVars, reportVars, release, shardFiles, serveVars>>
  BY DEF WriteD1Report, KillFinalize
<1>2. /\ release' = release /\ shardFiles' = shardFiles /\ readBack' = readBack
      /\ backedUp' = backedUp /\ artLoader' = artLoader /\ artworkRows' = artworkRows
  BY <1>1 DEF serveVars
<1>3. /\ ArtShardsAreSound /\ RowsAreSound
      /\ shardFiles \in Seq([drop : HeldDrops, record : 0..MaxRecords])
      /\ release \in Releases
  BY DEF ArtworkInv, ArtworkTypeOK
<1>4. {d1Report', readBack', backedUp', artLoader'.report, artLoader'.release} \subseteq KnownReleases
  BY <1>1, <1>2 DEF KnownReleases
<1>5. /\ (\A rel \in KnownReleases : ReleaseIsSound(rel) /\ Knows(rel))' /\ CheckpointIsSound'
      /\ \A d, k : GoodRecord(d, k)' <=> GoodRecord(d, k)
      /\ ArtworkTypeOK'
  BY <1>1, <1>2, <1>3, <1>4, LaterKeeps
<1>6. ArtRowCount(release) \in Nat
  BY <1>3, ReleaseTypes
<1>7. Written(d1Report, ArtRowCount(d1Report))'
  <2>1. CASE d1Report' = d1Report
    BY <1>2, <1>3, <2>1 DEF ArtShardsAreSound, Written
  <2>2. CASE d1Report' = release /\ finalizer = ArtRowCount(release) + 1
    <3>1. finalizer - 1 = ArtRowCount(release) /\ finalizer # 0
      BY <1>6, <2>2
    <3>2. Written(release, ArtRowCount(release))
      BY <1>3, <3>1 DEF ArtShardsAreSound
    <3> QED
      BY <1>2, <2>2, <3>2 DEF Written
  <2> QED
    BY <1>1, <2>1, <2>2
<1>8. ArtShardsAreSound'
  <2>1. finalizer' \in 0..(ArtRowCount(release) + 1)
    BY <1>1, <1>6
  <2>2. (\A i \in DOMAIN shardFiles : GoodRecord(shardFiles[i].drop, shardFiles[i].record))'
    BY <1>2, <1>3, <1>5 DEF ArtShardsAreSound
  <2> QED
    BY <1>1, <1>2, <1>3, <1>7, <2>1, <2>2 DEF ArtShardsAreSound, Written
<1>9. RowsAreSound'
  BY <1>2, <1>3 DEF RowsAreSound, Serves
<1> QED
  BY <1>5, <1>8, <1>9 DEF ArtworkInv

\* A Drop has one shard at most.
LEMMA OneShardPerDrop ==
  ASSUME ArtworkInv, NEW i \in DOMAIN shardFiles, NEW j \in DOMAIN shardFiles,
         shardFiles[i].drop = shardFiles[j].drop
  PROVE  i = j
<1>1. /\ shardFiles \in Seq([drop : HeldDrops, record : 0..MaxRecords])
      /\ \A k, l \in DOMAIN shardFiles : k < l => shardFiles[k].drop < shardFiles[l].drop
  BY DEF ArtworkInv, ArtworkTypeOK, ArtShardsAreSound
<1>2. i \in Nat /\ j \in Nat
  BY <1>1, LenProperties
<1>3. shardFiles[i].drop \in Nat
  <2>1. shardFiles[i] \in [drop : HeldDrops, record : 0..MaxRecords]
    BY <1>1, ElementOfSeq, LenProperties
  <2> QED
    BY <2>1, HeldAreFinite
<1>4. ~ (i < j)
  BY <1>1, <1>3
<1>5. ~ (j < i)
  BY <1>1, <1>3
<1> QED
  BY <1>2, <1>4, <1>5

\* Where only the loader, the rows and the proofs of what they are change.
LEMMA ServingKeeps ==
  ASSUME ArtworkInv, UNCHANGED <<artCaptureVars, reportVars, releaseVars>>,
         artLoader'.report \in {d1Report, artLoader.report, NoRelease},
         {readBack', backedUp', artLoader'.release} \subseteq KnownReleases \cup {NoRelease},
         RowsAreSound'
  PROVE  ArtworkInv'
<1>1. /\ release' = release /\ shardFiles' = shardFiles /\ d1Report' = d1Report /\ finalizer' = finalizer
  BY DEF releaseVars
<1>2. ArtShardsAreSound /\ shardFiles \in Seq([drop : HeldDrops, record : 0..MaxRecords])
  BY DEF ArtworkInv, ArtworkTypeOK
<1>3. {d1Report', readBack', backedUp', artLoader'.report, artLoader'.release} \subseteq KnownReleases
  BY <1>1 DEF KnownReleases
<1>4. /\ (\A rel \in KnownReleases : ReleaseIsSound(rel) /\ Knows(rel))' /\ CheckpointIsSound'
      /\ \A d, k : GoodRecord(d, k)' <=> GoodRecord(d, k)
      /\ ArtworkTypeOK'
  BY <1>1, <1>2, <1>3, LaterKeeps DEF releaseVars
<1>5. Written(artLoader'.report, ArtRowCount(artLoader'.report))
  <2>1. Written(NoRelease, ArtRowCount(NoRelease))
    <3>1. Len(shardFiles) \in Nat
      BY <1>2, LenProperties
    <3> QED
      BY <3>1, NoReleaseIsOne DEF Written
  <2> QED
    BY <1>2, <2>1 DEF ArtShardsAreSound
<1>6. ArtShardsAreSound'
  <2>1. (\A i \in DOMAIN shardFiles : GoodRecord(shardFiles[i].drop, shardFiles[i].record))'
    BY <1>1, <1>2, <1>4 DEF ArtShardsAreSound
  <2> QED
    BY <1>1, <1>2, <1>5, <2>1 DEF ArtShardsAreSound, Written
<1> QED
  BY <1>4, <1>6 DEF ArtworkInv

LEMMA LoadKeeps ==
  ASSUME ArtworkInv, StartLoad \/ LoadShard \/ ReadRows \/ KillLoad \/ BackUp
  PROVE  ArtworkInv'
<1>1. /\ ArtShardsAreSound /\ RowsAreSound
      /\ artLoader.report \in Releases /\ release \in Releases /\ d1Report \in Releases
      /\ shardFiles \in Seq([drop : HeldDrops, record : 0..MaxRecords])
      /\ \A rel \in KnownReleases : ReleaseIsSound(rel) /\ Knows(rel)
  BY DEF ArtworkInv, ArtworkTypeOK, KnownReleases, ReleaseIsSound
<1>2. /\ ArtRowCount(artLoader.report) \in Nat /\ artLoader.at \in 0..(ArtRowCount(artLoader.report) + 1)
      /\ ArtRowCount(d1Report) \in Nat
  BY <1>1, ReleaseTypes DEF RowsAreSound
<1>3. Written(artLoader.report, ArtRowCount(artLoader.report))
  BY <1>1 DEF ArtShardsAreSound
<1>4. Len(shardFiles) \in Nat /\ DOMAIN shardFiles = 1..Len(shardFiles)
  BY <1>1, LenProperties
<1>5. /\ NoLoad.at = 0 /\ NoLoad.report = NoRelease /\ NoLoad.release = NoRelease
      /\ NoLoad \in LoaderTypes /\ ArtRowCount(NoRelease) = 0
  BY NoLoadType, NoReleaseIsOne
<1>6. CASE StartLoad
  <2>1. /\ artLoader' = [at |-> 1, report |-> d1Report, release |-> release]
        /\ UNCHANGED <<artCaptureVars, reportVars, releaseVars, artworkRows, readBack, backedUp>>
    BY <1>6 DEF StartLoad
  <2>2. artLoader'.at = 1 /\ artLoader'.report = d1Report /\ artLoader'.release = release
        /\ releaseVars' = releaseVars /\ shardFiles' = shardFiles
    BY <2>1 DEF releaseVars
  <2>3. RowsAreSound'
    <3>1. artLoader' \in LoaderTypes
      BY <1>1, <2>1 DEF LoaderTypes
    <3> QED
      BY <1>1, <1>2, <2>1, <2>2, <3>1 DEF RowsAreSound, Serves
  <2> QED
    BY <2>1, <2>2, <2>3, ServingKeeps DEF KnownReleases
<1>7. CASE KillLoad
  <2>1. /\ artLoader' = NoLoad
        /\ UNCHANGED <<artCaptureVars, reportVars, releaseVars, artworkRows, readBack, backedUp>>
    BY <1>7 DEF KillLoad
  <2>2. releaseVars' = releaseVars /\ shardFiles' = shardFiles
    BY <2>1 DEF releaseVars
  <2>3. RowsAreSound'
    BY <1>1, <1>5, <2>1, <2>2 DEF RowsAreSound, Serves
  <2> QED
    BY <1>5, <2>1, <2>3, ServingKeeps DEF KnownReleases
<1>8. CASE BackUp
  <2>1. /\ backedUp' = release /\ readBack.made = release.made
        /\ UNCHANGED <<artCaptureVars, reportVars, releaseVars, artLoader, artworkRows, readBack>>
    BY <1>8 DEF BackUp, Proven
  <2>2. releaseVars' = releaseVars /\ shardFiles' = shardFiles
    BY <2>1 DEF releaseVars
  <2>3. readBack = release
    BY <1>1, <2>1 DEF Knows, KnownReleases
  <2>4. RowsAreSound'
    BY <1>1, <2>1, <2>2, <2>3 DEF RowsAreSound, Serves
  <2> QED
    BY <2>1, <2>4, ServingKeeps DEF KnownReleases
<1>9. CASE ReadRows
  <2>1. /\ artLoader.at = ArtRowCount(artLoader.report) + 1
        /\ readBack' \in {artLoader.report, readBack} /\ artLoader' = NoLoad
        /\ UNCHANGED <<artCaptureVars, reportVars, releaseVars, artworkRows, backedUp>>
    BY <1>9 DEF ReadRows
  <2>2. releaseVars' = releaseVars /\ shardFiles' = shardFiles
    BY <2>1 DEF releaseVars
  <2>3. Serves(artLoader.report.objects)
    <3>1. SUFFICES ASSUME NEW d \in DOMAIN artLoader.report.objects
                   PROVE  d \in DOMAIN artworkRows /\ artworkRows[d] = artLoader.report.objects[d]
      BY DEF Serves
    <3>2. PICK i \in 1..ArtRowCount(artLoader.report) :
            ShardRow(artLoader.report, i) = [drop |-> d, record |-> artLoader.report.objects[d]]
      BY <1>1, ShardRows
    <3>3. shardFiles[i] = [drop |-> d, record |-> artLoader.report.objects[d]]
      BY <1>3, <3>2 DEF Written
    <3>4. i \in 1..(artLoader.at - 1)
      BY <1>2, <2>1
    <3>5. shardFiles[i].drop = d /\ shardFiles[i].record = artLoader.report.objects[d]
      BY <3>3
    <3> QED
      BY <1>1, <3>4, <3>5 DEF RowsAreSound
  <2>4. RowsAreSound'
    BY <1>1, <1>5, <2>1, <2>2, <2>3 DEF RowsAreSound, Serves
  <2> QED
    BY <1>5, <2>1, <2>4, ServingKeeps DEF KnownReleases
<1>10. CASE LoadShard
  <2> DEFINE at == artLoader.at
  <2>1. PICK row : row = shardFiles[at]
    OBVIOUS
  <2>2. /\ at \in 1..ArtRowCount(artLoader.report) /\ artworkRows' = WithRow(row)
        /\ artLoader' = [artLoader EXCEPT !.at = @ + 1]
        /\ UNCHANGED <<artCaptureVars, reportVars, releaseVars, readBack, backedUp>>
    BY <1>10, <2>1 DEF LoadShard
  <2>3. releaseVars' = releaseVars /\ shardFiles' = shardFiles
    BY <2>2 DEF releaseVars
  <2>4. /\ DOMAIN artworkRows' = DOMAIN artworkRows \cup {row.drop}
        /\ \A d \in DOMAIN artworkRows : artworkRows'[d] = artworkRows[d]
        /\ row.drop \notin DOMAIN artworkRows => artworkRows'[row.drop] = row.record
    BY <2>2 DEF WithRow
  <2>5. at \in DOMAIN shardFiles
    BY <1>2, <1>3, <1>4, <2>2 DEF Written
  <2>6. row = [drop |-> row.drop, record |-> row.record]
    <3>1. row \in [drop : HeldDrops, record : 0..MaxRecords]
      BY <1>1, <1>4, <2>1, <2>5, ElementOfSeq
    <3> QED
      BY <3>1
  <2>7. artworkRows'[row.drop] = row.record
    <3>1. CASE row.drop \in DOMAIN artworkRows
      <4>1. PICK i \in DOMAIN shardFiles :
              shardFiles[i] = [drop |-> row.drop, record |-> artworkRows[row.drop]]
        BY <1>1, <3>1 DEF RowsAreSound
      <4>2. i = at
        BY <2>1, <2>5, <4>1, OneShardPerDrop
      <4> QED
        BY <2>1, <2>4, <3>1, <4>1, <4>2
    <3> QED
      BY <2>4, <3>1
  <2>8. artLoader'.report = artLoader.report /\ artLoader'.release = artLoader.release
    BY <2>2
  <2>9. artLoader'.at = at + 1 /\ artLoader' \in LoaderTypes
    BY <1>1, <2>2 DEF RowsAreSound, LoaderTypes
  <2>10. RowsAreSound'
    <3>1. artLoader'.at \in 0..(ArtRowCount(artLoader'.report) + 1)
      BY <1>2, <2>2, <2>8, <2>9
    <3>2. \A d \in DOMAIN artworkRows' :
            \E i \in DOMAIN shardFiles' : shardFiles'[i] = [drop |-> d, record |-> artworkRows'[d]]
      <4> TAKE d \in DOMAIN artworkRows'
      <4>1. CASE d \in DOMAIN artworkRows
        BY <1>1, <2>3, <2>4, <4>1 DEF RowsAreSound
      <4>2. CASE d = row.drop
        BY <2>1, <2>3, <2>5, <2>6, <2>7, <4>2
      <4> QED
        BY <2>4, <4>1, <4>2
    <3>3. \A i \in 1..(artLoader'.at - 1) :
            /\ shardFiles'[i].drop \in DOMAIN artworkRows'
            /\ artworkRows'[shardFiles'[i].drop] = shardFiles'[i].record
      <4> TAKE i \in 1..(artLoader'.at - 1)
      <4>1. i = at \/ i \in 1..(artLoader.at - 1)
        BY <1>2, <2>9
      <4>2. CASE i = at
        BY <2>1, <2>3, <2>4, <2>7, <4>2
      <4>3. CASE i \in 1..(artLoader.at - 1)
        BY <1>1, <2>3, <2>4, <4>3 DEF RowsAreSound
      <4> QED
        BY <4>1, <4>2, <4>3
    <3>4. Serves(readBack.objects)' /\ Serves(backedUp.objects)'
      BY <1>1, <2>2, <2>4 DEF RowsAreSound, Serves
    <3> QED
      BY <2>9, <3>1, <3>2, <3>3, <3>4 DEF RowsAreSound
  <2> QED
    BY <2>2, <2>8, <2>10, ServingKeeps DEF KnownReleases
<1> QED
  BY <1>6, <1>7, <1>8, <1>9, <1>10

THEOREM ArtworkInvariance == ArtworkSpec => []ArtworkInv
<1>1. ArtworkInit => ArtworkInv
  BY ArtworkInitInv
<1>2. ArtworkInv /\ [ArtworkNext]_artworkVars => ArtworkInv'
  <2> SUFFICES ASSUME ArtworkInv, [ArtworkNext]_artworkVars PROVE ArtworkInv'
    OBVIOUS
  <2>1. CASE \E c \in Capturers :
                \/ StartCapture(c) \/ WriteHeader(c) \/ EndCapture(c) \/ KillCapture(c)
                \/ \E r \in CaptureRecords : CaptureOne(c, r)
    BY <2>1, CaptureKeeps, CaptureOneKeeps
  <2>2. CASE ReviewUnavailable
    BY <2>2, ReviewKeeps
  <2>3. CASE FinalizeArtwork
    BY <2>3, FinalizeKeeps
  <2>4. CASE WriteShard
    BY <2>4, WriteShardKeeps
  <2>5. CASE WriteD1Report \/ KillFinalize
    BY <2>5, FinalizeStopKeeps
  <2>6. CASE StartLoad \/ LoadShard \/ ReadRows \/ KillLoad \/ BackUp
    BY <2>6, LoadKeeps
  <2>7. CASE UNCHANGED artworkVars
    <3>1. /\ UNCHANGED <<releaseVars, serveVars>> /\ originals' = originals
          /\ checkpoint' = checkpoint /\ legible' = legible /\ artCapture' = artCapture
          /\ artReport' = artReport /\ review' = review
      BY <2>7 DEF artworkVars, artCaptureVars, reportVars
    <3> QED
      BY <3>1, QuietKeeps DEF ArtworkInv, ArtworkTypeOK, CaptureTypes
  <2> QED
    BY <2>1, <2>2, <2>3, <2>4, <2>5, <2>6, <2>7 DEF ArtworkNext
<1> QED
  BY <1>1, <1>2, PTL DEF ArtworkSpec

THEOREM ReleasesStayRight == ArtworkSpec => []ReleasesAreRight
<1>1. ArtworkInv => ReleasesAreRight
  <2> SUFFICES ASSUME ArtworkInv PROVE ReleasesAreRight
    OBVIOUS
  <2>1. /\ ReleaseIsSound(release) /\ ReleaseIsSound(backedUp) /\ RowsAreSound
        /\ ArtworkTypeOK /\ ArtShardsAreSound
    BY DEF ArtworkInv, KnownReleases
  <2>2. ASSUME NEW d \in DOMAIN artworkRows PROVE GoodRecord(d, artworkRows[d])
    BY <2>1 DEF RowsAreSound, ArtShardsAreSound
  <2>3. NamedIsStored
    BY <2>1, <2>2 DEF NamedIsStored, ReleaseIsSound, GoodRecord
  <2>4. LeftOutForGood
    <3>1. ASSUME NEW rel \in {release, backedUp} \ {NoRelease}, NEW d \in HeldDrops \ DOMAIN rel.objects
          PROVE  LostForGood(d)
      BY <2>1, <3>1 DEF ReleaseIsSound
    <3> QED
      BY <3>1 DEF LeftOutForGood, LostForGood
  <2>5. BackedUpIsServed
    BY <2>1 DEF BackedUpIsServed, RowsAreSound, Serves
  <2> QED
    BY <2>1, <2>3, <2>4, <2>5 DEF ReleasesAreRight
<1> QED
  BY <1>1, ArtworkInvariance, PTL
===============================================================================
