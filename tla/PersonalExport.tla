---------------------------- MODULE PersonalExport ----------------------------
(***************************************************************************)
(* The personal archive that a browser tab puts together from the public    *)
(* API (collectPersonalArchive): a manifest that names the releases and     *)
(* counts their rows, then page after page of holdings, Moments, Capsules   *)
(* and Collections, and the details of every Drop they refer to.            *)
(*                                                                          *)
(* Nothing on the server remembers the export.  Meanwhile a new version of  *)
(* the worker may be rolled out, bound to other releases: for a while the   *)
(* old and the new one answer, and the edge keeps the answers of versions   *)
(* long gone, under keys made of release identities.  The tab compares what *)
(* an answer says of its releases with the manifest.                        *)
(*                                                                          *)
(* A release never changes.  Left out: pacing, the columns of the rows, the *)
(* loading of a database while a version is bound to it (SnapshotLoaders),  *)
(* and the ZIP that is made of the archive.                                 *)
(***************************************************************************)
EXTENDS Integers, FiniteSets, FiniteSetsExt

CONSTANTS
  Keys,         \* the rows of each list, per edition of the list's source
  Memberships,  \* <<drop, collection>>, per edition of the Collections
  Profiles,     \* collections with a public profile, likewise
  PrivateCards, \* private and hidden Drops of Collections, likewise
  PublicDrops,  \* Drops with details in the catalog, per edition of it
  ArtworkDrops, \* Drops with details in the Holdings media, per edition
  Limit,        \* rows of a page and ids of a batch
  MaxBusy,      \* MAX_RATE_LIMIT_RETRIES
  MaxVersion    \* bound: versions of the worker

VARIABLES
  changed,  \* the sources of which the second version has the new edition
  split,    \* the catalog has a snapshot of its own; else one snapshot has both
  serving,  \* versions of the worker that answer
  newest,   \* the version deployed last
  tab       \* the export

exportVars == <<changed, split, serving, newest, tab>>

Sources == {"holdings", "media", "catalog", "collections", "moments"}

\* The second version brings new releases, the third is the first one again.
Edition(v, source) == IF v = 2 /\ source \in changed THEN "new" ELSE "old"

Same(v, w, sources) == \A s \in sources : Edition(v, s) = Edition(w, s)

\* SNAPSHOT_ID and HOLDINGS_SNAPSHOT_ID.
SnapshotId(v, source) ==
  <<IF split THEN source ELSE "archive", Edition(v, source)>>

MomentLists == {"moments", "tagged", "capsules"}
RecordLists == {"items", "extra"}   \* declared always, and when not empty
Lists == {"holdings", "owned"} \cup MomentLists \cup RecordLists

\* Rows are known by numbers, as Drops and Collections are, and end somewhere.
ASSUME ExportAssumption ==
  /\ Limit \in Nat \ {0} /\ MaxBusy \in Nat /\ MaxVersion \in Nat \ {0}
  /\ \A e \in {"old", "new"} :
       /\ \A l \in Lists : Keys[l][e] \in SUBSET (Nat \ {0}) /\ IsFiniteSet(Keys[l][e])
       /\ Memberships[e] \in SUBSET (Nat \X Nat)
       /\ PublicDrops[e] \in SUBSET Nat /\ IsFiniteSet(PublicDrops[e])

SourceOf(list) ==
  CASE list = "holdings" -> "holdings"
    [] list \in MomentLists -> "moments"
    [] OTHER -> "collections"

\* Tokens may be of one Drop. A Moment is known by its Drop and its
\* Collection, a record by its Collection (tens) and its Drop (units).
HeldDrop(token) == 1 + ((token - 1) % 2)
CollectionOf(record) == record \div 10
DropOf(record) == record % 10

-----------------------------------------------------------------------------
(* What the worker answers. *)

\* The rows of a list; of one Collection c for the lists of records.
RowsOf(v, list, c) ==
  {k \in Keys[list][Edition(v, SourceOf(list))] :
     list \in RecordLists => CollectionOf(k) = c}

\* The rows that a manifest counts.
CountOf(v, list, c) == Cardinality(RowsOf(v, list, c))

\* ORDER BY the key, LIMIT.
PageOf(rows, after) ==
  {k \in rows : k > after /\ Cardinality({j \in rows : after < j /\ j < k}) < Limit}

\* Mistake: one row more than a page is taken for the last page.
LastPageEarly(rows, after) == Cardinality({k \in rows : k > after}) <= Limit + 1

\* nextCursor is null.
LastPage(rows, after) == Cardinality({k \in rows : k > after}) <= Limit

\* Details of a held Drop: public, else a card of a Collection, else with the
\* artwork archived for the Holdings; a missing Drop has none.
Detail(v, d) ==
  LET public == PublicDrops[Edition(v, "catalog")]
      cards == PrivateCards[Edition(v, "collections")]
  IN CASE d \in public -> "public"
       [] d \in cards \ public -> "private"
       [] d \in ArtworkDrops[Edition(v, "media")] \ (public \cup cards) -> Edition(v, "media")
       [] OTHER -> "none"

MembershipsOf(v, drops) ==
  {p \in Memberships[Edition(v, "collections")] : p[1] \in drops}

ProfilesOf(v, collections) == collections \cap Profiles[Edition(v, "collections")]

PublicOf(v, drops) == drops \cap PublicDrops[Edition(v, "catalog")]

\* Mistake: holdings pages are cached whatever Collections had cards of their
\* Drops.
KeySourcesShort(at) ==
  CASE at = "manifest" -> Sources
    [] at = "holdings" -> {"holdings", "media", "catalog"}
    [] at \in MomentLists -> {"moments"}
    [] at = "drops" -> {"catalog"}
    [] OTHER -> {"collections"}

\* What the cache key of an answer names.
KeySources(at) ==
  CASE at = "manifest" -> Sources
    [] at = "holdings" -> {"holdings", "media", "catalog", "collections"}
    [] at \in MomentLists -> {"moments"}
    [] at = "drops" -> {"catalog"}
    [] OTHER -> {"collections"}

-----------------------------------------------------------------------------
(* The tab. *)

NoExport == [at |-> "idle"]
Stopped(why) == [at |-> "stopped", why |-> why, moved |-> tab.moved]
Running == tab.at \notin {"idle", "stopped", "done"}

\* A further request, or the first of a list or of a batch.
Turn(t, at) == [t EXCEPT !.at = at, !.cursor = 0, !.seen = {}, !.busy = 0]

\* The rows of the list that is read, those of the Collection at hand.
Own(t, list) ==
  {k \in t.got[list] : list \in RecordLists => CollectionOf(k) = t.collection}

HeldDrops(t) == {HeldDrop(k) : k \in t.got["holdings"]}
TheirMoments(t) == t.got["moments"] \cup t.got["tagged"]

\* allCollectionIds
Needed(t) == {p[2] : p \in t.members} \cup t.got["owned"] \cup TheirMoments(t)

\* referencedDropIds
Referenced(t) ==
  HeldDrops(t) \cup TheirMoments(t)
    \cup {DropOf(k) : k \in t.got["items"] \cup t.got["extra"]}

Known(t) == {p[1] : p \in t.known}

\* Mistake: the first ids of a batch are asked for again.
PendingAgain(t) ==
  CASE t.at = "memberships" -> HeldDrops(t)
    [] t.at = "profiles" -> Needed(t) \ t.profiles
    [] t.at = "contents" -> t.got["owned"] \ t.read
    [] t.at = "drops" -> Referenced(t) \ (Known(t) \cup t.gone)

\* What a stage that asks for batches has not asked for.
Pending(t) ==
  CASE t.at = "memberships" -> HeldDrops(t) \ t.asked
    [] t.at = "profiles" -> Needed(t) \ t.profiles
    [] t.at = "contents" -> t.got["owned"] \ t.read
    [] t.at = "drops" -> Referenced(t) \ (Known(t) \cup t.gone)

Ids == PageOf(Pending(tab), 0)

\* A request is out; those of the first stage are neither paced nor repeated.
Asking == Running /\ (tab.at \notin Lists \cup {"manifest"} => Pending(tab) # {})

Start ==
  /\ ~Running
  /\ tab' = [at |-> "manifest", busy |-> 0, cursor |-> 0, moved |-> Cardinality(serving) > 1]
  /\ UNCHANGED <<changed, split, serving, newest>>

\* Whom the cursor of the next page was given by.
Giver == IF tab.at = "moments" THEN tab.first ELSE tab.of

\* A cursor is bound to the release or, in Collections, to the snapshot, which
\* two releases may share.
Foreign(v) ==
  tab.cursor # 0 /\ ~Same(v, Giver, {SourceOf(tab.at)})

\* The answer of w arrives, made now or found in the cache.
Answers(w) ==
  \E v \in serving :
    /\ Same(v, w, KeySources(tab.at))
    /\ Foreign(v) => SourceOf(tab.at) = "collections"

\* Mistake: the Collections of a holdings page are not compared.
FitsLoosely(w) ==
  CASE tab.at = "holdings" -> Same(w, tab.of, {"holdings", "catalog"})
    [] tab.at = "moments" -> tab.first # 0 => Same(w, tab.first, {"moments"})
    [] tab.at = "drops" -> SnapshotId(w, "catalog") = SnapshotId(tab.of, "holdings")
    [] tab.at \in {"tagged", "capsules"} -> Same(w, tab.of, {"moments"})
    [] OTHER -> Same(w, tab.of, {"collections"})

\* What the tab compares with the manifest or, for the Moments of an author,
\* with the first page.
Fits(w) ==
  CASE tab.at = "holdings" -> Same(w, tab.of, {"holdings", "catalog", "collections"})
    [] tab.at = "moments" -> tab.first # 0 => Same(w, tab.first, {"moments"})
    [] tab.at = "drops" -> SnapshotId(w, "catalog") = SnapshotId(tab.of, "holdings")
    [] tab.at \in {"tagged", "capsules"} -> Same(w, tab.of, {"moments"})
    [] OTHER -> Same(w, tab.of, {"collections"})

\* A Drop of a page is known with other details, or is on the other side.
Contradicted(w, page) ==
  \E d \in {HeldDrop(k) : k \in page} :
    \/ Detail(w, d) # "none" /\ d \in tab.gone
    \/ \E p \in tab.known : p[1] = d /\ p[2] # Detail(w, d)

\* The tab with the rows of a page, and the Drops of a page of holdings.
With(w, page) ==
  LET drops == IF tab.at = "holdings" THEN {HeldDrop(k) : k \in page} ELSE {} IN
  [tab EXCEPT
     !.got = [tab.got EXCEPT ![tab.at] = @ \cup page],
     !.first = IF tab.at = "moments" /\ @ = 0 THEN w ELSE @,
     !.known = @ \cup {<<d, Detail(w, d)>> : d \in {e \in drops : Detail(w, e) # "none"}},
     !.gone = @ \cup {d \in drops : Detail(w, d) = "none"}]

AfterList ==
  CASE tab.at = "holdings" -> "moments"
    [] tab.at = "moments" -> "tagged"
    [] tab.at = "tagged" -> "capsules"
    [] tab.at = "capsules" -> "memberships"
    [] tab.at = "owned" -> "profiles"
    [] tab.at = "items" /\ CountOf(tab.of, "extra", tab.collection) > 0 -> "extra"
    [] OTHER -> "contents"

\* Mistake: the pages of an author agree with each other, and that is enough.
CompleteUnbound(t) ==
  IF Cardinality(Own(t, tab.at)) # CountOf(t.of, tab.at, t.collection)
  THEN Stopped("broken") ELSE Turn(t, AfterList)

\* The last page is in: the count is checked, and the author's release.
Complete(t) ==
  IF tab.at = "moments" /\ ~Same(t.first, t.of, {"moments"}) THEN Stopped("changed")
  ELSE IF Cardinality(Own(t, tab.at)) # CountOf(t.of, tab.at, t.collection)
  THEN Stopped("broken") ELSE Turn(t, AfterList)

ReadListPage(w) ==
  /\ tab.at \in Lists /\ Answers(w) /\ Fits(w)
  /\ LET rows == RowsOf(w, tab.at, tab.collection)
         page == PageOf(rows, tab.cursor)
     IN tab' =
          IF \/ page \cap tab.got[tab.at] # {}
             \/ tab.at = "holdings" /\ Contradicted(w, page)
             \/ ~LastPage(rows, tab.cursor) /\ Max(page) \in tab.seen
          THEN Stopped("broken")
          ELSE IF LastPage(rows, tab.cursor) THEN Complete(With(w, page))
          ELSE [With(w, page) EXCEPT !.cursor = Max(page),
                                     !.seen = @ \cup {Max(page)}, !.busy = 0]
  /\ UNCHANGED <<changed, split, serving, newest>>

ReadManifest(w) ==
  /\ tab.at = "manifest" /\ Answers(w)
  /\ tab' = [at |-> "holdings", of |-> w, first |-> 0, moved |-> tab.moved,
             cursor |-> 0, seen |-> {}, busy |-> 0, collection |-> 0,
             got |-> [l \in Lists |-> {}], known |-> {}, gone |-> {},
             asked |-> {}, members |-> {}, profiles |-> {}, read |-> {}]
  /\ UNCHANGED <<changed, split, serving, newest>>

\* The memberships of the held Drops, and the profiles of the Collections: a
\* Collection of a Moment may have none.
ReadMemberships(w) ==
  /\ tab.at = "memberships" /\ Pending(tab) # {} /\ Answers(w) /\ Fits(w)
  /\ tab' = [Turn(tab, tab.at) EXCEPT
               !.asked = @ \cup Ids,
               !.members = @ \cup MembershipsOf(w, Ids)]
  /\ UNCHANGED <<changed, split, serving, newest>>

ReadProfiles(w) ==
  /\ tab.at = "profiles" /\ Pending(tab) # {} /\ Answers(w) /\ Fits(w)
  /\ tab' = IF ProfilesOf(w, Ids) = Ids
            THEN [Turn(tab, tab.at) EXCEPT !.profiles = @ \cup Ids]
            ELSE Stopped("unavailable")
  /\ UNCHANGED <<changed, split, serving, newest>>

\* The export manifest of the next owned Collection; its lists follow.
ReadContents(w) ==
  /\ tab.at = "contents" /\ Pending(tab) # {} /\ Answers(w) /\ Fits(w)
  /\ tab' = [Turn(tab, "items") EXCEPT !.collection = Min(Pending(tab)),
                                       !.read = @ \cup {Min(Pending(tab))}]
  /\ UNCHANGED <<changed, split, serving, newest>>

\* GET /api/drops/export/batch knows the public Drops of the catalog.
ReadDrops(w) ==
  /\ tab.at = "drops" /\ Pending(tab) # {} /\ Answers(w) /\ Fits(w)
  /\ LET public == PublicOf(w, Ids) IN
     tab' = [Turn(tab, tab.at) EXCEPT
               !.known = @ \cup {<<d, "public">> : d \in public},
               !.gone = @ \cup (Ids \ public)]
  /\ UNCHANGED <<changed, split, serving, newest>>

\* Nothing is left to ask for.
Proceed ==
  /\ tab.at \in {"memberships", "profiles", "contents", "drops"}
  /\ Pending(tab) = {}
  /\ tab' = Turn(tab, CASE tab.at = "memberships" -> "owned"
                        [] tab.at = "profiles" -> "contents"
                        [] tab.at = "contents" -> "drops"
                        [] tab.at = "drops" -> "done")
  /\ UNCHANGED <<changed, split, serving, newest>>

\* The answer names another release, or the worker refuses the cursor.
Unfit(w) ==
  /\ Asking /\ tab.at # "manifest" /\ Answers(w) /\ ~Fits(w)
  /\ tab' = Stopped("changed")
  /\ UNCHANGED <<changed, split, serving, newest>>

Refused(v) ==
  /\ Running /\ v \in serving /\ Foreign(v)
  /\ tab' = Stopped("refused")
  /\ UNCHANGED <<changed, split, serving, newest>>

\* 429: the tab waits and asks again, but not for ever.
TooBusy ==
  /\ Asking
  /\ tab' = IF tab.at # "manifest" /\ tab.busy < MaxBusy
            THEN [tab EXCEPT !.busy = @ + 1] ELSE Stopped("busy")
  /\ UNCHANGED <<changed, split, serving, newest>>

\* The visitor cancels, or a request fails.
GiveUp ==
  /\ Running
  /\ tab' = Stopped("cancelled")
  /\ UNCHANGED <<changed, split, serving, newest>>

-----------------------------------------------------------------------------
(* The roll-out of a version. *)

Deploy ==
  /\ newest < MaxVersion
  /\ newest' = newest + 1
  /\ serving' = serving \cup {newest'}
  /\ tab' = IF Running THEN [tab EXCEPT !.moved = TRUE] ELSE tab
  /\ UNCHANGED <<changed, split>>

Retire(v) ==
  /\ v \in serving /\ v < newest
  /\ serving' = serving \ {v}
  /\ UNCHANGED <<changed, split, newest, tab>>

-----------------------------------------------------------------------------

ExportInit ==
  /\ changed \in SUBSET Sources
  /\ split \in BOOLEAN
  /\ ~split => ("catalog" \in changed <=> "holdings" \in changed)
  /\ serving = {1} /\ newest = 1
  /\ tab = NoExport

TabStep ==
  \/ Proceed \/ TooBusy
  \/ \E w \in 1..newest :
       \/ ReadManifest(w) \/ ReadListPage(w) \/ ReadMemberships(w) \/ ReadProfiles(w)
       \/ ReadContents(w) \/ ReadDrops(w) \/ Unfit(w) \/ Refused(w)

ExportNext == Start \/ TabStep \/ GiveUp \/ Deploy \/ \E v \in serving : Retire(v)

ExportSpec == ExportInit /\ [][ExportNext]_exportVars

-----------------------------------------------------------------------------
(* Properties. *)

\* A finished archive is the content of the releases that its manifest names,
\* and of no others, whatever was rolled out meanwhile and whichever answers
\* came from the cache: every row of every list, the memberships of every held
\* Drop, every profile. The Drops it refers to are either described or listed as
\* unavailable, as the catalog and the Collections of the manifest have it
\* (collectPersonalArchive). Which artwork release describes a Drop that has
\* neither is not compared by the tab.
ArchivesAreWhole ==
  tab.at = "done" =>
    LET of == tab.of
        drops == PublicDrops[Edition(of, "catalog")]
        cards == HeldDrops(tab) \cap (PrivateCards[Edition(of, "collections")] \ drops)
    IN /\ \A l \in Lists :
            tab.got[l] = {k \in Keys[l][Edition(of, SourceOf(l))] :
                            l \in RecordLists => CollectionOf(k) \in tab.got["owned"]}
       /\ tab.members = MembershipsOf(of, HeldDrops(tab))
       /\ tab.profiles = Needed(tab)
       /\ Known(tab) \cup tab.gone = Referenced(tab)
       /\ Known(tab) \cap tab.gone = {}
       /\ {p[1] : p \in {q \in tab.known : q[2] = "public"}} = Referenced(tab) \cap drops
       /\ {p[1] : p \in {q \in tab.known : q[2] = "private"}} = cards
       /\ Cardinality(Known(tab)) = Cardinality(tab.known)

\* The collector "rejects count, address, schema, release, or snapshot changes
\* between pages" and "requires the Holdings snapshot to remain unchanged": it
\* only stops for a release that does not fit, or for a repeated or missing row,
\* when a version was being rolled out while it ran. A Collection without a
\* public profile ends it at any time.
StopsOnlyForChange ==
  tab.at = "stopped" /\ tab.why \in {"changed", "broken", "refused"} => tab.moved

\* An export is whole or stops for a reason: the server's pages, cursors, counts
\* and cache keys and the tab's checks of them agree with each other, as long as
\* the catalog and the Holdings are one snapshot.
ArchivesAreRight == ArchivesAreWhole /\ (~split => StopsOnlyForChange)

\* Every export ends, however often the worker asks for patience.
ExportEnds == Running ~> ~Running
=============================================================================
