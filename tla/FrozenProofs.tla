---------------------------- MODULE FrozenProofs ----------------------------
(***************************************************************************)
(* Proofs about requests that overlap.  No request leaves a temporary      *)
(* directory behind once it is answered, for any number of requests of all *)
(* routes and for all faults but one: a PUT to Django that fails makes a   *)
(* push keep its footers.  That needs a packager that returns a footer when*)
(* it succeeds, since CleanupFooters finds its directory by one.  And a    *)
(* submission never changes once it was made, for any number of pushes,    *)
(* pulls and health checks that overlap it and each other, any faults and  *)
(* restarts, and submissions made one after another.                       *)
(***************************************************************************)
EXTENDS Bundler, PushProofs

-----------------------------------------------------------------------------
(* Temporary directories.                                                  *)

\* The directories a push may hold at step l of its handler.
PushHolds(l) ==
  CASE l \in {"fetch", "fetching"}          -> {"archive", "project"}
    [] l \in {"put", "footer", "storing"}   -> {"archive", "footers"}
    [] l = "done"                           -> {}
    [] OTHER                                -> {"archive"}

\* The directories a submission may hold at step l of its handler.
SubmitHolds(l) ==
  CASE l \in {"fetch", "fetching"} -> {"project"}
    [] l = "store"                 -> {"footers"}
    [] OTHER                       -> {}

\* A request that has not made its first directory yet may still have the ones
\* of a request that a restart cut off.
PushHeld ==
  /\ DOMAIN pc = Pushers /\ DOMAIN dirs = Pushers
  /\ \A p \in Pushers : pc[p] \notin {"idle", "post"} => dirs[p] \subseteq PushHolds(pc[p])

\* A push that has been to the packager has a footer.
Packed == {"put", "footer", "storing"}

BuiltSome ==
  /\ DOMAIN pc = Pushers /\ DOMAIN built = Pushers
  /\ \A p \in Pushers : pc[p] \in Packed => built[p] # {}

SubmitHeld ==
  /\ DOMAIN subAt = Submitters /\ DOMAIN subDirs = Submitters
  /\ \A w \in Submitters : subAt[w] # "idle" => subDirs[w] \subseteq SubmitHolds(subAt[w])

PullHeld ==
  /\ DOMAIN pullAt = Pullers /\ DOMAIN pullDir = Pullers
  /\ \A q \in Pullers : pullAt[q] = "done" => ~pullDir[q]


USE DEF Goto, Finish, Fail, Panic, archiveVars, metaVars, todoVars, buildVars, worldVars

-----------------------------------------------------------------------------

\* A handler that goes on to l, holding no more than it may there.
LEMMA PushMoves ==
  ASSUME PushHeld, NEW p \in Pushers, NEW l, Goto(p, l),
         \/ UNCHANGED dirs /\ dirs[p] \subseteq PushHolds(l)
         \/ \E d : dirs' = [dirs EXCEPT ![p] = d] /\ d \subseteq PushHolds(l)
  PROVE  PushHeld'
  BY Zenon DEF PushHeld

\* The steps up to the end of the updates: only the archive's directory exists.
LEMMA ApplyHeld ==
  ASSUME PushHeld, NEW p \in Pushers, GetHashes(p) \/ LoadStep(p) \/ ApplyStep(p)
  PROVE  PushHeld'
<1>0. PushHolds("done") = {} /\ PushHolds("load") = {"archive"}
  BY Zenon DEF PushHolds
<1>1. \A l \in {"load", "metaget", "compare", "apply", "setting", "deleting", "rowdel"} :
        PushHolds(l) = {"archive"}
  BY Zenon DEF PushHolds
<1>2. CASE GetHashes(p)
  BY <1>2, Zenon DEF GetHashes, PushHeld
<1>3. CASE Decompress(p)
  BY <1>0, <1>3, PushMoves, Zenon DEF Decompress
<1>4. CASE DecompressFails(p)
  BY <1>0, <1>4, PushMoves, Zenon DEF DecompressFails
<1>5. CASE ~GetHashes(p) /\ ~Decompress(p) /\ ~DecompressFails(p)
  <2>1. pc[p] \in {"load", "metaget", "compare", "apply", "setting", "deleting", "rowdel"}
    <3>1. CASE LoadStep(p)
      BY <1>5, <3>1, Zenon DEF LoadStep, LoadFromArchive, LoadHash, LoadHashFails,
             LoadFromCache, LoadFails, Compare, Waiting, CallFailed
    <3>2. CASE ApplyStep(p)
      BY <3>2, Zenon DEF ApplyStep, ArchiveUnreadable, UpdateCache, UpdateCacheFails, UpdateRow,
             UpdateRowFails, RemoveCache, RemoveHashMissing, RemoveCacheFails, RemoveRow,
             RemoveRowFails, Waiting, CallFailed, Removing
    <3> QED
      BY <1>5, <3>1, <3>2, Zenon
  <2>2. dirs[p] \subseteq {"archive"}
    BY <1>1, <2>1, Zenon DEF PushHeld
  <2>3. \/ Finish(p, "error", dirs[p]) \/ Finish(p, "aborted", dirs[p])
        \/ \E l \in {"load", "metaget", "compare", "apply", "setting", "deleting", "rowdel"} :
             Goto(p, l) /\ UNCHANGED dirs
    <3>1. CASE LoadFromArchive(p) \/ LoadFromCache(p)
      BY <3>1, Zenon DEF LoadFromArchive, LoadFromCache, ParseMetadata
    <3>2. CASE LoadHash(p) \/ LoadHashFails(p) \/ LoadFails(p) \/ Compare(p)
      BY <3>2, Zenon DEF LoadHash, LoadHashFails, LoadFails, Compare
    <3>3. CASE ArchiveUnreadable(p) \/ UpdateCache(p) \/ UpdateCacheFails(p)
      BY <3>3, Zenon DEF ArchiveUnreadable, UpdateCache, UpdateCacheFails
    <3>4. CASE UpdateRow(p) \/ UpdateRowFails(p)
      BY <3>4, Zenon DEF UpdateRow, UpdateRowFails
    <3>5. CASE RemoveCache(p) \/ RemoveHashMissing(p) \/ RemoveCacheFails(p)
      BY <3>5, Zenon DEF RemoveCache, RemoveHashMissing, RemoveCacheFails
    <3>6. CASE RemoveRow(p) \/ RemoveRowFails(p)
      BY <3>6, Zenon DEF RemoveRow, RemoveRowFails
    <3> QED
      BY <1>5, <3>1, <3>2, <3>3, <3>4, <3>5, <3>6, Zenon DEF LoadStep, ApplyStep
  <2>4. CASE Finish(p, "error", dirs[p]) \/ Finish(p, "aborted", dirs[p])
    <3>1. Goto(p, "done") /\ dirs' = [dirs EXCEPT ![p] = dirs[p] \ {"archive"}]
      BY <2>4, Zenon
    <3>2. dirs[p] \ {"archive"} \subseteq PushHolds("done")
      BY <1>0, <2>2, Zenon
    <3> QED
      BY <3>1, <3>2, PushMoves, Zenon
  <2>5. CASE \E l \in {"load", "metaget", "compare", "apply", "setting", "deleting",
                       "rowdel"} : Goto(p, l) /\ UNCHANGED dirs
    BY <1>1, <2>2, <2>5, PushMoves, Zenon
  <2> QED
    BY <2>3, <2>4, <2>5, Zenon
<1> QED
  BY <1>2, <1>3, <1>4, <1>5, Zenon

\* The steps that make the footers: the copy of the project is removed before
\* the metadata is PUT, and the footers on every way out but PutMetadataFails.
LEMMA FooterHeld ==
  ASSUME PushHeld, BuiltSome, NEW p \in Pushers, FooterStep(p), "django" \notin FaultKinds
  PROVE  PushHeld'
<1>0. /\ PushHolds("done") = {} /\ PushHolds("apply") = {"archive"}
      /\ PushHolds("fetch") = {"archive", "project"}
      /\ PushHolds("fetching") = {"archive", "project"}
      /\ PushHolds("put") = {"archive", "footers"}
      /\ PushHolds("footer") = {"archive", "footers"}
      /\ PushHolds("storing") = {"archive", "footers"}
  BY Zenon DEF PushHolds
<1>1. CASE NoChanges(p)
  <2>1. dirs[p] \ {"archive"} \subseteq {}
    BY <1>0, <1>1, Zenon DEF NoChanges, Applied, PushHeld
  <2> QED
    BY <1>0, <1>1, <2>1, PushMoves, Zenon DEF NoChanges
<1>2. CASE FilesToTemp(p)
  <2>1. dirs[p] \cup {"project"} \subseteq {"archive", "project"}
    BY <1>0, <1>2, Zenon DEF FilesToTemp, Applied, PushHeld
  <2>2. Goto(p, "fetch") /\ dirs' = [dirs EXCEPT ![p] = dirs[p] \cup {"project"}]
    BY <1>2, Zenon DEF FilesToTemp
  <2> QED
    BY <1>0, <2>1, <2>2, PushMoves, Zenon
<1>3. CASE ContentUnreadable(p) \/ WriteLost(p)
  BY <1>3, Zenon DEF ContentUnreadable, WriteLost, PushHeld
<1>4. CASE Fetch(p) \/ Fetched(p)
  <2>1. dirs[p] \subseteq {"archive", "project"}
    BY <1>0, <1>4, Zenon DEF Fetch, Fetched, Waiting, PushHeld
  <2>2. (Goto(p, "fetching") \/ Goto(p, "fetch")) /\ UNCHANGED dirs
    BY <1>4, Zenon DEF Fetch, Fetched
  <2> QED
    BY <1>0, <2>1, <2>2, PushMoves, Zenon
<1>5. CASE FetchFails(p) \/ BadIcon(p) \/ PackageFails(p)
  <2>1. dirs[p] \subseteq {"archive", "project"}
    BY <1>0, <1>5, Zenon DEF FetchFails, BadIcon, PackageFails, CallFailed, PushHeld
  <2>2. Goto(p, "done") /\ dirs' = [dirs EXCEPT ![p] = Cleanup(p) \ {"archive"}]
    BY <1>5, Zenon DEF FetchFails, BadIcon, PackageFails
  <2>3. Cleanup(p) \ {"archive"} \subseteq {}
    BY <2>1, Zenon DEF Cleanup
  <2> QED
    BY <1>0, <2>2, <2>3, PushMoves, Zenon
<1>6. CASE Package(p)
  <2>1. dirs[p] \subseteq {"archive", "project"}
    BY <1>0, <1>6, Zenon DEF Package, PushHeld
  <2>2. dirs' = [dirs EXCEPT ![p] = Cleanup(p) \cup {"footers"}]
    BY <1>6, Zenon DEF Package
  <2>3. Cleanup(p) \cup {"footers"} \subseteq {"archive", "footers"}
    BY <2>1, Zenon DEF Cleanup
  <2> QED
    BY <1>0, <1>6, <2>2, <2>3, PushMoves, Zenon DEF Package
<1>7. CASE PutMetadata(p) \/ SetBundleFooter(p) \/ BundleFooterSet(p)
  <2>1. dirs[p] \subseteq {"archive", "footers"}
    BY <1>0, <1>7, Zenon DEF PutMetadata, SetBundleFooter, BundleFooterSet, Waiting, PushHeld
  <2>2. (Goto(p, "footer") \/ Goto(p, "storing")) /\ UNCHANGED dirs
    BY <1>7, Zenon DEF PutMetadata, SetBundleFooter, BundleFooterSet
  <2> QED
    BY <1>0, <2>1, <2>2, PushMoves, Zenon
<1>8. CASE FooterUnreadable(p) \/ SetBundleFooterFails(p) \/ Done(p)
  <2>1. dirs[p] \subseteq {"archive", "footers"}
    BY <1>0, <1>8, Zenon DEF FooterUnreadable, SetBundleFooterFails, Done, CallFailed, PushHeld
  <2>2. /\ Goto(p, "done")
        /\ dirs' = [dirs EXCEPT ![p] = CleanupFooters(built[p], dirs[p]) \ {"archive"}]
    BY <1>8, Zenon DEF FooterUnreadable, SetBundleFooterFails, Done
  <2>3. CleanupFooters(built[p], dirs[p]) \ {"archive"} \subseteq {}
    <3>1. built[p] # {}
      BY <1>8, Zenon DEF FooterUnreadable, SetBundleFooterFails, Done, CallFailed, BuiltSome,
         Packed
    <3> QED
      BY <2>1, <3>1, Zenon DEF CleanupFooters
  <2> QED
    BY <1>0, <2>2, <2>3, PushMoves, Zenon
<1>9. ~PutMetadataFails(p)
  BY Zenon DEF PutMetadataFails, Fault
<1> QED
  BY <1>1, <1>2, <1>3, <1>4, <1>5, <1>6, <1>7, <1>8, <1>9, Zenon DEF FooterStep

\* The steps of a push get nowhere near the footers but through Package.
LEMMA BuiltSomeStep ==
  ASSUME {} \notin PackagerOutputs, BuiltSome, NEW p \in Pushers,
         GetHashes(p) \/ LoadStep(p) \/ ApplyStep(p) \/ FooterStep(p)
  PROVE  BuiltSome'
<1>1. ASSUME NEW l, Goto(p, l), UNCHANGED built, l \in Packed => pc[p] \in Packed
      PROVE  BuiltSome'
  BY <1>1, Zenon DEF BuiltSome
<1>0. \A l \in {"post", "load", "metaget", "compare", "apply", "setting", "deleting", "rowdel",
                "fetch", "fetching", "done"} : l \notin Packed
  BY Zenon DEF Packed
<1>2. CASE GetHashes(p)
  BY <1>0, <1>1, <1>2, Zenon DEF GetHashes
<1>3. CASE Decompress(p) \/ DecompressFails(p) \/ LoadHash(p) \/ LoadHashFails(p)
           \/ LoadFails(p) \/ Compare(p)
  BY <1>0, <1>1, <1>3, Zenon
     DEF Decompress, DecompressFails, LoadHash, LoadHashFails, LoadFails, Compare
<1>4. CASE LoadFromArchive(p) \/ LoadFromCache(p)
  BY <1>0, <1>1, <1>4, Zenon DEF LoadFromArchive, LoadFromCache, ParseMetadata
<1>5. CASE ArchiveUnreadable(p) \/ UpdateCache(p) \/ UpdateCacheFails(p) \/ UpdateRow(p)
           \/ UpdateRowFails(p)
  BY <1>0, <1>1, <1>5, Zenon
     DEF ArchiveUnreadable, UpdateCache, UpdateCacheFails, UpdateRow, UpdateRowFails
<1>6. CASE RemoveCache(p) \/ RemoveHashMissing(p) \/ RemoveCacheFails(p) \/ RemoveRow(p)
           \/ RemoveRowFails(p)
  BY <1>0, <1>1, <1>6, Zenon
     DEF RemoveCache, RemoveHashMissing, RemoveCacheFails, RemoveRow, RemoveRowFails
<1>7. CASE NoChanges(p) \/ FilesToTemp(p) \/ Fetch(p) \/ Fetched(p) \/ FetchFails(p)
           \/ BadIcon(p) \/ PackageFails(p)
  BY <1>0, <1>1, <1>7, Zenon
     DEF NoChanges, FilesToTemp, Fetch, Fetched, FetchFails, BadIcon, PackageFails
<1>8. CASE ContentUnreadable(p) \/ WriteLost(p)
  BY <1>8, Zenon DEF ContentUnreadable, WriteLost, BuiltSome
<1>9. CASE Package(p)
  <2>1. PICK out \in PackagerOutputs : built' = [built EXCEPT ![p] = out]
    BY <1>9, Zenon DEF Package
  <2>2. out # {} /\ pc' = [pc EXCEPT ![p] = "put"]
    BY <1>9, Zenon DEF Package
  <2> QED
    BY <2>1, <2>2, Zenon DEF BuiltSome
<1>10. CASE PutMetadata(p) \/ SetBundleFooter(p) \/ BundleFooterSet(p)
  <2>1. pc[p] \in Packed
    BY <1>10, Zenon DEF PutMetadata, SetBundleFooter, BundleFooterSet, Waiting, Packed
  <2> QED
    BY <1>1, <1>10, <2>1, Zenon DEF PutMetadata, SetBundleFooter, BundleFooterSet
<1>11. CASE PutMetadataFails(p) \/ FooterUnreadable(p) \/ SetBundleFooterFails(p) \/ Done(p)
  BY <1>0, <1>1, <1>11, Zenon
     DEF PutMetadataFails, FooterUnreadable, SetBundleFooterFails, Done
<1> QED
  BY <1>2, <1>3, <1>4, <1>5, <1>6, <1>7, <1>8, <1>9, <1>10, <1>11, Zenon
     DEF LoadStep, ApplyStep, FooterStep

\* Every step of the bundler, as far as this goes.
LEMMA BuiltSomeNext ==
  ASSUME {} \notin PackagerOutputs, BuiltSome, [BundlerNext]_bundlerVars
  PROVE  BuiltSome'
<1>1. CASE UNCHANGED <<pc, built>>
  BY <1>1, Zenon DEF BuiltSome
<1>2. CASE \E p \in Pushers : PushRoute(p)
  <2>1. PICK p \in Pushers : PushRoute(p)
    BY <1>2, Zenon
  <2>2. CASE CacheCall(p)
    BY <1>1, <2>2, Zenon DEF CacheCall, pushVars
  <2>3. CASE Return(p)
    BY <2>3, Zenon DEF Return, Reset, BuiltSome, Packed
  <2> QED
    BY <2>1, <2>2, <2>3, BuiltSomeStep, Zenon DEF PushRoute, PushHandler, Handler
<1>3. CASE Restart
  BY <1>3, Zenon DEF Restart, Crash, Reset, BuiltSome, Packed
<1>4. CASE Eviction
  BY <1>1, <1>4, Zenon DEF Eviction, EvictItem, pushVars
<1>5. CASE \/ \E q \in Pullers : PullRoute(q)
           \/ \E w \in Submitters : SubmitRoute(w)
           \/ \E m \in Monitors : HealthRoute(m)
  <2>1. UNCHANGED pushVars
    BY <1>5, Zenon DEF PullRoute, PullHandler, SubmitRoute, SubmitHandler, HealthRoute,
                       HealthHandler
  <2> QED
    BY <1>1, <2>1, Zenon DEF pushVars
<1>6. CASE UNCHANGED bundlerVars
  BY <1>1, <1>6, Zenon DEF bundlerVars, allPushVars, pushVars
<1> QED
  BY <1>2, <1>3, <1>4, <1>5, <1>6, Zenon DEF BundlerNext

\* Every step of the bundler, as far as the directories of pushes go.
LEMMA PushHeldNext ==
  ASSUME "django" \notin FaultKinds, PushHeld, BuiltSome, [BundlerNext]_bundlerVars
  PROVE  PushHeld'
<1>1. CASE UNCHANGED <<pc, dirs>>
  BY <1>1, Zenon DEF PushHeld
<1>2. CASE \E p \in Pushers : PushRoute(p)
  <2>1. PICK p \in Pushers : PushRoute(p)
    BY <1>2, Zenon
  <2>2. CASE CacheCall(p)
    BY <1>1, <2>2, Zenon DEF CacheCall, pushVars
  <2>3. CASE Return(p)
    BY <2>3, Zenon DEF Return, Reset, PushHeld
  <2> QED
    BY <2>1, <2>2, <2>3, ApplyHeld, FooterHeld, Zenon DEF PushRoute, PushHandler, Handler
<1>3. CASE Restart
  BY <1>3, Zenon DEF Restart, Crash, Reset, PushHeld
<1>4. CASE Eviction
  BY <1>1, <1>4, Zenon DEF Eviction, EvictItem, pushVars
<1>5. CASE \/ \E q \in Pullers : PullRoute(q)
           \/ \E w \in Submitters : SubmitRoute(w)
           \/ \E m \in Monitors : HealthRoute(m)
  <2>1. UNCHANGED pushVars
    BY <1>5, Zenon DEF PullRoute, PullHandler, SubmitRoute, SubmitHandler, HealthRoute,
                       HealthHandler
  <2> QED
    BY <1>1, <2>1, Zenon DEF pushVars
<1>6. CASE UNCHANGED bundlerVars
  BY <1>1, <1>6, Zenon DEF bundlerVars, allPushVars, pushVars
<1> QED
  BY <1>2, <1>3, <1>4, <1>5, <1>6, Zenon DEF BundlerNext

-----------------------------------------------------------------------------

\* A submission that goes on to l, holding no more than it may there.
LEMMA SubmitMoves ==
  ASSUME SubmitHeld, NEW w \in Submitters, NEW l, SubGoto(w, l),
         \/ UNCHANGED subDirs /\ subDirs[w] \subseteq SubmitHolds(l)
         \/ \E d : subDirs' = [subDirs EXCEPT ![w] = d] /\ d \subseteq SubmitHolds(l)
  PROVE  SubmitHeld'
  BY Zenon DEF SubmitHeld, SubGoto

\* The steps of a submission: the copy of the project is removed when the
\* packager has run, and the footers when there is none for the platform and on
\* both ways out of the Set.
LEMMA SubmitStepHeld ==
  ASSUME {} \notin PackagerOutputs, SubmitHeld, NEW w \in Submitters,
         SubmitRequest(w) \/ SubmitRefused(w) \/ SubmitStep(w)
  PROVE  SubmitHeld'
<1> DEFINE Bare == {"exists", "app", "start", "copy", "copyget", "copyset", "meta",
                    "build", "snapshot", "rows", "done"}
<1>0. /\ \A l \in Bare : SubmitHolds(l) = {}
      /\ SubmitHolds("fetch") = {"project"} /\ SubmitHolds("fetching") = {"project"}
      /\ SubmitHolds("store") = {"footers"}
  BY Zenon DEF SubmitHolds
<1>1. ASSUME NEW l \in Bare, subAt[w] \in Bare, SubGoto(w, l),
             UNCHANGED subDirs \/ subDirs' = [subDirs EXCEPT ![w] = subDirs[w]]
      PROVE  SubmitHeld'
  <2>1. subDirs[w] \subseteq SubmitHolds(l)
    BY <1>0, <1>1, Zenon DEF SubmitHeld
  <2> QED
    BY <1>1, <2>1, SubmitMoves, Zenon
<1> USE DEF SubFinish, SubAnswer
<1>2. CASE SubmitRequest(w) \/ SubmitRefused(w)
  <2>1. /\ SubGoto(w, "exists") \/ SubGoto(w, "done")
        /\ subDirs' = [subDirs EXCEPT ![w] = {}]
    BY <1>2, Zenon DEF SubmitRequest, SubmitRefused
  <2> QED
    BY <2>1, Zenon DEF SubmitHeld, SubGoto
<1>3. CASE CheckSubmission(w) \/ CheckApp(w)
  BY <1>1, <1>3, Zenon DEF CheckSubmission, CheckApp
<1>4. CASE copyFiles(w) \/ CopyGet(w) \/ CopySet(w) \/ Copied(w)
  BY <1>1, <1>4, Zenon DEF copyFiles, Loop, CopyGet, CopySet, Copied, SubGot
<1>5. CASE loadMetaData(w) \/ MetaDataLoaded(w) \/ MakeSnapshot(w)
  BY <1>1, <1>5, Zenon DEF loadMetaData, MetaDataLoaded, MakeSnapshot, Loop, SubGot
<1>6. CASE makeBundleFooter(w)
  <2>1. subDirs[w] \cup {"project"} \subseteq {"project"}
    BY <1>0, <1>6, Zenon DEF makeBundleFooter, SubmitHeld
  <2>2. SubGoto(w, "fetch") /\ subDirs' = [subDirs EXCEPT ![w] = subDirs[w] \cup {"project"}]
    BY <1>6, Zenon DEF makeBundleFooter, Loop
  <2> QED
    BY <1>0, <2>1, <2>2, SubmitMoves, Zenon
<1>7. CASE FetchFile(w) \/ FileFetched(w)
  <2>1. subDirs[w] \subseteq {"project"} /\ UNCHANGED subDirs
    BY <1>0, <1>7, Zenon DEF FetchFile, FileFetched, SubGot, SubmitHeld
  <2>2. SubGoto(w, "fetching") \/ SubGoto(w, "fetch")
    BY <1>7, Zenon DEF FetchFile, FileFetched
  <2> QED
    BY <1>0, <2>1, <2>2, SubmitMoves, Zenon
<1>8. CASE StoreFooter(w)
  <2>1. Packaged(w) \subseteq {"footers"}
    BY <1>0, <1>8, Zenon DEF StoreFooter, SubmitHeld, CleanupProject, Packaged
  <2> QED
    BY <1>0, <1>8, <2>1, SubmitMoves, Zenon DEF StoreFooter
<1>9. CASE FetchFileFails(w) \/ BuildFails(w)
  <2>1. CleanupProject(w) \subseteq {}
    BY <1>0, <1>9, Zenon DEF FetchFileFails, BuildFails, SubMissed, SubmitHeld, CleanupProject
  <2> QED
    BY <1>0, <1>9, <2>1, SubmitMoves, Zenon DEF FetchFileFails, BuildFails
<1>10. CASE StoreFails(w) \/ FooterStored(w)
  <2>1. CleanupSnapshotFooters(w) \subseteq {}
    BY <1>0, <1>10, Zenon
       DEF StoreFails, FooterStored, SubMissed, SubGot, SubmitHeld, CleanupSnapshotFooters,
           CleanupFooters
  <2>2. /\ SubGoto(w, "done") \/ SubGoto(w, "snapshot")
        /\ subDirs' = [subDirs EXCEPT ![w] = CleanupSnapshotFooters(w)]
    BY <1>10, Zenon DEF StoreFails, FooterStored
  <2> QED
    BY <1>0, <2>1, <2>2, SubmitMoves, Zenon
<1>11. CASE AddRow(w)
  BY <1>11, Zenon DEF AddRow, SubmitHeld
<1>12. CASE AddRowFails(w) \/ SubmitDone(w)
  BY <1>1, <1>12, Zenon DEF AddRowFails, SubmitDone
<1>13. CASE SubmitFails(w)
  <2>1. subAt[w] \in Bare
    BY <1>13, Zenon DEF SubmitFails, SubMissed, SubGot
  <2> QED
    BY <1>1, <1>13, <2>1, Zenon DEF SubmitFails
<1>14. CASE NoSnapshotFooter(w)
  <2>1. PICK out \in PackagerOutputs : SubFinish(w, "error", CleanupFooters(out, Packaged(w)))
    BY <1>14, Zenon DEF NoSnapshotFooter
  <2>2. subDirs[w] \subseteq {"project"}
    BY <1>0, <1>14, Zenon DEF NoSnapshotFooter, SubmitHeld
  <2>3. CleanupFooters(out, Packaged(w)) \subseteq {}
    BY <2>2, Zenon DEF CleanupFooters, Packaged, CleanupProject
  <2> QED
    BY <1>0, <2>1, <2>3, SubmitMoves, Zenon
<1> QED
  BY <1>2, <1>3, <1>4, <1>5, <1>6, <1>7, <1>8, <1>9, <1>10, <1>11, <1>12, <1>13, <1>14, Zenon
     DEF SubmitStep

\* The steps of a pull: the deferred close() removes its directory.
LEMMA PullStepHeld ==
  ASSUME PullHeld, NEW q \in Pullers, PullRequest(q) \/ PullStep(q)
  PROVE  PullHeld'
<1>1. ASSUME NEW a, PullFinish(q, a)
      PROVE  PullHeld'
  BY <1>1, Zenon DEF PullFinish, PullGoto, PullHeld
<1>2. ASSUME NEW l, l # "done", PullGoto(q, l),
             UNCHANGED pullDir \/ pullDir' = [pullDir EXCEPT ![q] = TRUE]
      PROVE  PullHeld'
  BY <1>2, Zenon DEF PullGoto, PullHeld
<1>3. CASE PullRequest(q)
  BY <1>1, <1>2, <1>3, Zenon DEF PullRequest, newPullArchive, PullRefused, PullNoTempDir
<1>4. CASE assertNotEmpty(q) \/ getAssetFiles(q) \/ writeAssets(q) \/ AssetWritten(q)
  BY <1>1, <1>2, <1>4, Zenon DEF assertNotEmpty, getAssetFiles, writeAssets, AssetWritten
<1>5. CASE \/ writeBundleFooter(q) \/ OldBundleFooter(q) \/ writeZip(q)
           \/ PullMissing(q) \/ PullFails(q)
  BY <1>1, <1>2, <1>5, Zenon
     DEF writeBundleFooter, OldBundleFooter, writeZip, PullMissing, PullFails
<1> QED
  BY <1>3, <1>4, <1>5, Zenon DEF PullStep

\* Every step of the bundler, as far as the directories of pulls and submissions
\* go.
LEMMA OtherHeldNext ==
  ASSUME {} \notin PackagerOutputs, SubmitHeld /\ PullHeld, [BundlerNext]_bundlerVars
  PROVE  (SubmitHeld /\ PullHeld)'
<1> USE DEF submitVars, pullVars
<1>1. UNCHANGED <<subAt, subDirs>> => SubmitHeld'
  BY Zenon DEF SubmitHeld
<1>2. UNCHANGED <<pullAt, pullDir>> => PullHeld'
  BY Zenon DEF PullHeld
<1>3. ASSUME NEW p \in Pushers, PushRoute(p)
      PROVE  (SubmitHeld /\ PullHeld)'
  BY <1>1, <1>2, <1>3, Zenon DEF PushRoute, PushHandler
<1>4. ASSUME NEW m \in Monitors, HealthRoute(m)
      PROVE  (SubmitHeld /\ PullHeld)'
  BY <1>1, <1>2, <1>4, Zenon DEF HealthRoute, HealthHandler
<1>5. ASSUME NEW q \in Pullers, PullRoute(q)
      PROVE  (SubmitHeld /\ PullHeld)'
  <2>1. SubmitHeld'
    BY <1>1, <1>5, Zenon DEF PullRoute, PullHandler
  <2>2. CASE PullReturn(q)
    BY <2>1, <2>2, Zenon DEF PullReturn, PullReset, PullHeld
  <2>3. CASE UNCHANGED pullVars
    BY <1>2, <2>1, <2>3, Zenon
  <2> QED
    BY <1>5, <2>1, <2>2, <2>3, PullStepHeld, Zenon DEF PullRoute, PullHandler
<1>6. ASSUME NEW w \in Submitters, SubmitRoute(w)
      PROVE  (SubmitHeld /\ PullHeld)'
  <2>1. PullHeld'
    BY <1>2, <1>6, Zenon DEF SubmitRoute, SubmitHandler
  <2>2. CASE SubmitReturn(w)
    BY <2>1, <2>2, Zenon DEF SubmitReturn, SubReset, SubmitHeld
  <2>3. CASE UNCHANGED submitVars
    BY <1>1, <2>1, <2>3, Zenon
  <2> QED
    BY <1>6, <2>1, <2>2, <2>3, SubmitStepHeld, Zenon DEF SubmitRoute, SubmitHandler
<1>7. CASE Restart
  BY <1>7, Zenon DEF Restart, SubReset, PullReset, SubmitHeld, PullHeld
<1>8. CASE Eviction \/ UNCHANGED bundlerVars
  BY <1>1, <1>2, <1>8, Zenon DEF Eviction, bundlerVars
<1> QED
  BY <1>3, <1>4, <1>5, <1>6, <1>7, <1>8, Zenon DEF BundlerNext

-----------------------------------------------------------------------------

\* Pulls and submissions remove their directories, whatever fails: close() is
\* deferred, and makeBundleFooter cleans up on every path.  A packager that
\* succeeded with no footer at all would leave CleanupFooters without a path to
\* find the directory by.
THEOREM PullsAndSubmissionsCleanUp ==
  ASSUME {} \notin PackagerOutputs
  PROVE  BundlerSpec => []TempDirsRemoved
<1>1. BundlerInit => SubmitHeld /\ PullHeld
  BY Zenon DEF BundlerInit, SubmitInit, PullInit, SubmitHeld, PullHeld
<1>2. (SubmitHeld /\ PullHeld) /\ [BundlerNext]_bundlerVars => (SubmitHeld /\ PullHeld)'
  BY OtherHeldNext, Zenon
<1>3. SubmitHeld /\ PullHeld => TempDirsRemoved
  BY Zenon DEF SubmitHeld, PullHeld, TempDirsRemoved, SubmitHolds
<1> QED
  BY <1>1, <1>2, <1>3, PTL DEF BundlerSpec

\* Pushes do too, unless a PUT to Django fails (PutMetadataFails, push.go:398,
\* returns without CleanupFooters): with that fault the statement is false.
THEOREM PushesCleanUp ==
  ASSUME "django" \notin FaultKinds, {} \notin PackagerOutputs
  PROVE  BundlerSpec => []NoTempLeak
<1>1. BundlerInit => PushHeld /\ BuiltSome
  BY Zenon DEF BundlerInit, PushInit, PushHeld, BuiltSome, Packed
<1>2. (PushHeld /\ BuiltSome) /\ [BundlerNext]_bundlerVars => (PushHeld /\ BuiltSome)'
  BY PushHeldNext, BuiltSomeNext, Zenon
<1>3. PushHeld /\ BuiltSome => NoTempLeak
  BY Zenon DEF PushHeld, NoTempLeak, PushHolds
<1> QED
  BY <1>1, <1>2, <1>3, PTL DEF BundlerSpec
-----------------------------------------------------------------------------
(* Submissions.                                                            *)

\* Where a submission has found its ID unused and not ended yet.
Working == {"app", "start", "copy", "copyget", "copyset", "meta", "build", "fetch",
            "fetching", "store", "snapshot", "rows"}

FrozenShapes ==
  /\ DOMAIN call = Procs /\ DOMAIN s3 = Keys /\ DOMAIN rows = Namespaces
  /\ DOMAIN subAt = Submitters /\ DOMAIN subID = Submitters

\* A call that writes does so under the prefix of its caller: that of the
\* app or, for a submission, that of its ID.
OwnPrefix(x) ==
  call[x].at \in Writes =>
    IF x \in Submitters
    THEN subAt[x] \in {"copyset", "store"} /\ call[x].key[1] = subID[x]
    ELSE call[x].key[1] = Dev

\* The ID of a submission under way is that of no snapshot.
Fresh(w) ==
  /\ subAt[w] \in Working \cup {"exists"} => subID[w] \in Subs
  /\ subAt[w] \in Working => subID[w] \notin Snapshots

\* The inductive invariant; that every snapshot has rows is what lets
\* SubmissionExists find it.
FrozenInv ==
  /\ FrozenShapes
  /\ \A x \in Procs : OwnPrefix(x)
  /\ \A w \in Submitters : Fresh(w)
  /\ \A s \in Snapshots : s \in Subs /\ rows[s] # NoFiles

\* At most one submission is past the check of its ID.
OneWorking ==
  \A v, w \in Submitters : subAt[v] \in Working /\ subAt[w] \in Working => v = w

\* What a step has to do.
Keeps == FrozenInv' /\ \A s \in Snapshots : Untouched(s)

USE DEF Goto, Finish, Fail, Panic, Fault, NoFault, archiveVars, metaVars, todoVars,
        buildVars, worldVars, cacheVars

-----------------------------------------------------------------------------
(* What the steps of all routes share.                                     *)

\* x goes on with its call, ends it, or begins one that writes at most under ns.
CallStep(x, ns) ==
  /\ DOMAIN call' = DOMAIN call
  /\ \A y \in Procs : y # x => call'[y] = call[y]
  /\ call'[x] = call[x] \/ call'[x].at \notin Writes \/ call'[x].key[1] = ns

\* The ways to begin and to end a call are such steps.
LEMMA CallSteps ==
  ASSUME FrozenShapes, NEW x \in Procs, NEW ns
  PROVE  /\ UNCHANGED call => CallStep(x, ns)
         /\ Hangup(x) => CallStep(x, ns)
         /\ \A k : BeginGet(x, k) => CallStep(x, ns)
         /\ \A k : k[1] = ns /\ BeginDelete(x, k) => CallStep(x, ns)
         /\ \A k, v : k[1] = ns /\ BeginSet(x, k, v) => CallStep(x, ns)
<1>1. \A op, at, k, v :
        Begin(x, op, at, k, v) /\ (at \notin Writes \/ k[1] = ns) => CallStep(x, ns)
  BY DEF Begin, CallStep, FrozenShapes
<1>2. Hangup(x) => CallStep(x, ns)
  BY DEF Hangup, NoCall, CallStep, FrozenShapes, Writes
<1>3. \A k : BeginGet(x, k) => CallStep(x, ns)
  <2>1. "mcget" \notin Writes /\ "s3get" \notin Writes
    BY Zenon DEF Writes
  <2> QED
    BY <1>1, <2>1, Zenon DEF BeginGet
<1>4. UNCHANGED call => CallStep(x, ns)
  BY Zenon DEF CallStep
<1> QED
  BY <1>1, <1>2, <1>3, <1>4, Zenon DEF BeginDelete, BeginSet

\* The keys of the development files start with Dev.
LEMMA DevKeys ==
  /\ \A c : FileKey(c)[1] = Dev
  /\ \A platform : FooterKey(platform)[1] = Dev
  /\ ProbeKey[1] = Dev
  BY DEF FileKey, FooterKey, ProbeKey, prefixed

\* A step of a request other than a submission, outside its cache calls.
DevStep(x) ==
  /\ UNCHANGED s3
  /\ DOMAIN rows' = DOMAIN rows
  /\ \A s \in Subs : rows'[s] = rows[s]
  /\ CallStep(x, Dev)

\* Such a step keeps the invariant and every submission.
LEMMA DevStepKeeps ==
  ASSUME FrozenInv, NEW x \in Procs \ Submitters, DevStep(x),
         UNCHANGED <<subAt, subID, submitted>>
  PROVE  Keeps
<1>1. Snapshots' = Snapshots
  BY Zenon DEF Snapshots
<1>2. FrozenShapes'
  BY Zenon DEF FrozenInv, FrozenShapes, DevStep, CallStep
<1>3. \A y \in Procs : OwnPrefix(y)'
  BY Zenon DEF FrozenInv, OwnPrefix, DevStep, CallStep
<1>4. \A w \in Submitters : Fresh(w)'
  BY <1>1, Zenon DEF FrozenInv, Fresh
<1>5. \A s \in Snapshots' : s \in Subs /\ rows'[s] # NoFiles
  BY <1>1, Zenon DEF FrozenInv, DevStep
<1>6. \A s \in Snapshots : Untouched(s)
  BY Zenon DEF FrozenInv, DevStep, Untouched
<1> QED
  BY <1>2, <1>3, <1>4, <1>5, <1>6, Zenon DEF Keeps, FrozenInv

\* What a step of a cache call changes: in S3 at most the object at its key, and
\* that only while it is about to write.
LEMMA CacheStepFacts ==
  ASSUME FrozenShapes, NEW x \in Procs, CacheStep(x)
  PROVE  /\ DOMAIN s3' = Keys /\ DOMAIN call' = Procs
         /\ \A k \in Keys : s3'[k] = s3[k] \/ (call[x].at \in Writes /\ k = call[x].key)
         /\ \A y \in Procs : y # x => call'[y] = call[y]
         /\ call'[x].key = call[x].key
         /\ call'[x].at \in Writes => call[x].at \in Writes
<1> USE DEF FrozenShapes, Move, Writes
<1>1. CASE GetStep(x)
  <2>1. CASE McHit(x) \/ McMiss(x) \/ McGetFails(x)
    BY <2>1 DEF McHit, McMiss, McGetFails
  <2>2. CASE S3Get(x) \/ S3GetFails(x)
    BY <2>2 DEF S3Get, S3GetFails, AfterS3, Retry
  <2>3. CASE Fill(x) \/ FillFails(x)
    BY <2>3 DEF Fill, FillFails
  <2> QED
    BY <1>1, <2>1, <2>2, <2>3, Zenon DEF GetStep
<1>2. CASE SetStep(x)
  <2>1. CASE S3Put(x)
    BY <2>1, Zenon DEF S3Put, AfterS3
  <2>2. CASE S3PutFails(x)
    BY <2>2, Zenon DEF S3PutFails, Retry
  <2>3. CASE McSet(x) \/ McSetFails(x)
    BY <2>3 DEF McSet, McSetFails
  <2> QED
    BY <1>2, <2>1, <2>2, <2>3, Zenon DEF SetStep
<1>3. CASE DeleteStep(x)
  <2>1. CASE S3Del(x)
    BY <2>1, Zenon DEF S3Del, AfterS3
  <2>2. CASE S3DelFails(x)
    BY <2>2, Zenon DEF S3DelFails, Retry
  <2>3. CASE McDel(x) \/ McDelFails(x)
    BY <2>3 DEF McDel, McDelFails
  <2> QED
    BY <1>3, <2>1, <2>2, <2>3, Zenon DEF DeleteStep
<1> QED
  BY <1>1, <1>2, <1>3, Zenon DEF CacheStep

\* A step of a cache call keeps the invariant and every submission, whoever
\* made the call.
LEMMA CallKeeps ==
  ASSUME FrozenInv, NEW x \in Procs, CacheStep(x),
         UNCHANGED <<rows, subAt, subID, submitted>>
  PROVE  Keeps
<1>0. Snapshots' = Snapshots
  BY Zenon DEF Snapshots
<1>1. /\ DOMAIN s3' = Keys /\ DOMAIN call' = Procs
      /\ \A k \in Keys : s3'[k] = s3[k] \/ (call[x].at \in Writes /\ k = call[x].key)
      /\ \A y \in Procs : y # x => call'[y] = call[y]
      /\ call'[x].key = call[x].key
      /\ call'[x].at \in Writes => call[x].at \in Writes
  BY CacheStepFacts, Zenon DEF FrozenInv
<1>2. FrozenShapes'
  BY <1>1, Zenon DEF FrozenInv, FrozenShapes
<1>3. \A y \in Procs : OwnPrefix(y)'
  BY <1>1, Zenon DEF FrozenInv, OwnPrefix
<1>4. \A w \in Submitters : Fresh(w)'
  BY <1>0, Zenon DEF FrozenInv, Fresh
<1>5. \A s \in Snapshots' : s \in Subs /\ rows'[s] # NoFiles
  BY <1>0, Zenon DEF FrozenInv
<1>6. call[x].at \in Writes => call[x].key[1] \notin Snapshots
  BY FilesAssumption, Zenon DEF FrozenInv, OwnPrefix, Fresh, Working
<1>7. \A s \in Snapshots : Untouched(s)
  BY <1>1, <1>6, Zenon DEF Untouched
<1> QED
  BY <1>2, <1>3, <1>4, <1>5, <1>7, Zenon DEF Keeps, FrozenInv

-----------------------------------------------------------------------------
(* The steps of the routes that read and write the development files.      *)

\* The row a push writes or deletes is one of Dev.
LEMMA DevRows ==
  ASSUME FrozenShapes, NEW n, NEW c,
         \/ AddFile(Dev, n, c) \/ UpdateFile(Dev, n, c) \/ DeleteFile(Dev, n)
         \/ UNCHANGED rows
  PROVE  DOMAIN rows' = DOMAIN rows /\ \A s \in Subs : rows'[s] = rows[s]
  BY FilesAssumption, Zenon DEF FrozenShapes, Namespaces, AddFile, UpdateFile, DeleteFile

\* Every step of a push, outside its cache calls.
LEMMA PushDevStep ==
  ASSUME FrozenShapes, NEW p \in Pushers,
         GetHashes(p) \/ LoadStep(p) \/ ApplyStep(p) \/ FooterStep(p) \/ Return(p)
  PROVE  DevStep(p)
<1>0. p \in Procs
  BY PushAssumption, Zenon
<1>1. UNCHANGED <<s3, rows>> /\ CallStep(p, Dev) => DevStep(p)
  BY Zenon DEF DevStep
<1>2. UNCHANGED <<s3, rows, call>> => DevStep(p)
  BY <1>0, <1>1, CallSteps, Zenon
<1>3. UNCHANGED <<s3, rows>> /\ Hangup(p) => DevStep(p)
  BY <1>0, <1>1, CallSteps, Zenon
<1>4. \A k : UNCHANGED <<s3, rows>> /\ BeginGet(p, k) => DevStep(p)
  BY <1>0, <1>1, CallSteps, Zenon
<1>5. CASE GetHashes(p)
  BY <1>2, <1>5, Zenon DEF GetHashes
<1>6. CASE LoadStep(p)
  <2>1. CASE Decompress(p) \/ DecompressFails(p) \/ LoadFromArchive(p)
    BY <1>2, <2>1, Zenon DEF Decompress, DecompressFails, LoadFromArchive
  <2>2. CASE LoadHash(p)
    BY <1>4, <2>2, Zenon DEF LoadHash
  <2>3. CASE LoadHashFails(p) \/ Compare(p)
    BY <1>2, <2>3, Zenon DEF LoadHashFails, Compare
  <2>4. CASE LoadFromCache(p) \/ LoadFails(p)
    BY <1>3, <2>4, Zenon DEF LoadFromCache, LoadFails
  <2> QED
    BY <1>6, <2>1, <2>2, <2>3, <2>4, Zenon DEF LoadStep
<1>7. CASE ApplyStep(p)
  <2>1. CASE ArchiveUnreadable(p) \/ RemoveHashMissing(p)
    BY <1>2, <2>1, Zenon DEF ArchiveUnreadable, RemoveHashMissing
  <2>2. CASE UpdateCache(p)
    <3>1. PICK n \in Updates(p) : BeginSet(p, FileKey(listing[p][n]), listing[p][n])
      BY <2>2, Zenon DEF UpdateCache
    <3>2. CallStep(p, Dev)
      BY <1>0, <3>1, CallSteps, DevKeys, Zenon
    <3> QED
      BY <1>1, <2>2, <3>2, Zenon DEF UpdateCache
  <2>3. CASE UpdateCacheFails(p) \/ RemoveCacheFails(p)
    BY <1>3, <2>3, Zenon DEF UpdateCacheFails, RemoveCacheFails
  <2>4. CASE RemoveCache(p)
    <3>1. PICK n \in removed[p], f \in Listings :
            UNCHANGED call \/ BeginDelete(p, FileKey(f[n]))
      BY <2>4, Zenon DEF RemoveCache
    <3>2. CallStep(p, Dev)
      BY <1>0, <3>1, CallSteps, DevKeys, Zenon
    <3> QED
      BY <1>1, <2>4, <3>2, Zenon DEF RemoveCache
  <2>5. CASE UpdateRow(p) \/ UpdateRowFails(p)
    <3>1. \/ AddFile(Dev, cur[p], listing[p][cur[p]])
          \/ UpdateFile(Dev, cur[p], listing[p][cur[p]]) \/ UNCHANGED rows
      BY <2>5, Zenon DEF UpdateRow, UpdateRowFails, WriteRow
    <3>2. UNCHANGED s3 /\ Hangup(p)
      BY <2>5, Zenon DEF UpdateRow, UpdateRowFails
    <3>3. CallStep(p, Dev)
      BY <1>0, <3>2, CallSteps, Zenon
    <3>4. DOMAIN rows' = DOMAIN rows /\ \A s \in Subs : rows'[s] = rows[s]
      BY <3>1, DevRows, Zenon
    <3> QED
      BY <3>2, <3>3, <3>4, Zenon DEF DevStep
  <2>6. CASE RemoveRow(p) \/ RemoveRowFails(p)
    <3>1. DeleteFile(Dev, cur[p]) \/ UNCHANGED rows
      BY <2>6, Zenon DEF RemoveRow, RemoveRowFails
    <3>2. UNCHANGED s3 /\ Hangup(p)
      BY <2>6, Zenon DEF RemoveRow, RemoveRowFails
    <3>3. CallStep(p, Dev)
      BY <1>0, <3>2, CallSteps, Zenon
    <3>4. DOMAIN rows' = DOMAIN rows /\ \A s \in Subs : rows'[s] = rows[s]
      BY <3>1, DevRows, Zenon
    <3> QED
      BY <3>2, <3>3, <3>4, Zenon DEF DevStep
  <2> QED
    BY <1>7, <2>1, <2>2, <2>3, <2>4, <2>5, <2>6, Zenon DEF ApplyStep
<1>8. CASE FooterStep(p)
  <2>1. CASE NoChanges(p) \/ FilesToTemp(p) \/ ContentUnreadable(p) \/ WriteLost(p)
    BY <1>2, <2>1, Zenon DEF NoChanges, FilesToTemp, ContentUnreadable, WriteLost
  <2>2. CASE Fetch(p)
    BY <1>4, <2>2, Zenon DEF Fetch
  <2>3. CASE Fetched(p) \/ FetchFails(p)
    BY <1>3, <2>3, Zenon DEF Fetched, FetchFails
  <2>4. CASE BadIcon(p) \/ Package(p) \/ PackageFails(p)
    BY <1>2, <2>4, Zenon DEF BadIcon, Package, PackageFails
  <2>5. CASE PutMetadata(p) \/ PutMetadataFails(p) \/ FooterUnreadable(p) \/ Done(p)
    BY <1>2, <2>5, Zenon DEF PutMetadata, PutMetadataFails, FooterUnreadable, Done
  <2>6. CASE SetBundleFooter(p)
    <3>1. CallStep(p, Dev)
      BY <1>0, <2>6, CallSteps, DevKeys, Zenon DEF SetBundleFooter
    <3> QED
      BY <1>1, <2>6, <3>1, Zenon DEF SetBundleFooter
  <2>7. CASE BundleFooterSet(p) \/ SetBundleFooterFails(p)
    BY <1>3, <2>7, Zenon DEF BundleFooterSet, SetBundleFooterFails
  <2> QED
    BY <1>8, <2>1, <2>2, <2>3, <2>4, <2>5, <2>6, <2>7, Zenon DEF FooterStep
<1>9. CASE Return(p)
  BY <1>2, <1>9, Zenon DEF Return
<1> QED
  BY <1>5, <1>6, <1>7, <1>8, <1>9, Zenon

\* Every step of a pull, outside its cache calls: it only reads.
LEMMA PullDevStep ==
  ASSUME FrozenShapes, NEW q \in Pullers, PullRequest(q) \/ PullStep(q) \/ PullReturn(q)
  PROVE  DevStep(q)
<1>0. q \in Procs
  BY BundlerAssumption, Zenon
<1>1. UNCHANGED <<s3, rows>> /\ CallStep(q, Dev) => DevStep(q)
  BY Zenon DEF DevStep
<1>2. UNCHANGED <<s3, rows, call>> => DevStep(q)
  BY <1>0, <1>1, CallSteps, Zenon
<1>3. UNCHANGED <<s3, rows>> /\ Hangup(q) => DevStep(q)
  BY <1>0, <1>1, CallSteps, Zenon
<1>4. \A k : UNCHANGED <<s3, rows>> /\ BeginGet(q, k) => DevStep(q)
  BY <1>0, <1>1, CallSteps, Zenon
<1>5. CASE PullRequest(q) \/ PullReturn(q)
  BY <1>2, <1>5, Zenon DEF PullRequest, newPullArchive, PullRefused, PullNoTempDir, PullReturn
<1>6. CASE assertNotEmpty(q) \/ getAssetFiles(q)
  BY <1>2, <1>6, Zenon DEF assertNotEmpty, getAssetFiles
<1>7. CASE writeAssets(q)
  BY <1>4, <1>7, Zenon DEF writeAssets
<1>8. CASE writeBundleFooter(q) \/ OldBundleFooter(q)
  BY <1>4, <1>8, Zenon DEF writeBundleFooter, OldBundleFooter
<1>9. CASE AssetWritten(q) \/ writeZip(q) \/ PullMissing(q) \/ PullFails(q)
  BY <1>3, <1>9, Zenon DEF AssetWritten, writeZip, PullMissing, PullFails
<1> QED
  BY <1>5, <1>6, <1>7, <1>8, <1>9, Zenon DEF PullStep

\* Every step of a health check, outside its cache calls: its probe is written
\* under the prefix of the app.
LEMMA HealthDevStep ==
  ASSUME FrozenShapes, NEW m \in Monitors, HealthRequest(m) \/ HealthStep(m) \/ HealthReturn(m)
  PROVE  DevStep(m)
<1>0. m \in Procs
  BY BundlerAssumption, Zenon
<1>1. UNCHANGED <<s3, rows>> /\ CallStep(m, Dev) => DevStep(m)
  BY Zenon DEF DevStep
<1>2. CASE HealthRequest(m) \/ CheckHashes(m) \/ CheckS3Fails(m) \/ HealthReturn(m)
  <2>1. UNCHANGED <<s3, rows, call>>
    BY <1>2, Zenon DEF HealthRequest, CheckHashes, CheckS3Fails, HealthReturn
  <2> QED
    BY <1>0, <1>1, <2>1, CallSteps, Zenon
<1>3. CASE CheckS3(m)
  <2>1. CallStep(m, Dev)
    BY <1>0, <1>3, CallSteps, DevKeys, Zenon DEF CheckS3
  <2> QED
    BY <1>1, <1>3, <2>1, Zenon DEF CheckS3
<1>4. CASE CheckCache(m)
  <2>1. CallStep(m, Dev)
    BY <1>0, <1>4, CallSteps, Zenon DEF CheckCache
  <2> QED
    BY <1>1, <1>4, <2>1, Zenon DEF CheckCache
<1>5. CASE HealthPassed(m) \/ CheckCacheFails(m)
  <2>1. CallStep(m, Dev)
    BY <1>0, <1>5, CallSteps, Zenon DEF HealthPassed, CheckCacheFails
  <2> QED
    BY <1>1, <1>5, <2>1, Zenon DEF HealthPassed, CheckCacheFails
<1> QED
  BY <1>2, <1>3, <1>4, <1>5, Zenon DEF HealthStep

-----------------------------------------------------------------------------
(* The steps of a submission.                                              *)

\* The handler goes on to l, without touching a row or S3 itself; where l is
\* the wait for a Set, the Set writes under the prefix of the submission.
SubStep(w, l) ==
  /\ UNCHANGED <<s3, rows, subID, submitted>>
  /\ subAt' = [subAt EXCEPT ![w] = l]
  /\ l \in Working => subAt[w] \in Working
  /\ l # "exists"
  /\ DOMAIN call' = DOMAIN call
  /\ \A y \in Procs : y # w => call'[y] = call[y]
  /\ call'[w].at \in Writes => l \in {"copyset", "store"} /\ call'[w].key[1] = subID[w]

\* Such a step keeps the invariant and every submission.
LEMMA SubStepKeeps ==
  ASSUME FrozenInv, NEW w \in Submitters, NEW l, SubStep(w, l)
  PROVE  Keeps
<1>1. Snapshots' = Snapshots
  BY Zenon DEF Snapshots, SubStep
<1>2. FrozenShapes'
  BY Zenon DEF FrozenInv, FrozenShapes, SubStep
<1>3. \A y \in Procs : OwnPrefix(y)'
  BY Zenon DEF FrozenInv, OwnPrefix, SubStep, FrozenShapes
<1>4. \A v \in Submitters : Fresh(v)'
  BY <1>1, Zenon DEF FrozenInv, Fresh, SubStep, FrozenShapes, Working
<1>5. \A s \in Snapshots' : s \in Subs /\ rows'[s] # NoFiles
  BY <1>1, Zenon DEF FrozenInv, SubStep
<1>6. \A s \in Snapshots : Untouched(s)
  BY Zenon DEF SubStep, Untouched
<1> QED
  BY <1>2, <1>3, <1>4, <1>5, <1>6, Zenon DEF Keeps, FrozenInv

\* The steps that neither start a submission, find its ID unused, write a row
\* nor end it with success.
LEMMA SubSteps ==
  ASSUME FrozenInv, NEW w \in Submitters,
         \/ SubmitRefused(w) \/ CheckApp(w)
         \/ copyFiles(w) \/ CopyGet(w) \/ CopySet(w) \/ Copied(w)
         \/ loadMetaData(w) \/ MetaDataLoaded(w)
         \/ makeBundleFooter(w) \/ FetchFile(w) \/ FileFetched(w) \/ FetchFileFails(w)
         \/ StoreFooter(w) \/ BuildFails(w) \/ NoSnapshotFooter(w) \/ StoreFails(w)
         \/ FooterStored(w)
         \/ MakeSnapshot(w) \/ SubmitFails(w)
  PROVE  Keeps
<1>0. /\ w \in Procs /\ DOMAIN call = Procs
      /\ call[w].at \in Writes => subAt[w] \in {"copyset", "store"}
  BY BundlerAssumption, Zenon DEF FrozenInv, FrozenShapes, OwnPrefix
<1> DEFINE Reads ==
      /\ DOMAIN call' = DOMAIN call
      /\ \A y \in Procs : y # w => call'[y] = call[y]
      /\ call'[w].at \notin Writes
<1>a. Hangup(w) => Reads
  BY <1>0 DEF Hangup, NoCall, Writes
<1>b. \A k : BeginGet(w, k) => Reads
  BY <1>0 DEF BeginGet, Begin, Writes
<1> HIDE DEF Reads
<1>c. ASSUME NEW l, UNCHANGED <<s3, rows, subID, submitted>>, SubGoto(w, l),
             l \in Working => subAt[w] \in Working, l # "exists", Reads
      PROVE  SubStep(w, l)
  BY <1>c, Zenon DEF SubStep, SubGoto, Reads
<1> USE DEF SubStep, SubGoto, SubFinish, SubAnswer, subRequestVars, loopVars, Working
<1>1. CASE SubmitRefused(w)
  BY <1>0, <1>1, SubStepKeeps, Zenon DEF SubmitRefused
<1>2. CASE CheckApp(w)
  <2>1. SubStep(w, "start") \/ SubStep(w, "done")
    BY <1>0, <1>2, Zenon DEF CheckApp
  <2> QED
    BY <2>1, SubStepKeeps, Zenon
<1>3. CASE copyFiles(w) \/ makeBundleFooter(w) \/ MakeSnapshot(w)
  <2>1. SubStep(w, "copy") \/ SubStep(w, "fetch") \/ SubStep(w, "rows")
    BY <1>0, <1>3, Zenon DEF copyFiles, makeBundleFooter, MakeSnapshot, Loop
  <2> QED
    BY <2>1, SubStepKeeps, Zenon
<1>4. CASE CopyGet(w) \/ loadMetaData(w) \/ FetchFile(w)
  <2>1. Reads
    BY <1>b, <1>4, Zenon DEF CopyGet, loadMetaData, FetchFile
  <2>2. CASE CopyGet(w)
    BY <1>c, <2>1, <2>2, SubStepKeeps, Zenon DEF CopyGet
  <2>3. CASE loadMetaData(w)
    BY <1>c, <2>1, <2>3, SubStepKeeps, Zenon DEF loadMetaData
  <2>4. CASE FetchFile(w)
    BY <1>c, <2>1, <2>4, SubStepKeeps, Zenon DEF FetchFile
  <2> QED
    BY <1>4, <2>2, <2>3, <2>4, Zenon
<1>5. CASE CopySet(w) \/ StoreFooter(w)
  <2>1. \A k : prefixed(subID[w], k)[1] = subID[w]
    BY Zenon DEF prefixed
  <2>2. \A k, v : BeginSet(w, prefixed(subID[w], k), v) => CallStep(w, subID[w])
    BY <1>0, <2>1, CallSteps, Zenon DEF FrozenInv
  <2>3. CallStep(w, subID[w])
    BY <1>5, <2>2, Zenon DEF CopySet, StoreFooter
  <2>4. CASE CopySet(w)
    <3>1. SubStep(w, "copyset")
      BY <1>0, <2>3, <2>4, Zenon DEF CopySet, SubGot, CallStep
    <3> QED
      BY <3>1, SubStepKeeps, Zenon
  <2>5. CASE StoreFooter(w)
    <3>1. SubStep(w, "store")
      BY <1>0, <2>3, <2>5, Zenon DEF StoreFooter, CallStep
    <3> QED
      BY <3>1, SubStepKeeps, Zenon
  <2> QED
    BY <1>5, <2>4, <2>5, Zenon
<1>6. CASE Copied(w) \/ MetaDataLoaded(w) \/ FileFetched(w) \/ FooterStored(w)
  <2>1. Reads
    BY <1>a, <1>6, Zenon DEF Copied, MetaDataLoaded, FileFetched, FooterStored
  <2>2. CASE Copied(w)
    BY <1>c, <2>1, <2>2, SubStepKeeps, Zenon DEF Copied, SubGot
  <2>3. CASE MetaDataLoaded(w)
    BY <1>c, <2>1, <2>3, SubStepKeeps, Zenon DEF MetaDataLoaded, SubGot
  <2>4. CASE FileFetched(w)
    BY <1>c, <2>1, <2>4, SubStepKeeps, Zenon DEF FileFetched, SubGot
  <2>5. CASE FooterStored(w)
    BY <1>c, <2>1, <2>5, SubStepKeeps, Zenon DEF FooterStored, SubGot
  <2> QED
    BY <1>6, <2>2, <2>3, <2>4, <2>5, Zenon
<1>7. CASE FetchFileFails(w) \/ StoreFails(w) \/ SubmitFails(w)
  <2>1. Reads
    BY <1>a, <1>7, Zenon DEF FetchFileFails, StoreFails, SubmitFails
  <2>2. UNCHANGED <<s3, rows, subID, submitted>> /\ SubGoto(w, "done")
    BY <1>7, Zenon DEF FetchFileFails, StoreFails, SubmitFails
  <2>3. SubStep(w, "done")
    BY <1>c, <2>1, <2>2, Zenon
  <2> QED
    BY <2>3, SubStepKeeps, Zenon
<1>8. CASE BuildFails(w) \/ NoSnapshotFooter(w)
  <2>1. SubStep(w, "done")
    BY <1>0, <1>8, Zenon DEF BuildFails, NoSnapshotFooter
  <2> QED
    BY <2>1, SubStepKeeps, Zenon
<1> QED
  BY <1>1, <1>2, <1>3, <1>4, <1>5, <1>6, <1>7, <1>8, Zenon

\* The start and the end of a request.
LEMMA SubmitStartKeeps ==
  ASSUME FrozenInv, NEW w \in Submitters, SubmitRequest(w) \/ SubmitReturn(w)
  PROVE  Keeps
<1>1. UNCHANGED <<s3, rows, call, submitted>>
  BY Zenon DEF SubmitRequest, SubmitReturn
<1>2. Snapshots' = Snapshots
  BY <1>1, Zenon DEF Snapshots
<1>3. /\ DOMAIN subAt' = Submitters /\ DOMAIN subID' = Submitters
      /\ \A v \in Submitters : v # w => subAt'[v] = subAt[v] /\ subID'[v] = subID[v]
      /\ subAt'[w] \in {"exists", "idle"}
      /\ subAt'[w] = "exists" => subID'[w] \in Subs
      /\ call[w].at \notin Writes
  <2>1. CASE SubmitRequest(w)
    BY <2>1, BundlerAssumption, Zenon DEF SubmitRequest, SubGoto, FrozenInv, FrozenShapes,
       OwnPrefix
  <2>2. CASE SubmitReturn(w)
    BY <2>2, BundlerAssumption, Zenon DEF SubmitReturn, SubReset, FrozenInv, OwnPrefix
  <2> QED
    BY <2>1, <2>2, Zenon
<1>4. FrozenShapes'
  BY <1>1, <1>3, Zenon DEF FrozenInv, FrozenShapes
<1>5. \A y \in Procs : OwnPrefix(y)'
  BY <1>1, <1>3, Zenon DEF FrozenInv, OwnPrefix
<1>6. \A v \in Submitters : Fresh(v)'
  BY <1>2, <1>3, Zenon DEF FrozenInv, Fresh, Working
<1>7. \A s \in Snapshots' : s \in Subs /\ rows'[s] # NoFiles
  BY <1>1, <1>2, Zenon DEF FrozenInv
<1>8. \A s \in Snapshots : Untouched(s)
  BY <1>1, Zenon DEF Untouched
<1> QED
  BY <1>4, <1>5, <1>6, <1>7, <1>8, Zenon DEF Keeps, FrozenInv

\* CheckSubmission lets only an ID pass that no snapshot has, because a snapshot
\* has a row.
LEMMA CheckSubmissionKeeps ==
  ASSUME FrozenInv, NEW w \in Submitters, CheckSubmission(w)
  PROVE  Keeps
<1>1. UNCHANGED <<s3, rows, call, subID, submitted>>
  BY Zenon DEF CheckSubmission, subRequestVars
<1>2. Snapshots' = Snapshots
  BY <1>1, Zenon DEF Snapshots
<1>3. /\ DOMAIN subAt' = Submitters
      /\ \A v \in Submitters : v # w => subAt'[v] = subAt[v]
      /\ subAt[w] = "exists"
      /\ subAt'[w] = "done" \/ (subAt'[w] = "app" /\ rows[subID[w]] = NoFiles)
  BY Zenon DEF CheckSubmission, SubmissionExists, SubAnswer, SubFinish, SubGoto,
     FrozenInv, FrozenShapes
<1>4. FrozenShapes'
  BY <1>1, <1>3, Zenon DEF FrozenInv, FrozenShapes
<1>5. \A y \in Procs : OwnPrefix(y)'
  BY <1>1, <1>3, Zenon DEF FrozenInv, OwnPrefix
<1>6. \A v \in Submitters : Fresh(v)'
  BY <1>1, <1>2, <1>3, Zenon DEF FrozenInv, Fresh, Working
<1>7. \A s \in Snapshots' : s \in Subs /\ rows'[s] # NoFiles
  BY <1>1, <1>2, Zenon DEF FrozenInv
<1>8. \A s \in Snapshots : Untouched(s)
  BY <1>1, Zenon DEF Untouched
<1> QED
  BY <1>4, <1>5, <1>6, <1>7, <1>8, Zenon DEF Keeps, FrozenInv

\* MakeSnapshot's INSERTs only add rows to a submission that is none yet.
LEMMA AddRowKeeps ==
  ASSUME FrozenInv, NEW w \in Submitters, AddRow(w) \/ AddRowFails(w)
  PROVE  Keeps
<1>1. UNCHANGED <<s3, call, subID, submitted>>
  BY Zenon DEF AddRow, AddRowFails, subRequestVars
<1>2. Snapshots' = Snapshots
  BY <1>1, Zenon DEF Snapshots
<1>3. /\ DOMAIN subAt' = Submitters
      /\ \A v \in Submitters : v # w => subAt'[v] = subAt[v]
      /\ subAt[w] = "rows" /\ subAt'[w] \in {"rows", "done"}
  BY Zenon DEF AddRow, AddRowFails, SubAnswer, SubFinish, SubGoto, FrozenInv, FrozenShapes
<1>4. DOMAIN rows' = DOMAIN rows /\ \A s \in Subs : s # subID[w] => rows'[s] = rows[s]
  BY Zenon DEF AddRow, AddRowFails, AddFile, FrozenInv, FrozenShapes, Namespaces
<1>5. \A s \in Snapshots : s \in Subs /\ s # subID[w]
  BY <1>3, Zenon DEF FrozenInv, Fresh, Working
<1>6. FrozenShapes'
  BY <1>1, <1>3, <1>4, Zenon DEF FrozenInv, FrozenShapes
<1>7. \A y \in Procs : OwnPrefix(y)'
  BY <1>1, <1>3, Zenon DEF FrozenInv, OwnPrefix
<1>8. \A v \in Submitters : Fresh(v)'
  BY <1>1, <1>2, <1>3, Zenon DEF FrozenInv, Fresh, Working
<1>9. \A s \in Snapshots' : s \in Subs /\ rows'[s] # NoFiles
  BY <1>2, <1>4, <1>5, Zenon DEF FrozenInv
<1>10. \A s \in Snapshots : Untouched(s)
  BY <1>1, <1>4, <1>5, Zenon DEF Untouched
<1> QED
  BY <1>6, <1>7, <1>8, <1>9, <1>10, Zenon DEF Keeps, FrozenInv

\* A successful submission adds its ID to the snapshots: with no other
\* submission under way, none has the same ID.
LEMMA SubmitDoneKeeps ==
  ASSUME FrozenInv, OneWorking, NEW w \in Submitters, SubmitDone(w)
  PROVE  Keeps
<1>1. UNCHANGED <<s3, rows, call, subID>> /\ submitted \subseteq submitted'
  BY Zenon DEF SubmitDone, subRequestVars
<1>2. subAt[w] = "rows" /\ subAt' = [subAt EXCEPT ![w] = "done"]
  BY Zenon DEF SubmitDone, SubAnswer, SubFinish, SubGoto
<1>3. \A x \in submitted' : x \in submitted \/ (x[1] = subID[w] /\ rows[x[1]] # NoFiles)
  <2> DEFINE Entry == <<subID[w], subPlatform[w]>>
  <2>1. Entry[1] = subID[w]
    BY Zenon
  <2> HIDE DEF Entry
  <2>2. \/ submitted' = submitted
        \/ rows[subID[w]] # NoFiles /\ submitted' = submitted \cup {Entry}
    BY Zenon DEF SubmitDone, SubmissionExists, Entry
  <2>3. \A x \in submitted' : x \in submitted \/ (x = Entry /\ rows[subID[w]] # NoFiles)
    BY <2>2, Zenon
  <2> QED
    BY <2>1, <2>3, Zenon
<1>4. \A s \in Snapshots' : s \in Snapshots \/ (s = subID[w] /\ rows[s] # NoFiles)
  BY <1>3, Zenon DEF Snapshots
<1>5. FrozenShapes'
  BY <1>1, <1>2, Zenon DEF FrozenInv, FrozenShapes
<1>6. \A y \in Procs : OwnPrefix(y)'
  BY <1>1, <1>2 DEF FrozenInv, OwnPrefix
<1>7. ASSUME NEW v \in Submitters
      PROVE  Fresh(v)'
  <2>1. subAt'[v] = IF v = w THEN "done" ELSE subAt[v]
    BY <1>2, Zenon DEF FrozenInv, FrozenShapes
  <2>2. subAt'[v] \notin Working
    BY <1>2, <2>1 DEF OneWorking, Working
  <2> QED
    BY <1>1, <2>1, <2>2, Zenon DEF FrozenInv, Fresh
<1>8. \A s \in Snapshots' : s \in Subs /\ rows'[s] # NoFiles
  BY <1>1, <1>2, <1>4, Zenon DEF FrozenInv, Fresh, Working
<1>9. \A s \in Snapshots : Untouched(s)
  BY <1>1, Zenon DEF Untouched
<1> QED
  BY <1>5, <1>6, <1>7, <1>8, <1>9, Zenon DEF Keeps, FrozenInv

\* A restart ends every request and call, and leaves rows and S3 as they are.
LEMMA RestartKeeps ==
  ASSUME FrozenInv, Restart
  PROVE  Keeps
<1>1. UNCHANGED <<s3, rows, submitted>> /\ call' = [p \in Procs |-> NoCall]
  BY Zenon DEF Restart, Crash
<1>2. subAt' = [w \in Submitters |-> "idle"]
  BY Zenon DEF Restart, SubReset
<1>3. DOMAIN subID' = Submitters
  BY Zenon DEF Restart, SubReset
<1>4. Snapshots' = Snapshots
  BY <1>1, Zenon DEF Snapshots
<1>5. FrozenShapes'
  BY <1>1, <1>2, <1>3, Zenon DEF FrozenInv, FrozenShapes
<1>6. \A y \in Procs : OwnPrefix(y)'
  BY <1>1, Zenon DEF OwnPrefix, NoCall, Writes
<1>7. \A w \in Submitters : Fresh(w)'
  BY <1>2, Zenon DEF Fresh, Working
<1>8. \A s \in Snapshots' : s \in Subs /\ rows'[s] # NoFiles
  BY <1>1, <1>4, Zenon DEF FrozenInv
<1>9. \A s \in Snapshots : Untouched(s)
  BY <1>1, Zenon DEF Untouched
<1> QED
  BY <1>5, <1>6, <1>7, <1>8, <1>9, Zenon DEF Keeps, FrozenInv

\* A step that leaves alone all that the invariant is about.
LEMMA StutterKeeps ==
  ASSUME FrozenInv, UNCHANGED <<s3, rows, call, subAt, subID, submitted>>
  PROVE  Keeps
  BY Zenon DEF FrozenInv, Keeps, FrozenShapes, OwnPrefix, Fresh, Snapshots, Untouched

-----------------------------------------------------------------------------

\* Every step of the bundler keeps the invariant and every submission, when no
\* two submissions overlap.
LEMMA NextKeeps ==
  ASSUME OneWorking, FrozenInv, [BundlerNext]_bundlerVars
  PROVE  Keeps
<1> USE DEF submitVars, subRequestVars
<1>1. ASSUME NEW p \in Pushers, PushRoute(p)
      PROVE  Keeps
  <2>1. p \in Procs \ Submitters /\ UNCHANGED <<subAt, subID, submitted>>
    BY <1>1, PushAssumption, BundlerAssumption, Zenon DEF PushRoute, PushHandler
  <2>2. CASE CacheCall(p)
    BY <2>1, <2>2, CallKeeps, Zenon DEF CacheCall
  <2>3. CASE ~CacheCall(p)
    <3>1. DevStep(p)
      BY <1>1, <2>3, PushDevStep, Zenon DEF FrozenInv, PushRoute, PushHandler, Handler
    <3> QED
      BY <2>1, <3>1, DevStepKeeps, Zenon
  <2> QED
    BY <2>2, <2>3, Zenon
<1>2. ASSUME NEW q \in Pullers, PullRoute(q)
      PROVE  Keeps
  <2>1. q \in Procs \ Submitters /\ UNCHANGED <<subAt, subID, submitted>>
    BY <1>2, BundlerAssumption, Zenon DEF PullRoute, PullHandler
  <2>2. CASE Calling(q)
    BY <2>1, <2>2, CallKeeps, Zenon DEF Calling
  <2>3. CASE ~Calling(q)
    <3>1. DevStep(q)
      BY <1>2, <2>3, PullDevStep, Zenon DEF FrozenInv, PullRoute, PullHandler
    <3> QED
      BY <2>1, <3>1, DevStepKeeps, Zenon
  <2> QED
    BY <2>2, <2>3, Zenon
<1>3. ASSUME NEW m \in Monitors, HealthRoute(m)
      PROVE  Keeps
  <2>1. m \in Procs \ Submitters /\ UNCHANGED <<subAt, subID, submitted>>
    BY <1>3, BundlerAssumption, Zenon DEF HealthRoute, HealthHandler
  <2>2. CASE Calling(m)
    BY <2>1, <2>2, CallKeeps, Zenon DEF Calling
  <2>3. CASE ~Calling(m)
    <3>1. DevStep(m)
      BY <1>3, <2>3, HealthDevStep, Zenon DEF FrozenInv, HealthRoute, HealthHandler
    <3> QED
      BY <2>1, <3>1, DevStepKeeps, Zenon
  <2> QED
    BY <2>2, <2>3, Zenon
<1>4. ASSUME NEW w \in Submitters, SubmitRoute(w)
      PROVE  Keeps
  <2>1. CASE Calling(w) /\ UNCHANGED submitVars
    BY <2>1, CallKeeps, BundlerAssumption, Zenon DEF Calling
  <2>2. CASE SubmitStep(w)
    BY <2>2, SubSteps, CheckSubmissionKeeps, AddRowKeeps, SubmitDoneKeeps, Zenon
       DEF SubmitStep
  <2>3. CASE SubmitRequest(w) \/ SubmitRefused(w) \/ SubmitReturn(w)
    BY <2>3, SubSteps, SubmitStartKeeps, Zenon
  <2> QED
    BY <1>4, <2>1, <2>2, <2>3, Zenon DEF SubmitRoute, SubmitHandler
<1>5. CASE Eviction
  BY <1>5, StutterKeeps, Zenon DEF Eviction, EvictItem, Evict
<1>6. CASE UNCHANGED bundlerVars
  BY <1>6, StutterKeeps, Zenon DEF bundlerVars, allPushVars
<1> QED
  BY <1>1, <1>2, <1>3, <1>4, <1>5, <1>6, RestartKeeps, Zenon DEF BundlerNext

\* The invariant holds before the first request.
LEMMA FrozenInitInv == BundlerInit => FrozenInv
<1> SUFFICES ASSUME BundlerInit
             PROVE  FrozenInv
  BY Zenon
<1>1. /\ call = [p \in Procs |-> NoCall] /\ s3 = [k \in Keys |-> None]
      /\ rows = [ns \in Namespaces |-> NoFiles] /\ submitted = {}
      /\ subAt = [w \in Submitters |-> "idle"] /\ subID = [w \in Submitters |-> None]
  BY Zenon DEF BundlerInit, PushInit, CacheInit, FilesInit, SubmitInit
<1>2. FrozenShapes
  BY <1>1, Zenon DEF FrozenShapes
<1>3. \A x \in Procs : OwnPrefix(x)
  BY <1>1, Zenon DEF OwnPrefix, NoCall, Writes
<1>4. \A w \in Submitters : Fresh(w)
  BY <1>1, Zenon DEF Fresh, Working
<1>5. Snapshots = {}
  BY <1>1, Zenon DEF Snapshots
<1> QED
  BY <1>2, <1>3, <1>4, <1>5, Zenon DEF FrozenInv

\* The invariant holds for one submitter, whatever else goes on.
THEOREM FrozenInvariant ==
  ASSUME \A v, w \in Submitters : v = w
  PROVE  BundlerSpec => []FrozenInv
<1>1. FrozenInv /\ [BundlerNext]_bundlerVars => FrozenInv'
  BY NextKeeps, Zenon DEF Keeps, OneWorking
<1> QED
  BY FrozenInitInv, <1>1, PTL DEF BundlerSpec

\* "Submission files should not change if the corresponding app is pushed to
\* after it is submitted": when submissions are made one after another, no step
\* of any number of pushes, pulls, health checks and later submissions, no fault
\* and no restart changes a row or an object of a submission that succeeded.
THEOREM SubmissionsStayFrozen ==
  ASSUME \A v, w \in Submitters : v = w
  PROVE  BundlerSpec => SubmissionFrozen
<1>1. FrozenInv /\ [BundlerNext]_bundlerVars => [\A s \in Snapshots : Untouched(s)]_bundlerVars
  BY NextKeeps, Zenon DEF Keeps, OneWorking
<1> QED
  BY <1>1, FrozenInvariant, PTL DEF BundlerSpec, SubmissionFrozen
=============================================================================
