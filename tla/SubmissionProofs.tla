-------------------------- MODULE SubmissionProofs --------------------------
(***************************************************************************)
(* Proof that a submission that was answered with success is one version   *)
(* of the app, when the requests do not overlap.                           *)
(***************************************************************************)
EXTENDS SerialProofs

USE DEF Goto, Finish, Fail, Panic, Fault, NoFault, archiveVars, metaVars, todoVars,
        buildVars, worldVars, cacheVars

-----------------------------------------------------------------------------
(* Submissions.                                                            *)

Copying == {"copy", "copyget", "copyset"}

\* The rows a submission works on are those of the app, and its own rows are
\* those of the app it has inserted so far.
SubRows(w) ==
  /\ subAt[w] \in Working \ {"rows"} => rows[subID[w]] = NoFiles
  /\ subAt[w] \in Copying \cup {"fetch", "fetching", "rows"} => list[w] = rows[Dev]
  /\ subAt[w] = "rows" =>
       \A n \in Names :
         rows[subID[w]][n] = IF n \in todo[w] THEN None ELSE rows[Dev][n]

HasFile(s, c) == s3[prefixed(s, c)] # None

\* The files that are not left to copy are copied.
SubFiles(w) ==
  /\ subAt[w] \in Copying =>
       \A n \in In(list[w]) \ todo[w] : HasFile(subID[w], list[w][n])
  /\ subAt[w] = "copyset" =>
       /\ call[w].op = "set" /\ call[w].key = prefixed(subID[w], list[w][item[w]])
       /\ call[w].at \in {"mcset", "ok"} => s3[call[w].key] # None
  /\ subAt[w] \in {"meta", "build", "fetch", "fetching", "store", "snapshot", "rows"} =>
       \A n \in In(rows[Dev]) : HasFile(subID[w], rows[Dev][n])

\* The key of the footer of the submission and platform x, and the footer of
\* the app as it is.
SnapKey(x) == prefixed(x[1], SnapshotFooterFile(x[2]))

AppFooter(platform) ==
  [platform |-> platform, project |-> rows[Dev], base |-> rows[Dev][Siphonfile]]

\* What its footer is built from is the app; once it is stored S3 holds it, and
\* memcached no other.
SubFooter(w) ==
  LET key == SnapKey(<<subID[w], subPlatform[w]>>)
  IN  /\ subAt[w] = "meta" => call[w].key = prefixed(subID[w], rows[Dev][Siphonfile])
      /\ subAt[w] \in {"build", "fetch", "fetching"} => base[w] = rows[Dev][Siphonfile]
      /\ subAt[w] \in {"idle", "exists", "app", "start", "meta", "build"} \cup Copying =>
           project[w] = NoFiles
      /\ subAt[w] \in {"fetch", "fetching"} /\ WritesComplete =>
           \A n \in Names \ todo[w] : project[w][n] = list[w][n]
      /\ subAt[w] = "store" =>
           /\ call[w].op = "set" /\ call[w].key = key /\ call[w].val \in Footers
           /\ WritesComplete => call[w].val = AppFooter(subPlatform[w])
           /\ call[w].at \in {"mcset", "ok"} => s3[key] = call[w].val
           /\ call[w].at = "ok" => mc[key] \in {call[w].val, None}
      /\ subAt[w] \in {"snapshot", "rows"} =>
           /\ s3[key] \in Footers /\ mc[key] \in {s3[key], None}
           /\ WritesComplete => s3[key] = AppFooter(subPlatform[w])

SubWhole(w) == SubRows(w) /\ SubFiles(w) /\ SubFooter(w)

\* The variables of a submission and what its steps do to the others.
SubShapes ==
  /\ DOMAIN subAt = Submitters /\ DOMAIN subID = Submitters
  /\ DOMAIN subPlatform = Submitters /\ DOMAIN list = Submitters
  /\ DOMAIN todo = Submitters /\ DOMAIN item = Submitters /\ DOMAIN base = Submitters
  /\ DOMAIN project = Submitters

\* What the steps of a submission rely on.
LEMMA SubFacts ==
  ASSUME SoloInv, NEW w \in Submitters
  PROVE  /\ SubShapes /\ w \in Procs /\ DOMAIN call = Procs /\ CacheInv /\ CacheTypeOK
         /\ CallOK(w) /\ FilesTypeOK /\ SubmitOK(w)
         /\ list[w] \in Listings /\ todo[w] \subseteq Names /\ project[w] \in Listings
         /\ subPlatform[w] \in AnyPlatform /\ rows[Dev] \in Listings
         /\ subAt[w] \in Working => subID[w] \in Subs /\ rows[subID[w]] \in Listings
<1>1. Dev \in Namespaces /\ Subs \subseteq Namespaces
  BY Zenon DEF Namespaces
<1>2. SubShapes /\ list[w] \in Listings /\ todo[w] \subseteq Names /\ project[w] \in Listings
      /\ subPlatform[w] \in AnyPlatform
  BY Zenon DEF SoloInv, BundlerInv, SubmitInv, SubmitTypeOK, SubShapes
<1>3. w \in Procs /\ DOMAIN call = Procs /\ CacheInv /\ CacheTypeOK /\ CallOK(w)
      /\ FilesTypeOK /\ SubmitOK(w)
  BY Roles, Zenon DEF SoloInv, BundlerInv, SubmitInv, PushInv, PushTypeOK, CacheInv, CacheTypeOK
<1>4. rows[Dev] \in Listings
  BY <1>1, <1>3, Zenon DEF FilesTypeOK
<1>5. subAt[w] \in Working => subID[w] \in Subs /\ rows[subID[w]] \in Listings
  BY <1>1, <1>3, Zenon DEF FilesTypeOK, SubmitOK, Working
<1> QED
  BY <1>2, <1>3, <1>4, <1>5, Zenon

\* Reading the rows of the app for a loop, when no read fails.
LEMMA LoopReads ==
  ASSUME ReadsComplete, SubShapes, NEW w \in Submitters, NEW l, Loop(w, l)
  PROVE  list'[w] = rows[Dev] /\ todo'[w] = In(rows[Dev]) /\ subAt'[w] = l
  BY Zenon DEF Loop, GetFiles, ReadsComplete, SubShapes, SubGoto

\* A submission that ends, or has only begun, relies on nothing.
LEMMA SubEnds ==
  ASSUME NEW w \in Submitters,
         subAt'[w] = "done" \/ (subAt'[w] \in {"idle", "exists"} /\ project'[w] = NoFiles)
  PROVE  SubWhole(w)'
  BY Zenon DEF SubWhole, SubRows, SubFiles, SubFooter, Working, Copying

\* The rows.
LEMMA SubmitRows ==
  ASSUME SoloInv, ReadsComplete, NEW w \in Submitters, SubRows(w), SubmitStep(w)
  PROVE  SubRows(w)'
<1> USE SubFacts
<1>a. rows'[Dev] = rows[Dev]
  BY SubmitCalls, Zenon DEF SoloInv
<1>1. CASE subAt'[w] = "done"
  BY <1>1, Zenon DEF SubRows, Working, Copying
<1>2. CASE CheckSubmission(w) /\ subAt'[w] # "done"
  BY <1>2, Zenon DEF CheckSubmission, SubmissionExists, SubRows, Copying, SubGoto,
     SubAnswer, SubFinish,
         SubShapes, subRequestVars
<1>3. CASE (copyFiles(w) \/ makeBundleFooter(w)) /\ subAt'[w] # "done"
  BY <1>3, LoopReads DEF copyFiles, makeBundleFooter, SubRows, Copying, Working, subRequestVars
<1>4. CASE MakeSnapshot(w)
  BY <1>4, LoopReads DEF MakeSnapshot, SubRows, Copying, Working, subRequestVars, In, NoFiles,
         Listings
<1>5. CASE AddRow(w)
  <2>1. PICK n \in todo[w] : /\ AddFile(subID[w], n, list[w][n])
                             /\ todo' = [todo EXCEPT ![w] = @ \ {n}]
    BY <1>5, Zenon DEF AddRow
  <2>2. /\ subAt[w] = "rows" /\ subAt'[w] = "rows" /\ subID'[w] = subID[w]
        /\ list'[w] = list[w] /\ todo'[w] = todo[w] \ {n}
    BY <1>5, <2>1, Zenon DEF AddRow, SubShapes, subRequestVars
  <2>3. \A k \in Names :
          rows'[subID[w]][k] = IF k = n THEN list[w][n] ELSE rows[subID[w]][k]
    BY <2>1, <2>2, Zenon DEF AddFile, FilesTypeOK, Listings, Working, Namespaces
  <2> QED
    BY <1>a, <2>1, <2>2, <2>3, Zenon DEF SubRows, Working, Copying
<1>6. CASE CheckApp(w) /\ subAt'[w] # "done"
  BY <1>6, Zenon DEF CheckApp, SubRows, Working, Copying, SubGoto, SubAnswer, SubFinish,
     SubShapes,
         subRequestVars
<1>7. CASE \/ CopyGet(w) \/ CopySet(w) \/ Copied(w) \/ loadMetaData(w) \/ MetaDataLoaded(w)
           \/ FetchFile(w) \/ FileFetched(w) \/ StoreFooter(w) \/ FooterStored(w)
  BY <1>7, Zenon DEF CopyGet, CopySet, Copied, loadMetaData, MetaDataLoaded, FetchFile,
     FileFetched,
         StoreFooter, FooterStored, SubRows, Working, Copying, SubGoto, SubGot, SubShapes,
         subRequestVars, loopVars
<1>8. FetchFileFails(w) \/ BuildFails(w) \/ NoSnapshotFooter(w) \/ StoreFails(w) \/ AddRowFails(w) \/ SubmitDone(w)
        \/ SubmitFails(w) => subAt'[w] = "done"
  BY Zenon DEF FetchFileFails, BuildFails, NoSnapshotFooter, StoreFails, AddRowFails, SubmitDone,
     SubmitFails, SubAnswer,
         SubFinish, SubGoto, SubShapes
<1> QED
  BY <1>1, <1>2, <1>3, <1>4, <1>5, <1>6, <1>7, <1>8, Zenon DEF SubmitStep

\* Where a step outside the cache calls may lead.
LEMMA SubmitStops ==
  ASSUME SoloInv, NEW w \in Submitters,
         \/ FetchFileFails(w) \/ BuildFails(w) \/ NoSnapshotFooter(w) \/ StoreFails(w) \/ AddRowFails(w)
         \/ SubmitDone(w) \/ SubmitFails(w)
  PROVE  subAt'[w] = "done"
  BY SubFacts, Zenon DEF FetchFileFails, BuildFails, NoSnapshotFooter, StoreFails, AddRowFails, SubmitDone,
         SubmitFails, SubAnswer, SubFinish, SubGoto, SubShapes

\* A check that lets the submission go on.
LEMMA SubmitChecks ==
  ASSUME SoloInv, NEW w \in Submitters, CheckSubmission(w) \/ CheckApp(w)
  PROVE  /\ subAt[w] \in {"exists", "app"} /\ subAt'[w] \in {"app", "start", "done"}
         /\ UNCHANGED <<s3, mc, call, rows, subID, subPlatform, list, todo, item, base, project>>
  BY SubFacts, Zenon DEF CheckSubmission, CheckApp, SubAnswer, SubFinish, SubGoto, SubShapes,
         subRequestVars, loopVars

\* The files.
LEMMA SubmitFiles ==
  ASSUME SoloInv, ReadsComplete, NEW w \in Submitters, SubRows(w), SubFiles(w), SubmitStep(w)
  PROVE  SubFiles(w)'
<1> USE SubFacts
<1>a. rows'[Dev] = rows[Dev] /\ UNCHANGED s3
  BY SubmitCalls, Zenon DEF SoloInv, CallsKeys
<1>1. CASE subAt'[w] \in {"app", "start", "done"}
  BY <1>1, Zenon DEF SubFiles, Copying
<1>2. CASE copyFiles(w)
  BY <1>2, <1>a, LoopReads DEF copyFiles, SubFiles, Copying
<1>3. CASE CopyGet(w)
  BY <1>3, <1>a, Zenon DEF CopyGet, SubFiles, Copying, HasFile, SubGoto, SubShapes,
     subRequestVars
<1>4. CASE CopySet(w)
  BY <1>4, <1>a, Zenon DEF CopySet, SubFiles, Copying, HasFile, SubGoto, SubGot, SubShapes,
         subRequestVars, loopVars, BeginSet, Begin
<1>5. CASE Copied(w)
  BY <1>5, <1>a, Zenon DEF Copied, SubFiles, Copying, HasFile, SubGoto, SubGot, SubShapes,
         subRequestVars
<1>6. CASE loadMetaData(w)
  BY <1>6, <1>a, Zenon DEF loadMetaData, SubRows, SubFiles, Copying, HasFile, SubGoto,
     SubShapes,
         subRequestVars, loopVars
<1>7. CASE makeBundleFooter(w) \/ MakeSnapshot(w)
  BY <1>7, <1>a, LoopReads DEF makeBundleFooter, MakeSnapshot, SubFiles, Copying, HasFile,
         subRequestVars
<1>8. CASE \/ MetaDataLoaded(w) \/ FetchFile(w) \/ FileFetched(w) \/ StoreFooter(w)
           \/ FooterStored(w) \/ AddRow(w)
  BY <1>8, <1>a, Zenon DEF MetaDataLoaded, FetchFile, FileFetched, StoreFooter,
     FooterStored, AddRow,
         SubFiles, Copying, HasFile, SubGoto, SubGot, SubShapes, subRequestVars
<1> QED
  BY <1>1, <1>2, <1>3, <1>4, <1>5, <1>6, <1>7, <1>8, SubmitStops, SubmitChecks, Zenon
     DEF SubmitStep

\* A listing with the values of another is that listing.
LEMMA ListingsEqual ==
  ASSUME NEW f \in Listings, NEW g \in Listings, \A n \in Names : f[n] = g[n]
  PROVE  f = g
  BY DEF Listings

\* What the footer is built from.
LEMMA SubmitFooter ==
  ASSUME SoloInv, ReadsComplete, NEW w \in Submitters, SubRows(w), SubFooter(w), SubmitStep(w)
  PROVE  SubFooter(w)'
<1> USE SubFacts
<1>a. rows'[Dev] = rows[Dev] /\ UNCHANGED <<s3, mc>>
  BY SubmitCalls, Zenon DEF SoloInv, CallsKeys
<1>1. CASE subAt'[w] = "done"
  BY <1>1, Zenon DEF SubFooter, Copying
<1>2. CASE subAt'[w] \in {"app", "start"} /\ (CheckSubmission(w) \/ CheckApp(w))
  BY <1>2, SubmitChecks, Zenon DEF SubFooter, Copying
<1>3. CASE copyFiles(w)
  <2>1. subAt[w] = "start" /\ subAt'[w] = "copy" /\ UNCHANGED project
    BY <1>3, LoopReads, Zenon DEF copyFiles
  <2> QED
    BY <2>1, Zenon DEF SubFooter, Copying
<1>4. CASE CopyGet(w) \/ CopySet(w) \/ Copied(w)
  BY <1>4, Zenon DEF CopyGet, CopySet, Copied, SubFooter, Copying, SubGoto, SubGot, SubShapes
<1>5. CASE loadMetaData(w)
  BY <1>5, <1>a, Zenon DEF loadMetaData, SubFooter, Copying, SubGoto, SubShapes, BeginGet,
     Begin,
         subRequestVars
<1>6. CASE MetaDataLoaded(w)
  <2>1. subAt[w] = "meta" /\ call[w].at = "ok"
    BY <1>6, Zenon DEF MetaDataLoaded, SubGot
  <2>2. PICK c \in Contents : call[w].key = prefixed(subID[w], c)
    BY <2>1, Zenon DEF SubmitOK
  <2>3. call[w].key = prefixed(subID[w], rows[Dev][Siphonfile])
    BY <2>1, Zenon DEF SubFooter
  <2>4. c = rows[Dev][Siphonfile]
    BY <2>2, <2>3 DEF prefixed
  <2>5. call[w].op = "get" /\ subID[w] \in Namespaces
    BY <2>1, NamespaceKeys, Zenon DEF SubmitOK, Working
  <2>6. call[w].val \in Domain[call[w].key]
    BY <2>1, <2>5, Zenon DEF CallOK
  <2>7. call[w].val = c
    BY <2>2, <2>5, <2>6, NamespaceKeys
  <2> QED
    BY <1>6, <1>a, <2>1, <2>4, <2>7, Zenon DEF MetaDataLoaded, SubFooter, Copying,
       SubGoto, SubShapes
<1>7. CASE makeBundleFooter(w)
  <2>1. /\ subAt[w] = "build" /\ Loop(w, "fetch")
        /\ UNCHANGED <<base, project>>
    BY <1>7, Zenon DEF makeBundleFooter
  <2>2. list'[w] = rows[Dev] /\ todo'[w] = In(rows[Dev]) /\ subAt'[w] = "fetch"
    BY <2>1, LoopReads, Zenon
  <2>3. base'[w] = rows[Dev][Siphonfile] /\ project'[w] = NoFiles
    BY <2>1, Zenon DEF SubFooter
  <2>4. ASSUME NEW n \in Names \ todo'[w]
        PROVE  project'[w][n] = list'[w][n]
    <3>1. rows[Dev][n] = None
      BY <2>2, Zenon DEF In
    <3>2. NoFiles[n] = None
      BY Zenon DEF NoFiles
    <3> QED
      BY <2>2, <2>3, <3>1, <3>2, Zenon
  <2> QED
    BY <1>a, <2>2, <2>3, <2>4, Zenon DEF SubFooter, Copying
<1>8. CASE FetchFile(w)
  BY <1>8, <1>a, Zenon DEF FetchFile, SubFooter, Copying, SubGoto, SubShapes
<1>9. CASE FileFetched(w)
  <2>1. subAt[w] = "fetching" /\ call[w].at = "ok" /\ subAt'[w] = "fetch" /\ base'[w] = base[w]
        /\ list'[w] = list[w] /\ todo'[w] = todo[w] \ {item[w]}
    BY <1>9, Zenon DEF FileFetched, SubGot, SubGoto, SubShapes
  <2>2. item[w] \in Names /\ call[w].val = list[w][item[w]]
    BY <2>1, SubmitGets, Zenon DEF SoloInv
  <2>3. WritesComplete => project'[w] = [project[w] EXCEPT ![item[w]] = call[w].val]
    BY <1>9, Zenon DEF FileFetched, WritesComplete, SubShapes
  <2>4. WritesComplete => \A n \in Names \ todo[w] : project[w][n] = list[w][n]
    BY <2>1, Zenon DEF SubFooter
  <2>5. WritesComplete => \A n \in Names \ todo'[w] : project'[w][n] = list'[w][n]
    BY <2>1, <2>2, <2>3, <2>4, Zenon DEF Listings
  <2> QED
    BY <1>a, <2>1, <2>5, Zenon DEF SubFooter, Copying
<1>10. CASE StoreFooter(w)
  <2>1. subAt[w] = "fetch" /\ todo[w] = {} /\ subAt'[w] = "store" /\ subID'[w] = subID[w]
        /\ subPlatform'[w] = subPlatform[w]
    BY <1>10, Zenon DEF StoreFooter, SubGoto, SubShapes, subRequestVars
  <2> DEFINE v == [platform |-> subPlatform[w], project |-> project[w], base |-> base[w]]
             k == SnapKey(<<subID[w], subPlatform[w]>>)
  <2>2. call'[w].op = "set" /\ call'[w].key = k /\ call'[w].val = v /\ call'[w].at = "s3put"
    BY <1>10, Zenon DEF StoreFooter, BeginSet, Begin, SnapKey
  <2>3. v \in Footers
    <3>1. subPlatform[w] \in Platforms
      BY <1>10, StoreAssumption, Zenon DEF StoreFooter
    <3> QED
      BY <2>1, <3>1, Zenon DEF Footers, SubmitOK
  <2>a. list[w] = rows[Dev]
    BY <2>1, Zenon DEF SubRows
  <2>b. WritesComplete => \A n \in Names : project[w][n] = list[w][n]
    BY <2>1, Zenon DEF SubFooter
  <2>4. WritesComplete => project[w] = rows[Dev]
    BY <2>a, <2>b, ListingsEqual, Zenon
  <2>5. WritesComplete => v = AppFooter(subPlatform[w])'
    BY <1>a, <2>1, <2>4, Zenon DEF SubFooter, AppFooter
  <2> HIDE DEF v, k
  <2> QED
    BY <2>1, <2>2, <2>3, <2>5, Zenon DEF SubFooter, Copying, k
<1>11. CASE FooterStored(w)
  BY <1>11, <1>a, Zenon DEF FooterStored, SubFooter, Copying, SubGoto, SubGot, SubShapes,
         subRequestVars, AppFooter
<1>12. CASE MakeSnapshot(w)
  <2>1. subAt[w] = "snapshot" /\ subAt'[w] = "rows" /\ UNCHANGED <<subID, subPlatform>>
    BY <1>12, LoopReads, Zenon DEF MakeSnapshot, subRequestVars
  <2> QED
    BY <1>a, <2>1, Zenon DEF SubFooter, Copying, AppFooter
<1>13. CASE AddRow(w)
  BY <1>13, <1>a, Zenon DEF AddRow, SubFooter, Copying, AppFooter, subRequestVars
<1> QED
  BY <1>1, <1>2, <1>3, <1>4, <1>5, <1>6, <1>7, <1>8, <1>9, <1>10, <1>11, <1>12, <1>13,
     SubmitStops, SubmitChecks, Zenon DEF SubmitStep

\* The cache calls of a submission: it deletes nothing.
LEMMA SubmitCallWhole ==
  ASSUME SoloInv, NEW w \in Submitters, SubWhole(w), Calling(w), InCall(w),
         UNCHANGED submitVars
  PROVE  SubWhole(w)'
<1> USE SubFacts
<1>1. /\ UNCHANGED <<rows, subAt, subID, subPlatform, list, todo, item, base, project>>
      /\ CacheStep(w)
  BY Zenon DEF Calling, submitVars, subRequestVars, loopVars
<1>2. \/ subAt[w] \in {"copyget", "meta", "fetching"} /\ call[w].op = "get"
      \/ subAt[w] \in {"copyset", "store"} /\ call[w].op = "set"
  <2>1. \/ subAt[w] \in {"copyget", "meta", "fetching"}
        \/ subAt[w] \in {"copyset", "store"}
    BY Roles, Zenon DEF InCall
  <2>2. subAt[w] \in {"copyget", "meta", "fetching"} => call[w].op = "get"
    BY Zenon DEF SubmitOK
  <2>3. subAt[w] \in {"copyset", "store"} => call[w].op = "set"
    BY Zenon DEF SubWhole, SubFiles, SubFooter
  <2> QED
    BY <2>1, <2>2, <2>3, Zenon
<1>3. /\ call'[w].op = call[w].op /\ call'[w].key = call[w].key
      /\ \A k \in Keys : s3[k] # None => s3'[k] # None
      /\ call[w].op = "set" /\ call'[w].at \in {"mcset", "ok"} =>
              \/ s3'[call[w].key] # None
              \/ call[w].at \in {"mcset", "ok"} /\ UNCHANGED s3
  BY <1>1, <1>2, S3Facts, CacheStepKeeps, Zenon
<1>4. \A c \in Contents : HasFile(subID[w], c) => HasFile(subID[w], c)'
  <2>1. subID[w] \in Namespaces
    BY <1>2, NamespaceKeys, Zenon DEF Working
  <2> QED
    BY <1>1, <1>3, <2>1, NamespaceKeys, Zenon DEF HasFile
<1>5. SubRows(w)'
  BY <1>1, Zenon DEF SubWhole, SubRows
<1>6. SubFiles(w)'
  <2>1. \A n \in In(list[w]) : list[w][n] \in Contents
    BY ListingFacts, Zenon
  <2>2. \A n \in In(rows[Dev]) : rows[Dev][n] \in Contents
    BY ListingFacts, Zenon
  <2>3. subAt[w] \in Copying =>
          \A n \in In(list[w]) \ todo[w] : HasFile(subID[w], list[w][n])'
    BY <1>1, <1>4, <2>1, Zenon DEF SubWhole, SubFiles, HasFile
  <2>4. subAt[w] \in {"meta", "build", "fetch", "fetching", "store", "snapshot", "rows"} =>
          \A n \in In(rows[Dev]) : HasFile(subID[w], rows[Dev][n])'
    BY <1>1, <1>4, <2>2, Zenon DEF SubWhole, SubFiles, HasFile
  <2>5. subAt[w] = "copyset" =>
          /\ call'[w].op = "set" /\ call'[w].key = prefixed(subID[w], list[w][item[w]])
          /\ call'[w].at \in {"mcset", "ok"} => s3'[call'[w].key] # None
    BY <1>3, Zenon DEF SubWhole, SubFiles
  <2> QED
    BY <1>1, <2>3, <2>4, <2>5, Zenon DEF SubFiles, HasFile
<1>7. SubFooter(w)'
  <2>1. CASE subAt[w] = "store"
    <3> DEFINE key == SnapKey(<<subID[w], subPlatform[w]>>)
    <3>1. /\ call[w].op = "set" /\ call[w].key = key /\ call[w].val \in Footers
          /\ WritesComplete => call[w].val = AppFooter(subPlatform[w])
          /\ call[w].at \in {"mcset", "ok"} => s3[key] = call[w].val
      BY <2>1, Zenon DEF SubWhole, SubFooter
    <3>2. /\ call'[w].val = call[w].val
          /\ call'[w].at \in {"mcset", "ok"} => s3'[key] = call[w].val
          /\ call'[w].at = "ok" => mc'[key] \in {call[w].val, None}
      BY <1>1, <3>1, SetFacts, Zenon DEF SoloInv
    <3>3. AppFooter(subPlatform[w])' = AppFooter(subPlatform[w])
      BY <1>1, Zenon DEF AppFooter
    <3> HIDE DEF key
    <3> QED
      BY <1>1, <1>3, <2>1, <3>1, <3>2, <3>3, Zenon DEF SubFooter, Copying, key
  <2>2. CASE subAt[w] # "store"
    BY <1>1, <1>2, <1>3, <2>2, Zenon DEF SubWhole, SubFooter, Copying
  <2> QED
    BY <2>1, <2>2, Zenon
<1> QED
  BY <1>5, <1>6, <1>7, Zenon DEF SubWhole

\* The steps of a submission change no project directory but its own.
LEMMA SubmitApart ==
  ASSUME SoloInv, NEW w \in Submitters,
         SubmitRequest(w) \/ SubmitRefused(w) \/ SubmitStep(w) \/ SubmitReturn(w)
  PROVE  \A y \in Submitters : y # w => project'[y] = project[y]
<1> USE SubFacts DEF SubShapes
<1>1. CASE SubmitRequest(w) \/ SubmitRefused(w) \/ SubmitReturn(w)
  BY <1>1, Zenon DEF SubmitRequest, SubmitRefused, SubmitReturn, SubReset
<1>2. CASE SubmitStep(w)
  BY <1>2, Zenon DEF SubmitStep, CheckSubmission, CheckApp, copyFiles, CopyGet, CopySet, Copied,
         loadMetaData, MetaDataLoaded, makeBundleFooter, FetchFile, FileFetched, FetchFileFails,
         StoreFooter, BuildFails, NoSnapshotFooter, StoreFails, FooterStored, MakeSnapshot, AddRow, AddRowFails,
         SubmitDone, SubmitFails
<1> QED
  BY <1>1, <1>2, Zenon

\* Every step keeps what submissions rely on.
LEMMA SubWholeNext ==
  ASSUME OneAtATime, ReadsComplete, SoloInv, \A w \in Submitters : SubWhole(w),
         [BundlerNext]_bundlerVars
  PROVE  \A w \in Submitters : SubWhole(w)'
<1>a. \A w \in Submitters : subAt[w] = "idle" => project[w] = NoFiles
  BY Zenon DEF SubWhole, SubFooter
<1>b. ASSUME NEW x, x \notin Submitters, OnlyActive(x), OnlyActive(x)', UNCHANGED submitVars
      PROVE  \A w \in Submitters : SubWhole(w)'
  <2>1. \A w \in Submitters : subAt'[w] = "idle" /\ project'[w] = NoFiles
    BY <1>a, <1>b, Zenon DEF OnlyActive, Active, submitVars
  <2> QED
    BY <2>1, SubEnds, Zenon
<1>1. ASSUME NEW w \in Submitters, SubmitRoute(w)
      PROVE  \A y \in Submitters : SubWhole(y)'
  <2>1. /\ Solo(w)
        /\ \/ SubmitRequest(w) \/ SubmitRefused(w) \/ SubmitStep(w) \/ SubmitReturn(w)
           \/ Calling(w) /\ InCall(w) /\ UNCHANGED submitVars
    BY <1>1, SubmitSolo, Zenon
  <2>2. \A y \in Submitters : y # w => project'[y] = project[y]
    BY <2>1, SubmitApart, Zenon DEF submitVars
  <2>3. \A y \in Submitters : y # w => subAt'[y] = "idle" /\ project'[y] = NoFiles
    <3>1. \A y \in Submitters : y # w => subAt[y] = "idle" /\ subAt'[y] = "idle"
      BY <2>1 DEF Solo, OnlyActive, Active
    <3> QED
      BY <1>a, <2>2, <3>1, Zenon
  <2>4. \A y \in Submitters : y # w => SubWhole(y)'
    BY <2>3, SubEnds, Zenon
  <2>5. SubWhole(w)'
    <3>1. CASE SubmitRequest(w) \/ SubmitRefused(w) \/ SubmitReturn(w)
      <4>1. subAt'[w] = "done" \/ (subAt'[w] \in {"idle", "exists"} /\ project'[w] = NoFiles)
        BY <1>a, <3>1, SubFacts, Zenon DEF SubmitRequest, SubmitRefused, SubmitReturn,
           SubReset, SubGoto,
               SubFinish, SubShapes
      <4> QED
        BY <4>1, SubEnds, Zenon
    <3>2. CASE SubmitStep(w)
      BY <3>2, SubmitRows, SubmitFiles, SubmitFooter, Zenon DEF SubWhole
    <3>3. CASE Calling(w) /\ InCall(w) /\ UNCHANGED submitVars
      BY <3>3, SubmitCallWhole, Zenon
    <3> QED
      BY <2>1, <3>1, <3>2, <3>3, Zenon
  <2> QED
    BY <2>4, <2>5, Zenon
<1>2. CASE Eviction
  <2>1. /\ UNCHANGED <<s3, call, rows, subAt, subID, subPlatform, list, todo, item, base, project>>
        /\ \A k \in Keys : mc'[k] \in {mc[k], None}
    BY <1>2, EvictionFacts, Zenon
       DEF submitVars, subRequestVars, loopVars, SoloInv, BundlerInv, PushInv, CacheInv
  <2>2. ASSUME NEW w \in Submitters
        PROVE  SubRows(w)' /\ SubFiles(w)'
    BY <2>1, Zenon DEF SubWhole, SubRows, SubFiles, HasFile
  <2>3. ASSUME NEW w \in Submitters
        PROVE  SubFooter(w)'
    <3> DEFINE key == SnapKey(<<subID[w], subPlatform[w]>>)
    <3>1. subAt[w] \in Working => key \in Keys
      BY SubFacts, NamespaceKeys, Zenon DEF SnapKey, SnapshotFooterFile
    <3>2. AppFooter(subPlatform[w])' = AppFooter(subPlatform[w])
      BY <2>1, Zenon DEF AppFooter
    <3>3. subAt[w] \in {"store", "snapshot", "rows"} => mc'[key] \in {mc[key], None}
      BY <2>1, <3>1, Zenon DEF Working
    <3> HIDE DEF key
    <3> QED
      BY <2>1, <3>2, <3>3, Zenon DEF SubWhole, SubFooter, key
  <2> QED
    BY <2>2, <2>3, Zenon DEF SubWhole
<1>3. CASE Restart
  BY <1>3, RestartFacts, SubEnds, Zenon
<1>4. CASE UNCHANGED bundlerVars
  <2>1. UNCHANGED <<s3, mc, call, rows, subAt, subID, subPlatform, list, todo, item, base, project>>
    BY <1>4, Zenon DEF bundlerVars, allPushVars, submitVars, subRequestVars, loopVars
  <2>2. ASSUME NEW w \in Submitters
        PROVE  SubRows(w)' /\ SubFiles(w)'
    BY <2>1, Zenon DEF SubWhole, SubRows, SubFiles, HasFile
  <2>3. ASSUME NEW w \in Submitters
        PROVE  SubFooter(w)'
    <3>1. AppFooter(subPlatform[w])' = AppFooter(subPlatform[w])
      BY <2>1, Zenon DEF AppFooter
    <3> QED
      BY <2>1, <3>1, Zenon DEF SubWhole, SubFooter
  <2> QED
    BY <2>2, <2>3, Zenon DEF SubWhole
<1>5. ASSUME NEW p \in Pushers, PushRoute(p)
      PROVE  \A w \in Submitters : SubWhole(w)'
  BY <1>5, <1>b, PushSolo, Roles, Zenon DEF Solo
<1>6. ASSUME NEW q \in Pullers, PullRoute(q)
      PROVE  \A w \in Submitters : SubWhole(w)'
  BY <1>6, <1>b, PullSolo, Roles, Zenon DEF Solo
<1>7. ASSUME NEW m \in Monitors, HealthRoute(m)
      PROVE  \A w \in Submitters : SubWhole(w)'
  BY <1>7, <1>b, HealthSolo, Roles, Zenon DEF Solo
<1> QED
  BY <1>1, <1>2, <1>3, <1>4, <1>5, <1>6, <1>7, Zenon DEF BundlerNext

\* Only the last step of a submission records it.
LEMMA SubmittedGrows ==
  ASSUME SoloInv, OneAtATime, [BundlerNext]_bundlerVars
  PROVE  \/ submitted' = submitted
         \/ \E w \in Submitters :
              /\ SubmitDone(w) /\ SubmissionExists(subID[w])
              /\ submitted' = submitted \cup {<<subID[w], subPlatform[w]>>}
<1>1. ASSUME NEW w \in Submitters, SubmitRoute(w)
      PROVE  \/ submitted' = submitted
             \/ /\ SubmitDone(w) /\ SubmissionExists(subID[w])
                /\ submitted' = submitted \cup {<<subID[w], subPlatform[w]>>}
  <2>1. CASE SubmitRequest(w) \/ SubmitRefused(w) \/ SubmitReturn(w) \/ UNCHANGED submitVars
    BY <2>1, Zenon DEF SubmitRequest, SubmitRefused, SubmitReturn, submitVars
  <2>2. CASE SubmitDone(w)
    BY <2>2, Zenon DEF SubmitDone
  <2>3. CASE SubmitStep(w) /\ ~SubmitDone(w)
    BY <2>3, Zenon DEF SubmitStep, CheckSubmission, CheckApp, copyFiles, CopyGet, CopySet,
       Copied,
           loadMetaData, MetaDataLoaded, makeBundleFooter, FetchFile, FileFetched, FetchFileFails,
           StoreFooter, BuildFails, NoSnapshotFooter, StoreFails, FooterStored, MakeSnapshot, AddRow, AddRowFails,
           SubmitFails
  <2> QED
    BY <1>1, <2>1, <2>2, <2>3, SubmitSolo, Zenon
<1>2. ASSUME NEW p \in Pushers, PushRoute(p)
      PROVE  submitted' = submitted
  BY <1>2, PushSolo, Zenon DEF submitVars
<1>3. ASSUME NEW q \in Pullers, PullRoute(q)
      PROVE  submitted' = submitted
  BY <1>3, PullSolo, Zenon DEF submitVars
<1>4. ASSUME NEW m \in Monitors, HealthRoute(m)
      PROVE  submitted' = submitted
  BY <1>4, HealthSolo, Zenon DEF submitVars
<1>5. CASE Eviction
  BY <1>5, EvictionFacts, Zenon DEF submitVars, SoloInv, BundlerInv, PushInv, CacheInv
<1>6. CASE Restart
  BY <1>6, RestartFacts, Zenon
<1>7. CASE UNCHANGED bundlerVars
  BY <1>7, Zenon DEF bundlerVars, submitVars
<1> QED
  BY <1>1, <1>2, <1>3, <1>4, <1>5, <1>6, <1>7, Zenon DEF BundlerNext

\* What a submission that was made has.
Whole(x) ==
  LET s == x[1]
  IN  /\ \A n \in In(rows[s]) : s3[prefixed(s, rows[s][n])] = rows[s][n]
      /\ SnapshotFooter(x) = [platform |-> x[2], project |-> rows[s],
                              base |-> rows[s][Siphonfile]]

\* The last step of a submission finds the rows of the app under its ID.
LEMMA DoneRows ==
  ASSUME SoloInv, NEW w \in Submitters, SubWhole(w), SubmitDone(w)
  PROVE  rows[subID[w]] = rows[Dev] /\ UNCHANGED <<s3, mc, rows>>
<1>1. /\ subAt[w] = "rows" /\ todo[w] = {} /\ UNCHANGED <<s3, mc, rows>>
  BY Zenon DEF SubmitDone
<1>2. rows[subID[w]] \in Listings /\ rows[Dev] \in Listings
  BY <1>1, SubFacts, Zenon DEF Working
<1>3. \A n \in Names : rows[subID[w]][n] = rows[Dev][n]
  BY <1>1, Zenon DEF SubWhole, SubRows
<1> QED
  BY <1>1, <1>2, <1>3, ListingsEqual, Zenon

\* The submission it records is whole.
LEMMA DoneWhole ==
  ASSUME SoloInv, WritesComplete, NEW w \in Submitters, SubWhole(w), SubmitDone(w)
  PROVE  Whole(<<subID[w], subPlatform[w]>>)
<1> DEFINE s == subID[w]
<1>1. subAt[w] = "rows"
  BY Zenon DEF SubmitDone
<1>2. rows[s] = rows[Dev]
  BY DoneRows, Zenon
<1>3. s \in Namespaces /\ CacheInv /\ rows[Dev] \in Listings
  BY <1>1, SubFacts, NamespaceKeys, Zenon DEF Working
<1>4. ASSUME NEW n \in In(rows[s])
      PROVE  s3[prefixed(s, rows[s][n])] = rows[s][n]
  <2>1. rows[s][n] \in Contents
    BY <1>2, <1>3, ListingFacts, Zenon
  <2>2. s3[prefixed(s, rows[s][n])] # None
    BY <1>1, <1>2, Zenon DEF SubWhole, SubFiles, HasFile
  <2> QED
    BY <1>3, <2>1, <2>2, NamespaceKeys DEF CacheInv
<1>5. s3[SnapKey(<<s, subPlatform[w]>>)] = AppFooter(subPlatform[w])
  BY <1>1, Zenon DEF SubWhole, SubFooter
<1> HIDE DEF s
<1>6. Whole(<<s, subPlatform[w]>>)
  BY <1>2, <1>4, <1>5, Zenon DEF Whole, SnapshotFooter, SnapKey, AppFooter
<1> QED
  BY <1>6, Zenon DEF s

\* What nobody touches stays whole.
LEMMA StaysWhole ==
  ASSUME SoloInv, NEW x \in submitted, Whole(x), Untouched(x[1])
  PROVE  Whole(x)'
<1> DEFINE s == x[1]
<1>1. s \in Snapshots /\ s \in Subs /\ rows[s] \in Listings
  <2>1. s \in Snapshots
    BY Zenon DEF Snapshots
  <2>2. s \in Subs /\ s \in Namespaces
    BY <2>1, NamespaceKeys, Zenon DEF SoloInv, FrozenInv
  <2> QED
    BY <2>1, <2>2, Zenon DEF SoloInv, BundlerInv, PushInv, PushTypeOK, FilesTypeOK
<1>2. rows'[s] = rows[s]
  BY Zenon DEF Untouched
<1>3. \A f : prefixed(s, f)[1] = s
  BY Zenon DEF prefixed
<1>4. \A f \in Contents \cup FooterFiles : s3'[prefixed(s, f)] = s3[prefixed(s, f)]
  BY <1>1, <1>3, NamespaceKeys, Zenon DEF Untouched
<1>5. SnapshotFooterFile(x[2]) \in FooterFiles
  BY NamespaceKeys, Zenon DEF SnapshotFooterFile, AnyPlatform, Platforms
<1>6. \A n \in In(rows[s]) : rows[s][n] \in Contents
  BY <1>1, ListingFacts, Zenon
<1> QED
  BY <1>2, <1>4, <1>5, <1>6, Zenon DEF Whole, SnapshotFooter

\* Every step keeps submissions whole.
LEMMA WholeNextInv ==
  ASSUME OneAtATime, ReadsComplete, WritesComplete, SoloInv,
         \A w \in Submitters : SubWhole(w), SubmissionWhole, [BundlerNext]_bundlerVars
  PROVE  (\A w \in Submitters : SubWhole(w)') /\ SubmissionWhole'
<1>1. \A x \in submitted : Whole(x)
  BY Zenon DEF SubmissionWhole, Whole
<1>2. \A x \in submitted : Untouched(x[1])
  BY SoloNextInv, Zenon DEF Snapshots
<1>3. \A x \in submitted : Whole(x)'
  BY <1>1, <1>2, StaysWhole, Zenon
<1>4. ASSUME NEW w \in Submitters, SubmitDone(w)
      PROVE  Whole(<<subID[w], subPlatform[w]>>)'
  <2>1. UNCHANGED <<s3, rows, subID, subPlatform>>
    BY <1>4, Zenon DEF SubmitDone, subRequestVars
  <2>2. Whole(<<subID[w], subPlatform[w]>>)
    BY <1>4, DoneWhole, Zenon
  <2> QED
    BY <2>1, <2>2, Zenon DEF Whole, SnapshotFooter
<1>5. \A x \in submitted' : Whole(x)'
  <2>1. CASE submitted' = submitted
    BY <1>3, <2>1, Zenon
  <2>2. ASSUME NEW w \in Submitters, SubmitDone(w),
               submitted' = submitted \cup {<<subID[w], subPlatform[w]>>}
        PROVE  \A x \in submitted' : Whole(x)'
    <3>1. subID' = subID /\ subPlatform' = subPlatform
      BY <2>2, Zenon DEF SubmitDone, subRequestVars
    <3> QED
      BY <1>3, <1>4, <2>2, <3>1, Zenon
  <2> QED
    BY <2>1, <2>2, SubmittedGrows, Zenon
<1>6. SubmissionWhole'
  BY <1>5, Zenon DEF SubmissionWhole, Whole
<1> QED
  BY <1>6, SubWholeNext, Zenon

\* A submission that was answered with success is one version of the app: its
\* files were copied, and its footer was built from its own rows (submit.go).
\* This holds when requests do not overlap and no read of rows or write of a
\* fetched file stops half-way unnoticed, whatever else fails.
THEOREM SerialSubmissionWhole ==
  ASSUME OneAtATime, ReadsComplete, WritesComplete
  PROVE  BundlerSpec => []SubmissionWhole
<1> DEFINE Inv == SoloInv /\ (\A w \in Submitters : SubWhole(w)) /\ SubmissionWhole
<1>1. BundlerInit => Inv
  <2> SUFFICES ASSUME BundlerInit PROVE Inv
    BY Zenon
  <2>1. SoloInv
    BY SoloInitInv, Zenon
  <2>2. submitted = {} /\ \A w \in Submitters : subAt[w] = "idle" /\ project[w] = NoFiles
    BY Zenon DEF BundlerInit, SubmitInit
  <2>3. \A w \in Submitters : SubWhole(w)
    BY <2>2, Zenon DEF SubWhole, SubRows, SubFiles, SubFooter, Working, Copying
  <2> QED
    BY <2>1, <2>2, <2>3, Zenon DEF SubmissionWhole
<1>2. Inv /\ [BundlerNext]_bundlerVars => Inv'
  BY SoloNextInv, WholeNextInv, Zenon
<1>3. Inv => SubmissionWhole
  BY Zenon
<1> QED
  BY <1>1, <1>2, <1>3, PTL DEF BundlerSpec

=============================================================================
