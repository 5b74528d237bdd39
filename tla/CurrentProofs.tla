---------------------------- MODULE CurrentProofs ---------------------------
(***************************************************************************)
(* Proofs about pushes that do not overlap and whose reads of the rows are *)
(* complete.  A push never leaves a row without its file.  After "Done." or*)
(* "No changes detected." the rows are the listing that was pushed, and    *)
(* after "Done." the footers and Django are those of the rows.             *)
(***************************************************************************)
EXTENDS PushProofs

USE DEF Goto, Finish, Fail, Panic, Fault, NoFault, archiveVars, metaVars, todoVars,
        buildVars, worldVars, cacheVars

-----------------------------------------------------------------------------
(* The rows and the files.                                                 *)

\* The call a handler waits for.  While it sets a file, the file is in S3 once
\* the call is past S3; while it deletes one, the name is doomed and no other
\* row has its hash.
BlobOK(p) ==
  /\ pc[p] \in {"metaget", "fetching"} => call[p].op = "get"
  /\ pc[p] \in {"setting", "storing"} => call[p].op = "set"
  /\ pc[p] = "deleting" => call[p].op = "delete"
  /\ pc[p] \notin Waits => call[p].op = "none"
  /\ pc[p] = "setting" =>
       /\ call[p].key = FileKey(listing[p][cur[p]])
       /\ call[p].at \in {"mcset", "ok"} => s3[call[p].key] # None
  /\ pc[p] = "deleting" =>
       /\ cur[p] \in doomed
       /\ call[p].key = FileKey(rows[Dev][cur[p]])
       /\ ~protectHash(rows[Dev], cur[p], rows[Dev][cur[p]])

\* The strengthening of RowsHaveBlobs that the steps preserve.
BlobInv == RowsHaveBlobs /\ \A p \in Pushers : BlobOK(p)

\* The hypothesis: one push at a time.
OnePusher == \A p, q \in Pushers : p = q
\* No row has a file yet.
LEMMA BlobInitInv == PushInit => BlobInv
<1> SUFFICES ASSUME PushInit
             PROVE  BlobInv
  BY Zenon
<1>1. In(rows[Dev]) = {}
  BY KeyFacts, Zenon DEF PushInit, FilesInit, NoFiles, In
<1>2. ASSUME NEW p \in Pushers
      PROVE  BlobOK(p)
  BY PushAssumption, StoreAssumption, Zenon DEF PushInit, CacheInit, NoCall, BlobOK, Waits
<1> QED
  BY <1>1, <1>2, Zenon DEF RowsHaveBlobs, BlobInv

-----------------------------------------------------------------------------
(* Steps that touch neither S3 nor the rows.                               *)

\* Such a step keeps the invariant.
LEMMA IdlesInv ==
  ASSUME OnePusher, BlobInv, NEW p \in Pushers, Idles(p)
  PROVE  BlobInv'
<1>1. BlobOK(p)'
  BY Zenon DEF Idles, BlobOK, Waits
<1>2. RowsHaveBlobs'
  BY Zenon DEF BlobInv, RowsHaveBlobs, Idles
<1> QED
  BY <1>1, <1>2, Zenon DEF OnePusher, BlobInv

-----------------------------------------------------------------------------
(* The steps of a call.                                                    *)

\* Two contents have the same key only if they are the same.
LEMMA KeyInjective == \A c, d : FileKey(c) = FileKey(d) => c = d
  BY Zenon DEF FileKey, prefixed

\* A step of a cache call keeps the invariant.
LEMMA CacheCallBlob ==
  ASSUME PushInv, OnePusher, BlobInv, NEW p \in Pushers, CacheCall(p)
  PROVE  BlobInv'
<1>i. /\ CacheInv /\ CacheTypeOK /\ FilesTypeOK /\ BlobOK(p) /\ RowsHaveBlobs
      /\ p \in Procs /\ CacheStep(p)
  BY PushAssumption, StoreAssumption, Zenon DEF PushInv, PushTypeOK, BlobInv, CacheCall
<1>u. UNCHANGED <<pc, listing, cur, doomed, rows>>
  BY Zenon DEF CacheCall, pushVars
<1>k. call'[p].op = call[p].op /\ call'[p].key = call[p].key
  BY <1>i, CacheStepKeeps, Zenon
<1>f. /\ \A k \in Keys : s3[k] # None =>
           s3'[k] # None \/ (call[p].op = "delete" /\ k = call[p].key)
      /\ call[p].op = "set" /\ call'[p].at \in {"mcset", "ok"} =>
           \/ s3'[call[p].key] # None
           \/ call[p].at \in {"mcset", "ok"} /\ UNCHANGED s3
  BY <1>i, S3Facts, Zenon
<1>1. BlobOK(p)'
  BY <1>i, <1>u, <1>k, <1>f, Zenon DEF BlobOK, protectHash
<1>2. ASSUME NEW n \in In(rows[Dev]) \ doomed
      PROVE  s3'[FileKey(rows[Dev][n])] # None
  <2>1. n \in Names /\ FileKey(rows[Dev][n]) \in Keys
    BY <1>i, KeyFacts, ListingFacts, Zenon DEF FilesTypeOK
  <2>2. s3[FileKey(rows[Dev][n])] # None
    BY <1>i, <1>2, Zenon DEF RowsHaveBlobs
  <2>3. ASSUME call[p].op = "delete", FileKey(rows[Dev][n]) = call[p].key
        PROVE  FALSE
    <3>1. pc[p] = "deleting"
      BY <1>i, <2>3, Zenon DEF BlobOK, Waits
    <3>2. rows[Dev][n] = rows[Dev][cur[p]] /\ n # cur[p]
      BY <1>i, <1>2, <2>3, <3>1, KeyInjective, Zenon DEF BlobOK
    <3> QED
      BY <1>i, <2>1, <3>1, <3>2, Zenon DEF BlobOK, protectHash
  <2> QED
    BY <1>f, <2>1, <2>2, <2>3, Zenon
<1>3. RowsHaveBlobs'
  BY <1>u, <1>2, Zenon DEF RowsHaveBlobs, In
<1> QED
  BY <1>1, <1>3, Zenon DEF OnePusher, BlobInv

-----------------------------------------------------------------------------
(* The remaining steps.                                                    *)

\* Starting a Get, or the Set of a file or a footer, keeps the invariant.
LEMMA BeginBlob ==
  ASSUME PushInv, OnePusher, BlobInv, NEW p \in Pushers,
         LoadHash(p) \/ UpdateCache(p) \/ Fetch(p) \/ SetBundleFooter(p)
  PROVE  BlobInv'
<1>s. Shapes /\ p \in Procs
  BY PushShapes, PushAssumption, StoreAssumption, Zenon
<1>u. UNCHANGED <<s3, rows, doomed>>
  BY Zenon DEF LoadHash, UpdateCache, Fetch, SetBundleFooter
<1>1. ASSUME LoadHash(p)
      PROVE  BlobOK(p)'
  <2>1. call'[p].op = "get"
    BY <1>1, <1>s, Zenon DEF LoadHash, BeginGet, Begin, Shapes
  <2>2. pc'[p] = "metaget"
    BY <1>1, <1>s, Zenon DEF LoadHash, Shapes
  <2> QED
    BY <2>1, <2>2, Zenon DEF BlobOK, Waits
<1>2. ASSUME UpdateCache(p)
      PROVE  BlobOK(p)'
  <2>1. PICK n \in Updates(p) :
          /\ cur' = [cur EXCEPT ![p] = n]
          /\ BeginSet(p, FileKey(listing[p][n]), listing[p][n])
    BY <1>2, Zenon DEF UpdateCache
  <2>2. /\ call'[p].op = "set" /\ call'[p].at = "s3put"
        /\ call'[p].key = FileKey(listing[p][n]) /\ cur'[p] = n
    BY <1>s, <2>1, Zenon DEF BeginSet, Begin, Shapes
  <2>3. pc'[p] = "setting" /\ listing' = listing
    BY <1>2, <1>s, Zenon DEF UpdateCache, Shapes
  <2> QED
    BY <2>2, <2>3, Zenon DEF BlobOK, Waits
<1>3. ASSUME Fetch(p)
      PROVE  BlobOK(p)'
  <2>1. call'[p].op = "get"
    <3>1. PICK n \in fetch[p] : BeginGet(p, FileKey(files[p][n]))
      BY <1>3, Zenon DEF Fetch
    <3> QED
      BY <1>s, <3>1, Zenon DEF BeginGet, Begin, Shapes
  <2>2. pc'[p] = "fetching"
    BY <1>3, <1>s, Zenon DEF Fetch, Shapes
  <2> QED
    BY <2>1, <2>2, Zenon DEF BlobOK, Waits
<1>4. ASSUME SetBundleFooter(p)
      PROVE  BlobOK(p)'
  <2>1. call'[p].op = "set"
    BY <1>4, <1>s, Zenon DEF SetBundleFooter, BeginSet, Begin, Shapes
  <2>2. pc'[p] = "storing"
    BY <1>4, <1>s, Zenon DEF SetBundleFooter, Shapes
  <2> QED
    BY <2>1, <2>2, Zenon DEF BlobOK, Waits
<1>5. BlobOK(p)'
  BY <1>1, <1>2, <1>3, <1>4, Zenon
<1> QED
  BY <1>u, <1>5, Zenon DEF OnePusher, BlobInv, RowsHaveBlobs

\* A row whose file is in S3 is written.
LEMMA WriteRowBlob ==
  ASSUME PushInv, BlobInv, NEW p \in Pushers, Waiting(p, "setting"), WriteRow(p),
         doomed' = doomed \ {cur[p]}, UNCHANGED s3
  PROVE  RowsHaveBlobs'
<1>i. FilesTypeOK /\ PushTypeOK /\ HandlerOK(p) /\ BlobOK(p) /\ RowsHaveBlobs
  BY Zenon DEF PushInv, PushTypeOK, BlobInv
<1>1. cur[p] \in Names /\ listing[p][cur[p]] \in Contents
  <2>1. cur[p] \in In(listing[p])
    BY <1>i, Zenon DEF HandlerOK, Waiting
  <2> QED
    BY <1>i, <2>1, ListingFacts, Zenon DEF PushTypeOK
<1>2. /\ FilesTypeOK'
      /\ \A m \in Names : \/ rows'[Dev][m] = rows[Dev][m]
                          \/ m = cur[p] /\ rows'[Dev][m] = listing[p][m]
  BY <1>i, <1>1, UpdateFacts, Zenon
<1>w. rows'[Dev][cur[p]] \in {None, listing[p][cur[p]]}
  <2>1. rows[Dev] \in Listings
    BY <1>i, KeyFacts, Zenon DEF FilesTypeOK
  <2> QED
    BY <1>i, <1>1, <2>1, KeyFacts, Zenon DEF WriteRow, AddFile, UpdateFile, FilesTypeOK,
       Listings
<1>3. s3[FileKey(listing[p][cur[p]])] # None
  BY <1>i, Zenon DEF BlobOK, Waiting
<1>4. ASSUME NEW m \in Names, rows'[Dev][m] # None, m \notin doomed'
      PROVE  s3[FileKey(rows'[Dev][m])] # None
  <2>1. CASE m = cur[p] /\ rows'[Dev][m] = listing[p][m]
    BY <1>3, <2>1, Zenon
  <2>2. CASE rows'[Dev][m] = rows[Dev][m] /\ m # cur[p]
    BY <1>i, <1>4, <2>2, Zenon DEF RowsHaveBlobs, In
  <2>3. CASE rows'[Dev][m] = rows[Dev][m] /\ m = cur[p]
    <3>1. rows[Dev][m] = listing[p][m]
      BY <1>4, <2>3, <1>w, Zenon
    <3> QED
      BY <1>3, <2>3, <3>1, Zenon
  <2> QED
    BY <1>2, <2>1, <2>2, <2>3, Zenon
<1> QED
  BY <1>4, Zenon DEF RowsHaveBlobs, In

\* Writing the row of a file, with or without an error, keeps the invariant.
LEMMA UpdateRowBlob ==
  ASSUME PushInv, OnePusher, BlobInv, NEW p \in Pushers, UpdateRow(p) \/ UpdateRowFails(p)
  PROVE  BlobInv'
<1>s. Shapes /\ p \in Procs
  BY PushShapes, PushAssumption, StoreAssumption, Zenon
<1>1. Waiting(p, "setting") /\ Hangup(p) /\ UNCHANGED s3 /\ pc'[p] \in {"apply", "done"}
  BY <1>s, Zenon DEF UpdateRow, UpdateRowFails, Shapes
<1>2. \/ UNCHANGED <<rows, doomed>>
      \/ WriteRow(p) /\ doomed' = doomed \ {cur[p]}
  BY Zenon DEF UpdateRow, UpdateRowFails
<1>3. RowsHaveBlobs'
  BY <1>1, <1>2, WriteRowBlob, Zenon DEF BlobInv, RowsHaveBlobs
<1>4. BlobOK(p)'
  BY <1>1, <1>s, Zenon DEF Hangup, NoCall, Shapes, BlobOK, Waits
<1> QED
  BY <1>3, <1>4, Zenon DEF OnePusher, BlobInv

\* Choosing a file to remove keeps the invariant.
LEMMA RemoveCacheBlob ==
  ASSUME PushInv, OnePusher, ReadsComplete, BlobInv, NEW p \in Pushers, RemoveCache(p)
  PROVE  BlobInv'
<1>s. Shapes /\ p \in Procs /\ BlobOK(p)
  BY PushShapes, PushAssumption, StoreAssumption, Zenon DEF BlobInv
<1>u. UNCHANGED <<s3, rows>>
  BY Zenon DEF RemoveCache
<1>1. PICK n \in removed[p], f \in Listings :
        /\ GetFiles(Dev, f)
        /\ cur' = [cur EXCEPT ![p] = n]
        /\ \/ Goto(p, "rowdel") /\ UNCHANGED <<call, doomed>>
           \/ /\ ~protectHash(f, n, f[n])
              /\ BeginDelete(p, FileKey(f[n]))
              /\ doomed' = doomed \cup {n}
              /\ Goto(p, "deleting")
  BY Zenon DEF RemoveCache
<1>2. f = rows[Dev]
  BY <1>1, Zenon DEF GetFiles, ReadsComplete
<1>3. RowsHaveBlobs'
  BY <1>1, <1>u, Zenon DEF BlobInv, RowsHaveBlobs
<1>4. ASSUME Goto(p, "rowdel") /\ UNCHANGED <<call, doomed>>
      PROVE  BlobOK(p)'
  <2>1. pc[p] = "apply"
    BY Zenon DEF RemoveCache, Removing
  <2> QED
    BY <1>s, <1>4, <2>1, Zenon DEF Shapes, BlobOK, Waits
<1>5. ASSUME /\ ~protectHash(f, n, f[n])
             /\ BeginDelete(p, FileKey(f[n]))
             /\ doomed' = doomed \cup {n}
             /\ Goto(p, "deleting")
      PROVE  BlobOK(p)'
  <2>1. /\ call'[p].op = "delete" /\ call'[p].key = FileKey(f[n])
        /\ pc'[p] = "deleting" /\ cur'[p] = n /\ n \in doomed'
    BY <1>s, <1>1, <1>5, Zenon DEF BeginDelete, Begin, Shapes
  <2> QED
    BY <1>2, <1>5, <1>u, <2>1, Zenon DEF BlobOK, Waits, protectHash
<1> QED
  BY <1>1, <1>3, <1>4, <1>5, Zenon DEF OnePusher, BlobInv

\* Deleting the row of a removed file, with or without an error, keeps it.
LEMMA RemoveRowBlob ==
  ASSUME PushInv, OnePusher, BlobInv, NEW p \in Pushers, RemoveRow(p) \/ RemoveRowFails(p)
  PROVE  BlobInv'
<1>s. Shapes /\ p \in Procs /\ FilesTypeOK /\ PushTypeOK /\ HandlerOK(p) /\ RowsHaveBlobs
  BY PushShapes, PushAssumption, StoreAssumption, Zenon DEF PushInv, PushTypeOK, BlobInv
<1>1. /\ pc[p] \in {"deleting", "rowdel"}
      /\ Hangup(p) /\ UNCHANGED s3 /\ pc'[p] \in {"apply", "done"}
  BY <1>s, Zenon DEF RemoveRow, RemoveRowFails, Shapes, Waiting
<1>2. \/ UNCHANGED <<rows, doomed>>
      \/ DeleteFile(Dev, cur[p]) /\ doomed' = doomed \ {cur[p]}
  BY Zenon DEF RemoveRow, RemoveRowFails
<1>3. ASSUME UNCHANGED <<rows, doomed>>
      PROVE  RowsHaveBlobs'
  BY <1>1, <1>3, <1>s, Zenon DEF RowsHaveBlobs
<1>4. ASSUME DeleteFile(Dev, cur[p]) /\ doomed' = doomed \ {cur[p]}
      PROVE  RowsHaveBlobs'
  <2>1. cur[p] \in Names
    BY <1>s, <1>1, Zenon DEF HandlerOK, PushTypeOK
  <2>2. \A m \in Names : rows'[Dev][m] = IF m = cur[p] THEN None ELSE rows[Dev][m]
    BY <1>s, <1>4, <2>1, DeleteFileFacts, Zenon
  <2> QED
    BY <1>1, <1>4, <1>s, <2>2, Zenon DEF RowsHaveBlobs, In
<1>5. BlobOK(p)'
  BY <1>1, <1>s, Zenon DEF Hangup, NoCall, Shapes, BlobOK, Waits
<1> QED
  BY <1>2, <1>3, <1>4, <1>5, Zenon DEF OnePusher, BlobInv

\* Every step keeps the invariant.
LEMMA BlobNextInv ==
  ASSUME OnePusher, ReadsComplete
  PROVE  PushInv /\ BlobInv /\ [PushNext]_allPushVars => BlobInv'
<1> SUFFICES ASSUME PushInv, BlobInv, [PushNext]_allPushVars
             PROVE  BlobInv'
  BY Zenon
<1>0. \A p \in Pushers : BlobOK(p) /\ (pc[p] \notin Waits => call[p].op = "none")
  BY Zenon DEF BlobInv, BlobOK
<1>1. ASSUME NEW p \in Pushers, GetHashes(p) \/ Handler(p) \/ Return(p)
      PROVE  BlobInv'
  <2>1. CASE GetHashes(p) \/ Return(p)
    BY <1>0, <2>1, HandlerIdles, IdlesInv, Zenon
  <2>2. CASE LoadStep(p)
    BY <1>0, <2>2, HandlerIdles, IdlesInv, BeginBlob, Zenon DEF LoadStep
  <2>3. CASE ApplyStep(p)
    BY <1>0, <2>3, HandlerIdles, IdlesInv, BeginBlob, UpdateRowBlob, RemoveCacheBlob,
       RemoveRowBlob, Zenon
       DEF ApplyStep
  <2>4. CASE FooterStep(p)
    BY <1>0, <2>4, HandlerIdles, IdlesInv, BeginBlob, Zenon DEF FooterStep
  <2> QED
    BY <1>1, <2>1, <2>2, <2>3, <2>4, CacheCallBlob, Zenon DEF Handler
<1>2. CASE EvictItem \/ UNCHANGED allPushVars
  <2>1. UNCHANGED <<pc, listing, cur, doomed, rows, s3, call>>
    BY <1>2, Zenon DEF EvictItem, Evict, allPushVars, pushVars
  <2> QED
    BY <2>1, Zenon DEF BlobInv, BlobOK, RowsHaveBlobs
<1>3. CASE Crash
  <2>1. UNCHANGED <<s3, rows, doomed>>
    BY <1>3, Zenon DEF Crash
  <2>2. ASSUME NEW p \in Pushers
        PROVE  BlobOK(p)'
    BY <1>3, PushAssumption, StoreAssumption, Zenon DEF Crash, Reset, NoCall, BlobOK, Waits
  <2> QED
    BY <2>1, <2>2, Zenon DEF BlobInv, RowsHaveBlobs
<1> QED
  BY <1>1, <1>2, <1>3, Zenon DEF PushNext

\* One push at a time, with complete reads of the rows, never leaves a row
\* whose file is not in S3, except for a file it was removing when it failed:
\* for any projects, and with any failures of S3, memcached, the statements
\* that write rows, the disk, the packager, Django or RabbitMQ, and crashes.
THEOREM SerialRowsHaveBlobs ==
  ASSUME OnePusher, ReadsComplete
  PROVE  PushSpec => []RowsHaveBlobs
<1>1. BlobInv => RowsHaveBlobs
  BY Zenon DEF BlobInv
<1> QED
  BY <1>1, BlobInitInv, BlobNextInv, PushInvariant, PTL DEF PushSpec
-----------------------------------------------------------------------------
(* The rows, the footers and Django.                                       *)

\* Where a handler is carrying out Compare's answer, and where it is building
\* and storing the footers.
Applying == {"apply", "setting", "deleting", "rowdel"}
Building == {"fetch", "fetching", "put", "footer", "storing"}

\* The names whose rows have yet to be written.
Left(p) == added[p] \cup changed[p] \cup removed[p]

\* The rows that are not left to write are those of the listing; the others are
\* as Compare found them.
StoreOK(p) ==
  /\ pc[p] \in Applying =>
       /\ \A n \in added[p] : rows[Dev][n] = None
       /\ \A n \in changed[p] : rows[Dev][n] # None
       /\ \A n \in removed[p] : listing[p][n] = None
       /\ \A n \in Names \ Left(p) : rows[Dev][n] = listing[p][n]
  /\ pc[p] \in Building \/ Succeeded(p) => rows[Dev] = listing[p]

\* The push has said "Done."
SaidDone(p) == pc[p] = "done" /\ result[p] = "ok"

\* The Siphonfile that was parsed is that of the archive or, when there is none
\* in it, that of the row, which goes away only if the file is removed.
MetaOK(p) ==
  /\ pc[p] = "metaget" =>
       rows[Dev][Siphonfile] # None /\ call[p].key = FileKey(rows[Dev][Siphonfile])
  /\ pc[p] \in Loaded \/ SaidDone(p) =>
       IF Siphonfile \in diffs[p]
       THEN meta[p] = listing[p][Siphonfile]
       ELSE rows[Dev][Siphonfile] \in {meta[p], None}

\* The directory the footers are built from has every file of the app that is
\* not left to fetch, with the content its row names.
TempOK(p) ==
  /\ pc[p] \in Building \/ SaidDone(p) => files[p] = listing[p]
  /\ pc[p] \in {"fetch", "fetching"} =>
       \A n \in Names \ fetch[p] : tmp[p][n] = listing[p][n]
  /\ pc[p] = "fetching" => call[p].key = FileKey(files[p][cur[p]])
  /\ pc[p] \in {"put", "footer", "storing"} \/ SaidDone(p) => tmp[p] = listing[p]

\* S3 holds the footers that were stored, memcached holds no others, and Django
\* has what was PUT.  The Set of a footer has reached S3 once it is past S3, and
\* memcached once it is answered.
FootersOK(p) ==
  /\ pc[p] \in Steps \ {"footer", "storing", "done"} => stored[p] = {}
  /\ pc[p] \in {"footer", "storing"} \/ SaidDone(p) =>
       /\ django = Metadata(p)
       /\ \A platform \in stored[p] :
            /\ s3[FooterKey(platform)] = Footer(p, platform)
            /\ mc[FooterKey(platform)] \in {Footer(p, platform), None}
  /\ pc[p] = "storing" =>
       /\ call[p].op = "set"
       /\ call[p].key = FooterKey(NextPlatform(p))
       /\ call[p].val = Footer(p, NextPlatform(p))
       /\ call[p].at \in {"mcset", "ok"} => s3[call[p].key] = call[p].val
       /\ call[p].at = "ok" => mc[call[p].key] \in {call[p].val, None}
  /\ SaidDone(p) => built[p] = stored[p]
  /\ p \in notified => SaidDone(p)

\* What a handler relies on.
CurrentOK(p) ==
  /\ StoreOK(p) /\ MetaOK(p) /\ FootersOK(p)
  /\ WritesComplete => TempOK(p)

-----------------------------------------------------------------------------
(* Steps that keep most of it.                                             *)

\* The handler has only begun after the step, or returns with an error.
Quits(p) ==
  \/ pc'[p] \in {"idle", "post", "load"} /\ stored'[p] = {} /\ p \notin notified'
  \/ pc'[p] = "done" /\ result'[p] \in {"error", "aborted"} /\ p \notin notified'

\* Then it relies on nothing.
LEMMA QuitsCurrent ==
  ASSUME NEW p \in Pushers, Quits(p)
  PROVE  CurrentOK(p)'
<1>1. pc'[p] \notin Applying \cup Building \cup Loaded \cup {"metaget"}
  BY Zenon DEF Quits, Applying, Building, Loaded
<1>2. ~Succeeded(p)' /\ ~SaidDone(p)'
  BY Zenon DEF Quits, Succeeded, SaidDone
<1>3. StoreOK(p)'
  BY <1>1, <1>2, Zenon DEF StoreOK
<1>4. MetaOK(p)'
  BY <1>1, <1>2, Zenon DEF MetaOK
<1>5. TempOK(p)'
  BY <1>1, <1>2, Zenon DEF TempOK, Building
<1>6. FootersOK(p)'
  BY <1>1, <1>2, Zenon DEF FootersOK, Building, Quits
<1> QED
  BY <1>3, <1>4, <1>5, <1>6, Zenon DEF CurrentOK

\* The steps of a handler that are of this kind.
LEMMA HandlerQuits ==
  ASSUME PushInv, NEW p \in Pushers, FootersOK(p),
         \/ GetHashes(p) \/ Return(p) \/ Decompress(p) \/ DecompressFails(p)
         \/ LoadHashFails(p) \/ LoadFails(p) \/ ArchiveUnreadable(p)
         \/ UpdateCacheFails(p) \/ UpdateRowFails(p) \/ RemoveHashMissing(p)
         \/ RemoveCacheFails(p) \/ RemoveRowFails(p) \/ FetchFails(p) \/ BadIcon(p)
         \/ PackageFails(p) \/ PutMetadataFails(p) \/ FooterUnreadable(p)
         \/ SetBundleFooterFails(p)
  PROVE  Quits(p)
<1>s. /\ DOMAIN pc = Pushers /\ DOMAIN result = Pushers
  BY LocalShapes, Zenon DEF Shapes
<1>n. pc[p] # "done" => p \notin notified
  BY Zenon DEF FootersOK, SaidDone
<1>1. CASE GetHashes(p)
  <2>1. pc[p] = "idle" /\ pc'[p] = "post" /\ stored' = stored /\ notified' = notified
    BY <1>1, <1>s, Zenon DEF GetHashes
  <2> QED
    BY <1>n, <2>1, Zenon DEF FootersOK, Steps, Quits
<1>2. CASE Return(p)
  BY <1>2, Zenon DEF Return, Reset, Quits
<1>3. CASE Decompress(p)
  <2>1. pc[p] = "post" /\ pc'[p] = "load" /\ stored' = stored /\ notified' = notified
    BY <1>3, <1>s, Zenon DEF Decompress
  <2> QED
    BY <1>n, <2>1, Zenon DEF FootersOK, Steps, Quits
<1>f. ASSUME pc[p] # "done", UNCHANGED notified, NEW d,
             Finish(p, "error", d) \/ Finish(p, "aborted", d)
      PROVE  Quits(p)
  BY <1>f, <1>s, <1>n, Zenon DEF Quits
<1>4. CASE DecompressFails(p) \/ LoadHashFails(p) \/ LoadFails(p)
  BY <1>4, <1>f, Zenon DEF DecompressFails, LoadHashFails, LoadFails, CallFailed
<1>5. CASE ArchiveUnreadable(p) \/ UpdateCacheFails(p) \/ UpdateRowFails(p)
  BY <1>5, <1>f, Zenon DEF ArchiveUnreadable, UpdateCacheFails, UpdateRowFails,
     CallFailed, Waiting
<1>6. CASE RemoveHashMissing(p) \/ RemoveCacheFails(p) \/ RemoveRowFails(p)
  BY <1>6, <1>f, Zenon DEF RemoveHashMissing, RemoveCacheFails, RemoveRowFails,
     CallFailed, Waiting,
                    Removing
<1>7. CASE FetchFails(p) \/ BadIcon(p) \/ PackageFails(p)
  BY <1>7, <1>f, Zenon DEF FetchFails, BadIcon, PackageFails, CallFailed
<1>8. CASE PutMetadataFails(p) \/ FooterUnreadable(p) \/ SetBundleFooterFails(p)
  BY <1>8, <1>f, Zenon DEF PutMetadataFails, FooterUnreadable, SetBundleFooterFails, CallFailed
<1> QED
  BY <1>1, <1>2, <1>3, <1>4, <1>5, <1>6, <1>7, <1>8, Zenon

-----------------------------------------------------------------------------
(* The rows.                                                               *)

\* Comparing with all the rows divides the names into those whose rows are
\* right and those left to write.
LEMMA CompareStore ==
  ASSUME PushInv, ReadsComplete, NEW p \in Pushers, Compare(p)
  PROVE  StoreOK(p)'
<1>s. /\ DOMAIN pc = Pushers /\ DOMAIN result = Pushers /\ DOMAIN added = Pushers
      /\ DOMAIN changed = Pushers /\ DOMAIN removed = Pushers
  BY LocalShapes, Zenon DEF Shapes
<1>t. rows[Dev] \in Listings /\ listing[p] \in Listings
  BY KeyFacts, Zenon DEF PushInv, PushTypeOK, FilesTypeOK
<1>u. UNCHANGED <<rows, listing>>
  BY Zenon DEF Compare
<1>1. PICK f \in Listings :
        /\ GetFiles(Dev, f)
        /\ \/ /\ added' = [added EXCEPT ![p] = Added(listing[p], f)]
              /\ changed' = [changed EXCEPT ![p] = Changed(listing[p], f)]
              /\ removed' = [removed EXCEPT ![p] = Removed(listing[p], f)]
              /\ Goto(p, "apply")
           \/ Fail(p)
  BY Zenon DEF Compare
<1>2. f = rows[Dev]
  BY <1>1, Zenon DEF GetFiles, ReadsComplete
<1>3. CASE Fail(p)
  BY <1>3, <1>s, Zenon DEF StoreOK, Applying, Building, Succeeded
<1>4. CASE /\ added' = [added EXCEPT ![p] = Added(listing[p], f)]
           /\ changed' = [changed EXCEPT ![p] = Changed(listing[p], f)]
           /\ removed' = [removed EXCEPT ![p] = Removed(listing[p], f)]
           /\ Goto(p, "apply")
  <2>1. /\ added'[p] = Added(listing[p], rows[Dev])
        /\ changed'[p] = Changed(listing[p], rows[Dev])
        /\ removed'[p] = Removed(listing[p], rows[Dev])
        /\ pc'[p] = "apply"
    BY <1>2, <1>4, <1>s, Zenon
  <2>2. ASSUME NEW n \in Names \ Left(p)'
        PROVE  rows[Dev][n] = listing[p][n]
    BY <2>1, <2>2, Zenon DEF Left, Added, Changed, Removed, In
  <2>3. /\ \A n \in added'[p] : rows[Dev][n] = None
        /\ \A n \in changed'[p] : rows[Dev][n] # None
        /\ \A n \in removed'[p] : listing[p][n] = None
    BY <2>1, Zenon DEF Added, Changed, Removed, In
  <2> QED
    BY <1>u, <2>1, <2>2, <2>3, Zenon DEF StoreOK, Applying, Building, Succeeded
<1> QED
  BY <1>1, <1>3, <1>4, Zenon

\* Writing a row that was left to write makes it that of the listing.
LEMMA UpdateRowStore ==
  ASSUME PushInv, NEW p \in Pushers, StoreOK(p), UpdateRow(p)
  PROVE  StoreOK(p)' /\ \A n \in Names : n # cur[p] => rows'[Dev][n] = rows[Dev][n]
<1>s. /\ DOMAIN pc = Pushers /\ DOMAIN added = Pushers /\ DOMAIN changed = Pushers
  BY LocalShapes, Zenon DEF Shapes
<1>t. /\ FilesTypeOK /\ PushTypeOK /\ HandlerOK(p) /\ listing[p] \in Listings
      /\ rows[Dev] \in Listings
  BY KeyFacts, Zenon DEF PushInv, PushTypeOK, FilesTypeOK
<1>1. /\ pc[p] = "setting" /\ WriteRow(p) /\ pc'[p] = "apply"
      /\ added'[p] = added[p] \ {cur[p]} /\ changed'[p] = changed[p] \ {cur[p]}
      /\ UNCHANGED <<listing, removed>>
  BY <1>s, Zenon DEF UpdateRow, Waiting
<1>2. cur[p] \in added[p] \cup changed[p] /\ cur[p] \in In(listing[p])
  BY <1>t, <1>1, Zenon DEF HandlerOK
<1>3. cur[p] \in Names /\ listing[p][cur[p]] \in Contents
  BY <1>t, <1>2, ListingFacts, Zenon
<1>4. \A m \in Names : \/ rows'[Dev][m] = rows[Dev][m]
                       \/ m = cur[p] /\ rows'[Dev][m] = listing[p][m]
  BY <1>t, <1>1, <1>3, UpdateFacts, Zenon
<1>5. rows'[Dev][cur[p]] = listing[p][cur[p]]
  <2>1. IF cur[p] \in added[p] THEN rows[Dev][cur[p]] = None ELSE rows[Dev][cur[p]] # None
    BY <1>1, <1>2, Zenon DEF StoreOK, Applying
  <2>2. rows' = [rows EXCEPT ![Dev] = [@ EXCEPT ![cur[p]] = listing[p][cur[p]]]]
    BY <1>1, <2>1, Zenon DEF WriteRow, AddFile, UpdateFile
  <2> QED
    BY <1>t, <1>3, <2>2, KeyFacts, Zenon DEF FilesTypeOK, Listings
<1>6. listing[p][cur[p]] # None
  BY <1>3, StoreAssumption, Zenon
<1>7. /\ \A n \in added'[p] : rows'[Dev][n] = None
      /\ \A n \in changed'[p] : rows'[Dev][n] # None
      /\ \A n \in removed'[p] : listing'[p][n] = None
      /\ \A n \in Names \ Left(p)' : rows'[Dev][n] = listing'[p][n]
  BY <1>1, <1>2, <1>4, <1>5, <1>t, Zenon DEF StoreOK, Applying, Left, PushTypeOK
<1> QED
  BY <1>1, <1>4, <1>7, Zenon DEF StoreOK, Applying, Building, Succeeded

\* Deleting a row that was left to delete makes it absent, as in the listing.
LEMMA RemoveRowStore ==
  ASSUME PushInv, NEW p \in Pushers, StoreOK(p), RemoveRow(p)
  PROVE  /\ StoreOK(p)'
         /\ \A n \in Names : rows'[Dev][n] = IF n = cur[p] THEN None ELSE rows[Dev][n]
<1>s. DOMAIN pc = Pushers /\ DOMAIN removed = Pushers
  BY LocalShapes, Zenon DEF Shapes
<1>t. FilesTypeOK /\ PushTypeOK /\ HandlerOK(p)
  BY Zenon DEF PushInv, PushTypeOK
<1>1. /\ pc[p] \in {"deleting", "rowdel"} /\ DeleteFile(Dev, cur[p]) /\ pc'[p] = "apply"
      /\ removed'[p] = removed[p] \ {cur[p]}
      /\ UNCHANGED <<listing, added, changed>>
  BY <1>s, Zenon DEF RemoveRow, Waiting
<1>2. cur[p] \in removed[p] /\ cur[p] \in Names
  BY <1>t, <1>1, Zenon DEF HandlerOK, PushTypeOK
<1>3. \A m \in Names : rows'[Dev][m] = IF m = cur[p] THEN None ELSE rows[Dev][m]
  BY <1>t, <1>1, <1>2, DeleteFileFacts, Zenon
<1>4. listing[p][cur[p]] = None
  BY <1>1, <1>2, Zenon DEF StoreOK, Applying
<1>5. added[p] \cup changed[p] \subseteq In(listing[p])
  BY <1>t, <1>1, Zenon DEF HandlerOK
<1>6. /\ \A n \in added'[p] : rows'[Dev][n] = None
      /\ \A n \in changed'[p] : rows'[Dev][n] # None
      /\ \A n \in removed'[p] : listing'[p][n] = None
      /\ \A n \in Names \ Left(p)' : rows'[Dev][n] = listing'[p][n]
  BY <1>1, <1>2, <1>3, <1>4, <1>5, <1>t, Zenon DEF StoreOK, Applying, Left, PushTypeOK, In
<1> QED
  BY <1>1, <1>3, <1>6, Zenon DEF StoreOK, Applying, Building, Succeeded

\* When nothing is left to write, the rows are the listing.
LEMMA NothingLeft ==
  ASSUME PushInv, NEW p \in Pushers, StoreOK(p), Applied(p)
  PROVE  rows[Dev] = listing[p]
<1>1. rows[Dev] \in Listings /\ listing[p] \in Listings
  BY KeyFacts, Zenon DEF PushInv, PushTypeOK, FilesTypeOK
<1>2. pc[p] = "apply" /\ Left(p) = {}
  BY Zenon DEF Applied, Left
<1>3. \A n \in Names : rows[Dev][n] = listing[p][n]
  BY <1>2, Zenon DEF StoreOK, Applying
<1> QED
  BY <1>1, <1>3 DEF Listings

\* The steps between two writes of rows, and from one file or footer to the next.
LEMMA HandlerMoves ==
  ASSUME PushInv, NEW p \in Pushers
  PROVE  /\ UpdateCache(p) \/ RemoveCache(p) =>
              /\ pc[p] = "apply" /\ pc'[p] \in {"setting", "deleting", "rowdel"}
              /\ UNCHANGED <<rows, listing, diffs, meta, added, changed, removed, stored,
                             notified>>
         /\ ContentUnreadable(p) \/ Fetch(p) \/ Fetched(p) \/ WriteLost(p) =>
              /\ pc[p] \in {"fetch", "fetching"} /\ pc'[p] \in {"fetch", "fetching"}
              /\ UNCHANGED <<rows, listing, diffs, meta, files, stored, notified>>
         /\ Package(p) \/ PutMetadata(p) =>
              /\ pc[p] \in {"fetch", "put"} /\ pc'[p] \in {"put", "footer"}
              /\ UNCHANGED <<rows, listing, diffs, meta, files, tmp, stored, notified>>
         /\ SetBundleFooter(p) \/ BundleFooterSet(p) =>
              /\ pc[p] \in {"footer", "storing"} /\ pc'[p] \in {"footer", "storing"}
              /\ UNCHANGED <<rows, listing, diffs, meta, files, tmp, built, django,
                             notified>>
         /\ Done(p) =>
              /\ pc[p] = "footer" /\ pc'[p] = "done" /\ result'[p] = "ok"
              /\ UNCHANGED <<rows, listing, diffs, meta, files, tmp, built, stored, django>>
<1>s. DOMAIN pc = Pushers /\ DOMAIN result = Pushers
  BY LocalShapes, Zenon DEF Shapes
<1>1. UpdateCache(p) \/ RemoveCache(p) =>
        /\ pc[p] = "apply" /\ pc'[p] \in {"setting", "deleting", "rowdel"}
        /\ UNCHANGED <<rows, listing, diffs, meta, added, changed, removed, stored,
                       notified>>
  BY <1>s, Zenon DEF UpdateCache, RemoveCache, Removing
<1>2. ContentUnreadable(p) \/ Fetch(p) \/ Fetched(p) \/ WriteLost(p) =>
        /\ pc[p] \in {"fetch", "fetching"} /\ pc'[p] \in {"fetch", "fetching"}
        /\ UNCHANGED <<rows, listing, diffs, meta, files, stored, notified>>
  BY <1>s, Zenon DEF ContentUnreadable, Fetch, Fetched, WriteLost, Waiting
<1>3. Package(p) \/ PutMetadata(p) =>
        /\ pc[p] \in {"fetch", "put"} /\ pc'[p] \in {"put", "footer"}
        /\ UNCHANGED <<rows, listing, diffs, meta, files, tmp, stored, notified>>
  BY <1>s, Zenon DEF Package, PutMetadata
<1>4. SetBundleFooter(p) \/ BundleFooterSet(p) =>
        /\ pc[p] \in {"footer", "storing"} /\ pc'[p] \in {"footer", "storing"}
        /\ UNCHANGED <<rows, listing, diffs, meta, files, tmp, built, django, notified>>
  BY <1>s, Zenon DEF SetBundleFooter, BundleFooterSet, Waiting
<1>5. Done(p) =>
        /\ pc[p] = "footer" /\ pc'[p] = "done" /\ result'[p] = "ok"
        /\ UNCHANGED <<rows, listing, diffs, meta, files, tmp, built, stored, django>>
  BY <1>s, Zenon DEF Done
<1> QED
  BY <1>1, <1>2, <1>3, <1>4, <1>5, Zenon

\* A handler that parses its Siphonfile goes on to compare, or fails.
LEMMA ParseMoves ==
  ASSUME PushInv, NEW p \in Pushers, FootersOK(p),
         LoadFromArchive(p) \/ LoadFromCache(p)
  PROVE  /\ pc[p] \in {"load", "metaget"}
         /\ Quits(p) \/ pc'[p] = "compare"
         /\ UNCHANGED <<rows, listing, diffs, stored, notified>>
<1>s. DOMAIN pc = Pushers /\ DOMAIN result = Pushers
  BY LocalShapes, Zenon DEF Shapes
<1>1. /\ pc[p] \in {"load", "metaget"}
      /\ UNCHANGED <<rows, listing, diffs, stored, notified>>
  BY Zenon DEF LoadFromArchive, LoadFromCache, Waiting
<1>2. p \notin notified
  BY <1>1, Zenon DEF FootersOK, SaidDone
<1>3. PICK c : ParseMetadata(p, c)
  BY Zenon DEF LoadFromArchive, LoadFromCache
<1>4. Goto(p, "compare") \/ Fail(p)
  BY <1>3, Zenon DEF ParseMetadata
<1> QED
  BY <1>1, <1>2, <1>4, <1>s, Zenon DEF Quits

\* A push finds nothing to do, or begins to build.
LEMMA BuildMoves ==
  ASSUME PushInv, NEW p \in Pushers, NoChanges(p) \/ FilesToTemp(p)
  PROVE  /\ Applied(p)
         /\ \/ NoChanges(p) /\ pc'[p] = "done" /\ result'[p] = "nochange"
            \/ FilesToTemp(p) /\ pc'[p] = "fetch"
         /\ UNCHANGED <<rows, listing, diffs, meta, stored, notified>>
<1>s. DOMAIN pc = Pushers /\ DOMAIN result = Pushers
  BY LocalShapes, Zenon DEF Shapes
<1> QED
  BY <1>s, Zenon DEF NoChanges, FilesToTemp

\* Every step of a handler that does not give up keeps the rows on their way to
\* the listing.
LEMMA HandlerStore ==
  ASSUME PushInv, ReadsComplete, NEW p \in Pushers, StoreOK(p), FootersOK(p),
         GetHashes(p) \/ Return(p) \/ Handler(p)
  PROVE  StoreOK(p)'
<1>q. Quits(p) => StoreOK(p)'
  BY QuitsCurrent, Zenon DEF CurrentOK
<1>1. CASE \/ GetHashes(p) \/ Return(p) \/ Decompress(p) \/ DecompressFails(p)
           \/ LoadHashFails(p) \/ LoadFails(p) \/ ArchiveUnreadable(p)
           \/ UpdateCacheFails(p) \/ UpdateRowFails(p) \/ RemoveHashMissing(p)
           \/ RemoveCacheFails(p) \/ RemoveRowFails(p) \/ FetchFails(p) \/ BadIcon(p)
           \/ PackageFails(p) \/ PutMetadataFails(p) \/ FooterUnreadable(p)
           \/ SetBundleFooterFails(p)
  BY <1>1, <1>q, HandlerQuits, Zenon
<1>2. CASE LoadFromArchive(p) \/ LoadFromCache(p)
  <2>1. Quits(p) \/ pc'[p] = "compare"
    BY <1>2, ParseMoves, Zenon
  <2> QED
    BY <1>q, <2>1, Zenon DEF StoreOK, Applying, Building, Succeeded
<1>3. CASE LoadHash(p)
  <2>1. pc'[p] = "metaget"
    BY <1>3, PushShapes, Zenon DEF LoadHash, Shapes
  <2> QED
    BY <2>1, Zenon DEF StoreOK, Applying, Building, Succeeded
<1>4. CASE Compare(p) \/ UpdateRow(p) \/ RemoveRow(p)
  BY <1>4, CompareStore, UpdateRowStore, RemoveRowStore, Zenon
<1>5. CASE UpdateCache(p) \/ RemoveCache(p)
  <2>1. /\ pc[p] = "apply" /\ pc'[p] \in {"setting", "deleting", "rowdel"}
        /\ UNCHANGED <<rows, listing, added, changed, removed>>
    BY <1>5, HandlerMoves, Zenon
  <2> QED
    BY <2>1, Zenon DEF StoreOK, Applying, Building, Succeeded, Left
<1>6. CASE NoChanges(p) \/ FilesToTemp(p)
  <2>1. pc'[p] \in {"done", "fetch"} /\ UNCHANGED <<rows, listing>> /\ Applied(p)
    BY <1>6, BuildMoves, Zenon
  <2> QED
    BY <2>1, NothingLeft, Zenon DEF StoreOK, Applying, Building, Succeeded
<1>7. CASE \/ ContentUnreadable(p) \/ Fetch(p) \/ Fetched(p) \/ WriteLost(p) \/ Package(p)
           \/ PutMetadata(p) \/ SetBundleFooter(p) \/ BundleFooterSet(p) \/ Done(p)
  <2>1. /\ pc[p] \in Building /\ pc'[p] \in Building \cup {"done"}
        /\ UNCHANGED <<rows, listing>>
    BY <1>7, HandlerMoves, Zenon DEF Building
  <2> QED
    BY <2>1, Zenon DEF StoreOK, Applying, Building, Succeeded
<1>8. CASE CacheCall(p)
  <2>1. UNCHANGED <<rows, pc, listing, added, changed, removed, result>>
    BY <1>8, CallMoves, Zenon
  <2> QED
    BY <2>1, Zenon DEF StoreOK, Left, Succeeded
<1> QED
  BY <1>1, <1>2, <1>3, <1>4, <1>5, <1>6, <1>7, <1>8, Zenon
     DEF Handler, LoadStep, ApplyStep, FooterStep

-----------------------------------------------------------------------------
(* The Siphonfile.                                                         *)

\* The Siphonfile that is got for its row is the one the row names.
LEMMA LoadedFromCache ==
  ASSUME PushInv, NEW p \in Pushers, MetaOK(p), LoadFromCache(p)
  PROVE  call[p].val = rows[Dev][Siphonfile]
<1>1. pc[p] = "metaget" /\ call[p].at = "ok"
  BY Zenon DEF LoadFromCache, Waiting
<1>2. HandlerOK(p) /\ CallOK(p)
  BY PushAssumption, Zenon DEF PushInv, CacheInv
<1>3. call[p].val \in Domain[FileKey(rows[Dev][Siphonfile])]
  BY <1>1, <1>2, Zenon DEF HandlerOK, CallOK, MetaOK
<1>4. rows[Dev][Siphonfile] \in Contents
  BY <1>1, KeyFacts, ListingFacts, StoreAssumption, Zenon
     DEF PushInv, PushTypeOK, FilesTypeOK, MetaOK, In
<1> QED
  BY <1>3, <1>4, KeyFacts, Zenon

\* Every step of a handler keeps the parsed Siphonfile that of the app.
LEMMA HandlerMeta ==
  ASSUME PushInv, NEW p \in Pushers, StoreOK(p), MetaOK(p), FootersOK(p),
         GetHashes(p) \/ Return(p) \/ Handler(p)
  PROVE  MetaOK(p)'
<1>q. Quits(p) => MetaOK(p)'
  BY QuitsCurrent, Zenon DEF CurrentOK
<1>s. DOMAIN pc = Pushers /\ DOMAIN meta = Pushers /\ DOMAIN result = Pushers /\ p \in Procs
  BY LocalShapes, Zenon DEF Shapes
<1>h. HandlerOK(p) /\ PushTypeOK
  BY Zenon DEF PushInv
<1>k. ASSUME pc[p] \in Loaded, pc'[p] # "metaget",
             UNCHANGED <<rows, listing, diffs, meta>>
      PROVE  MetaOK(p)'
  BY <1>k, Zenon DEF MetaOK
<1>1. CASE \/ GetHashes(p) \/ Return(p) \/ Decompress(p) \/ DecompressFails(p)
           \/ LoadHashFails(p) \/ LoadFails(p) \/ ArchiveUnreadable(p)
           \/ UpdateCacheFails(p) \/ UpdateRowFails(p) \/ RemoveHashMissing(p)
           \/ RemoveCacheFails(p) \/ RemoveRowFails(p) \/ FetchFails(p) \/ BadIcon(p)
           \/ PackageFails(p) \/ PutMetadataFails(p) \/ FooterUnreadable(p)
           \/ SetBundleFooterFails(p)
  BY <1>1, <1>q, HandlerQuits, Zenon
<1>2. CASE LoadFromArchive(p)
  <2>1. Quits(p) \/ pc'[p] = "compare"
    BY <1>2, ParseMoves, Zenon
  <2>2. ASSUME pc'[p] = "compare"
        PROVE  MetaOK(p)'
    <3>1. Siphonfile \in diffs[p] /\ meta' = [meta EXCEPT ![p] = listing[p][Siphonfile]]
      BY <1>2, <1>s, <2>2, Zenon DEF LoadFromArchive, ParseMetadata
    <3>2. UNCHANGED <<listing, diffs>>
      BY <1>2, ParseMoves, Zenon
    <3>3. meta'[p] = listing[p][Siphonfile]
      BY <1>s, <3>1, Zenon
    <3> QED
      BY <2>2, <3>1, <3>2, <3>3, Zenon DEF MetaOK
  <2> QED
    BY <1>q, <2>1, <2>2, Zenon
<1>3. CASE LoadFromCache(p)
  <2>1. Quits(p) \/ pc'[p] = "compare"
    BY <1>3, ParseMoves, Zenon
  <2>2. ASSUME pc'[p] = "compare"
        PROVE  MetaOK(p)'
    <3>1. meta' = [meta EXCEPT ![p] = call[p].val] /\ pc[p] = "metaget"
      BY <1>3, <1>s, <2>2, Zenon DEF LoadFromCache, ParseMetadata, Waiting
    <3>2. UNCHANGED <<rows, diffs>>
      BY <1>3, ParseMoves, Zenon
    <3>3. meta'[p] = rows[Dev][Siphonfile]
      BY <1>3, <1>s, <3>1, LoadedFromCache, Zenon
    <3>4. Siphonfile \notin diffs[p]
      BY <1>h, <3>1, Zenon DEF HandlerOK
    <3> QED
      BY <2>2, <3>2, <3>3, <3>4, Zenon DEF MetaOK
  <2> QED
    BY <1>q, <2>1, <2>2, Zenon
<1>4. CASE LoadHash(p)
  <2>1. pc'[p] = "metaget" /\ rows[Dev][Siphonfile] # None /\ rows' = rows
    BY <1>4, <1>s, Zenon DEF LoadHash
  <2>2. call'[p].key = FileKey(rows[Dev][Siphonfile])
    BY <1>4, PushShapes, Zenon DEF LoadHash, BeginGet, Begin, Shapes
  <2> QED
    BY <2>1, <2>2, Zenon DEF MetaOK, Loaded, SaidDone
<1>5. CASE Compare(p)
  <2>1. pc[p] = "compare" /\ pc'[p] # "metaget" /\ UNCHANGED <<rows, listing, diffs, meta>>
    BY <1>5, <1>s, Zenon DEF Compare
  <2> QED
    BY <1>k, <2>1, Zenon DEF Loaded
<1>6. CASE UpdateRow(p)
  <2>1. pc[p] = "setting" /\ pc'[p] = "apply" /\ UNCHANGED <<listing, diffs, meta>>
    BY <1>6, <1>s, Zenon DEF UpdateRow, Waiting
  <2>2. cur[p] \in diffs[p]
    BY <1>h, <2>1, Zenon DEF HandlerOK
  <2>3. \A n \in Names : n # cur[p] => rows'[Dev][n] = rows[Dev][n]
    BY <1>6, UpdateRowStore, Zenon
  <2> QED
    BY <2>1, <2>2, <2>3, StoreAssumption, Zenon DEF MetaOK, Loaded
<1>7. CASE RemoveRow(p)
  <2>1. /\ pc[p] \in {"deleting", "rowdel"} /\ pc'[p] = "apply"
        /\ UNCHANGED <<listing, diffs, meta>>
    BY <1>7, <1>s, Zenon DEF RemoveRow, Waiting
  <2>2. \A n \in Names : rows'[Dev][n] = IF n = cur[p] THEN None ELSE rows[Dev][n]
    BY <1>7, RemoveRowStore, Zenon
  <2> QED
    BY <2>1, <2>2, StoreAssumption, Zenon DEF MetaOK, Loaded
<1>8. CASE NoChanges(p) \/ FilesToTemp(p)
  <2>1. pc[p] = "apply" /\ pc'[p] \in {"done", "fetch"} /\ UNCHANGED <<rows, listing, diffs, meta>>
    BY <1>8, BuildMoves, Zenon DEF Applied
  <2> QED
    BY <1>k, <2>1, Zenon DEF Loaded
<1>9. CASE \/ UpdateCache(p) \/ RemoveCache(p)
           \/ ContentUnreadable(p) \/ Fetch(p) \/ Fetched(p) \/ WriteLost(p) \/ Package(p)
           \/ PutMetadata(p) \/ SetBundleFooter(p) \/ BundleFooterSet(p) \/ Done(p)
  <2>1. /\ pc[p] \in Loaded /\ pc'[p] # "metaget"
        /\ UNCHANGED <<rows, listing, diffs, meta>>
    BY <1>9, HandlerMoves, Zenon DEF Loaded
  <2> QED
    BY <1>k, <2>1, Zenon
<1>10. CASE CacheCall(p)
  <2>1. UNCHANGED <<rows, pc, listing, diffs, meta, result>>
    BY <1>10, CallMoves, Zenon
  <2>2. call'[p].key = call[p].key
    BY <1>10, <1>s, <1>h, CacheStepKeeps, Zenon DEF CacheCall, PushTypeOK
  <2> QED
    BY <2>1, <2>2, Zenon DEF MetaOK, SaidDone
<1> QED
  BY <1>1, <1>2, <1>3, <1>4, <1>5, <1>6, <1>7, <1>8, <1>9, <1>10, Zenon
     DEF Handler, LoadStep, ApplyStep, FooterStep

-----------------------------------------------------------------------------
(* The cache calls of a push.                                              *)

-----------------------------------------------------------------------------
(* The temporary directory.                                                *)

\* What a file of the app is got from the cache for is its content.
LEMMA FetchedContent ==
  ASSUME PushInv, NEW p \in Pushers, TempOK(p), Fetched(p)
  PROVE  cur[p] \in Names /\ call[p].val = listing[p][cur[p]]
<1>1. pc[p] = "fetching" /\ call[p].at = "ok"
  BY Zenon DEF Fetched, Waiting
<1>2. HandlerOK(p) /\ CallOK(p) /\ PushTypeOK
  BY PushAssumption, Zenon DEF PushInv, CacheInv
<1>3. call[p].op = "get" /\ cur[p] \in In(files[p])
  BY <1>1, <1>2, Zenon DEF HandlerOK
<1>4. cur[p] \in Names /\ files[p][cur[p]] \in Contents
  BY <1>2, <1>3, ListingFacts, Zenon DEF PushTypeOK
<1>5. call[p].val \in Domain[FileKey(files[p][cur[p]])]
  BY <1>1, <1>2, <1>3, Zenon DEF CallOK, TempOK
<1>6. Domain[FileKey(files[p][cur[p]])] = {files[p][cur[p]]}
  BY <1>4, KeyFacts, Zenon
<1>7. files[p] = listing[p]
  BY <1>1, Zenon DEF TempOK, Building
<1> QED
  BY <1>4, <1>5, <1>6, <1>7, Zenon

\* Every step of a handler keeps the directory on its way to the listing.
LEMMA HandlerTemp ==
  ASSUME PushInv, ReadsComplete, WritesComplete, NEW p \in Pushers,
         StoreOK(p), TempOK(p), FootersOK(p), GetHashes(p) \/ Return(p) \/ Handler(p)
  PROVE  TempOK(p)'
<1>q. Quits(p) => TempOK(p)'
  BY QuitsCurrent, Zenon DEF CurrentOK, WritesComplete
<1>s. DOMAIN pc = Pushers /\ DOMAIN result = Pushers /\ DOMAIN tmp = Pushers
      /\ DOMAIN fetch = Pushers /\ DOMAIN files = Pushers /\ DOMAIN call = Procs
      /\ p \in Procs
  BY LocalShapes, Zenon DEF Shapes
<1>h. HandlerOK(p) /\ PushTypeOK
  BY Zenon DEF PushInv
<1>e. ASSUME pc'[p] \notin Building, ~SaidDone(p)'
      PROVE  TempOK(p)'
  BY <1>e, Zenon DEF TempOK, Building
<1>1. CASE \/ GetHashes(p) \/ Return(p) \/ Decompress(p) \/ DecompressFails(p)
           \/ LoadHashFails(p) \/ LoadFails(p) \/ ArchiveUnreadable(p)
           \/ UpdateCacheFails(p) \/ UpdateRowFails(p) \/ RemoveHashMissing(p)
           \/ RemoveCacheFails(p) \/ RemoveRowFails(p) \/ FetchFails(p) \/ BadIcon(p)
           \/ PackageFails(p) \/ PutMetadataFails(p) \/ FooterUnreadable(p)
           \/ SetBundleFooterFails(p)
  BY <1>1, <1>q, HandlerQuits, Zenon
<1>2. CASE LoadFromArchive(p) \/ LoadFromCache(p)
  <2>1. Quits(p) \/ pc'[p] = "compare"
    BY <1>2, ParseMoves, Zenon
  <2> QED
    BY <1>q, <1>e, <2>1, Zenon DEF Building, SaidDone
<1>3. CASE LoadHash(p) \/ Compare(p) \/ UpdateRow(p) \/ RemoveRow(p)
  <2>1. \/ pc'[p] \in {"metaget", "apply"}
        \/ pc'[p] = "done" /\ result'[p] = "error"
    BY <1>3, <1>s, Zenon DEF LoadHash, Compare, UpdateRow, RemoveRow
  <2> QED
    BY <1>e, <2>1, Zenon DEF Building, SaidDone
<1>4. CASE UpdateCache(p) \/ RemoveCache(p)
  <2>1. pc'[p] \in {"setting", "deleting", "rowdel"}
    BY <1>4, HandlerMoves, Zenon
  <2> QED
    BY <1>e, <2>1, Zenon DEF Building, SaidDone
<1>5. CASE NoChanges(p)
  <2>1. pc'[p] = "done" /\ result'[p] = "nochange"
    BY <1>5, <1>s, Zenon DEF NoChanges
  <2> QED
    BY <1>e, <2>1, Zenon DEF Building, SaidDone
<1>6. CASE FilesToTemp(p)
  <2>1. rows[Dev] = listing[p]
    BY <1>6, NothingLeft, Zenon DEF FilesToTemp
  <2>2. PICK f \in Listings :
          /\ GetFiles(Dev, f)
          /\ files'[p] = f
          /\ fetch'[p] = In(f) \ diffs[p]
          /\ tmp'[p] = [n \in Names |-> IF n \in In(f) \cap diffs[p]
                                        THEN listing[p][n] ELSE None]
    BY <1>6, <1>s, Zenon DEF FilesToTemp
  <2>3. pc'[p] = "fetch" /\ listing' = listing
    BY <1>6, <1>s, Zenon DEF FilesToTemp
  <2>4. f = listing[p]
    BY <2>1, <2>2, Zenon DEF GetFiles, ReadsComplete
  <2>5. \A n \in Names \ fetch'[p] : tmp'[p][n] = listing[p][n]
    BY <2>2, <2>4, Zenon DEF In
  <2> QED
    BY <2>2, <2>3, <2>4, <2>5, Zenon DEF TempOK, SaidDone
<1>7. CASE ContentUnreadable(p) \/ WriteLost(p)
  BY <1>7, Zenon DEF ContentUnreadable, WriteLost, WritesComplete
<1>8. CASE Fetch(p)
  <2>1. /\ pc[p] = "fetch" /\ pc'[p] = "fetching"
        /\ UNCHANGED <<files, fetch, tmp, listing>>
    BY <1>8, <1>s, Zenon DEF Fetch
  <2>2. PICK n \in fetch[p] : /\ cur' = [cur EXCEPT ![p] = n]
                              /\ BeginGet(p, FileKey(files[p][n]))
    BY <1>8, Zenon DEF Fetch
  <2>3. cur'[p] = n /\ call'[p].key = FileKey(files[p][n])
    BY <1>s, <1>h, <2>2, Zenon DEF BeginGet, Begin, PushTypeOK
  <2> QED
    BY <2>1, <2>3, Zenon DEF TempOK, Building, SaidDone
<1>9. CASE Fetched(p)
  <2>1. /\ pc[p] = "fetching" /\ pc'[p] = "fetch"
        /\ tmp'[p] = [tmp[p] EXCEPT ![cur[p]] = call[p].val]
        /\ fetch'[p] = fetch[p] \ {cur[p]}
        /\ UNCHANGED <<files, listing>>
    BY <1>9, <1>s, Zenon DEF Fetched, Waiting
  <2>2. cur[p] \in Names /\ call[p].val = listing[p][cur[p]]
    BY <1>9, FetchedContent, Zenon
  <2>3. tmp[p] \in Listings
    BY <1>h, Zenon DEF PushTypeOK
  <2>4. \A n \in Names \ fetch'[p] : tmp'[p][n] = listing[p][n]
    BY <2>1, <2>2, <2>3, Zenon DEF TempOK, Listings
  <2> QED
    BY <2>1, <2>4, Zenon DEF TempOK, Building, SaidDone
<1>10. CASE Package(p)
  <2>1. /\ pc[p] = "fetch" /\ pc'[p] = "put" /\ fetch[p] = {}
        /\ UNCHANGED <<files, tmp, listing>>
    BY <1>10, <1>s, Zenon DEF Package
  <2>2. tmp[p] \in Listings /\ listing[p] \in Listings
    BY <1>h, Zenon DEF PushTypeOK
  <2>3. \A n \in Names : tmp[p][n] = listing[p][n]
    BY <2>1, Zenon DEF TempOK
  <2>4. tmp[p] = listing[p]
    BY <2>2, <2>3 DEF Listings
  <2> QED
    BY <2>1, <2>4, Zenon DEF TempOK, Building, SaidDone
<1>11. CASE PutMetadata(p) \/ SetBundleFooter(p) \/ BundleFooterSet(p) \/ Done(p)
  <2>1. /\ pc[p] \in {"put", "footer", "storing"} /\ pc'[p] \in {"footer", "storing", "done"}
        /\ UNCHANGED <<files, tmp, listing>>
    BY <1>11, <1>s, Zenon DEF PutMetadata, SetBundleFooter, BundleFooterSet, Done, Waiting
  <2> QED
    BY <2>1, Zenon DEF TempOK, Building
<1>12. CASE CacheCall(p)
  <2>1. UNCHANGED <<pc, listing, files, fetch, tmp, cur, result>>
    BY <1>12, CallMoves, Zenon
  <2>2. call'[p].key = call[p].key
    BY <1>12, <1>s, <1>h, CacheStepKeeps, Zenon DEF CacheCall, PushTypeOK
  <2> QED
    BY <2>1, <2>2, Zenon DEF TempOK, SaidDone
<1> QED
  BY <1>1, <1>2, <1>3, <1>4, <1>5, <1>6, <1>7, <1>8, <1>9, <1>10, <1>11, <1>12, Zenon
     DEF Handler, LoadStep, ApplyStep, FooterStep

-----------------------------------------------------------------------------
(* The footers.                                                            *)

\* The footers of two platforms are at different keys.
LEMMA FooterKeys ==
  \A i, j \in Platforms : FooterKey(i) = FooterKey(j) => i = j
  BY SMTT(30) DEF FooterKey, BundleFooterFile, Platforms, prefixed

\* The steps before the first footer is stored.
LEMMA FootersEarly ==
  ASSUME NEW p \in Pushers, FootersOK(p), UNCHANGED <<stored, notified>>,
         pc[p] \in Steps \ {"footer", "storing", "done"},
         pc'[p] \notin {"footer", "storing"}, ~SaidDone(p)'
  PROVE  FootersOK(p)'
<1>1. stored[p] = {} /\ p \notin notified
  BY Zenon DEF FootersOK, SaidDone
<1> QED
  BY <1>1, Zenon DEF FootersOK

\* A step of the Set of a footer.
LEMMA StoringFooters ==
  ASSUME PushInv, NoItems, NEW p \in Pushers, FootersOK(p), CacheCall(p), pc[p] = "storing"
  PROVE  FootersOK(p)'
<1>u. UNCHANGED <<pc, meta, files, tmp, built, stored, result, django, notified>>
  BY CallMoves, Zenon
<1>t. /\ CacheTypeOK /\ p \in Procs /\ CallOK(p)
      /\ stored[p] \subseteq Platforms /\ NextPlatform(p) \in Platforms
  BY PushAssumption, Zenon DEF PushInv, CacheInv, PushTypeOK, NextPlatform, Platforms
<1>c. /\ call[p].op = "set" /\ call[p].key = FooterKey(NextPlatform(p))
      /\ call[p].val = Footer(p, NextPlatform(p))
      /\ call[p].at \in {"mcset", "ok"} => s3[call[p].key] = call[p].val
      /\ django = Metadata(p) /\ p \notin notified
      /\ \A platform \in stored[p] :
           /\ s3[FooterKey(platform)] = Footer(p, platform)
           /\ mc[FooterKey(platform)] \in {Footer(p, platform), None}
  BY Zenon DEF FootersOK, SaidDone
<1>e. CacheStep(p)
  BY Zenon DEF CacheCall
<1>1. /\ call'[p].key = call[p].key /\ call'[p].val = call[p].val
      /\ call'[p].at \in {"mcset", "ok"} => s3'[call[p].key] = call[p].val
      /\ call'[p].at = "ok" => mc'[call[p].key] \in {call[p].val, None}
      /\ \A k \in Keys :
           /\ s3'[k] = s3[k] \/ (k = call[p].key /\ s3'[k] = call[p].val)
           /\ mc'[k] = mc[k] \/ (k = call[p].key /\ mc'[k] = call[p].val)
  BY <1>t, <1>c, <1>e, SetFacts, Zenon
<1>2. call'[p].op = call[p].op
  BY <1>t, <1>e, CacheStepKeeps, Zenon
<1>3. /\ Metadata(p)' = Metadata(p) /\ NextPlatform(p)' = NextPlatform(p)
      /\ \A platform : Footer(p, platform)' = Footer(p, platform)
  BY <1>u, Zenon DEF Metadata, NextPlatform, Footer
<1>4. ASSUME NEW platform \in stored[p]
      PROVE  /\ s3'[FooterKey(platform)] = Footer(p, platform)
             /\ mc'[FooterKey(platform)] \in {Footer(p, platform), None}
  <2>1. FooterKey(platform) \in Keys
    BY <1>t, KeyFacts, Zenon
  <2>2. FooterKey(platform) = call[p].key => call[p].val = Footer(p, platform)
    BY <1>t, <1>c, FooterKeys, Zenon
  <2> QED
    BY <1>c, <1>1, <2>1, <2>2, Zenon
<1>5. pc'[p] = "storing" /\ ~SaidDone(p)' /\ p \notin notified' /\ stored' = stored
  BY <1>u, <1>c, Zenon DEF SaidDone
<1>6. /\ django' = Metadata(p)'
      /\ \A platform \in stored'[p] :
            /\ s3'[FooterKey(platform)] = Footer(p, platform)'
            /\ mc'[FooterKey(platform)] \in {Footer(p, platform)', None}
  BY <1>c, <1>u, <1>3, <1>4, Zenon
<1>7. /\ call'[p].op = "set"
      /\ call'[p].key = FooterKey(NextPlatform(p)')
      /\ call'[p].val = Footer(p, NextPlatform(p))'
      /\ call'[p].at \in {"mcset", "ok"} => s3'[call'[p].key] = call'[p].val
      /\ call'[p].at = "ok" => mc'[call'[p].key] \in {call'[p].val, None}
  <2>1. Footer(p, NextPlatform(p))' = Footer(p, NextPlatform(p))
    BY <1>u, Zenon DEF Footer, NextPlatform
  <2> QED
    BY <1>c, <1>1, <1>2, <1>3, <2>1, Zenon
<1> QED
  BY <1>5, <1>6, <1>7, Zenon DEF FootersOK

\* Every step of a handler keeps the footers that were stored.
LEMMA HandlerFooters ==
  ASSUME PushInv, NoItems, NEW p \in Pushers, WaitsOK(p), FootersOK(p),
         GetHashes(p) \/ Return(p) \/ Handler(p)
  PROVE  FootersOK(p)'
<1>q. Quits(p) => FootersOK(p)'
  BY QuitsCurrent, Zenon DEF CurrentOK
<1>s. /\ DOMAIN pc = Pushers /\ DOMAIN result = Pushers /\ DOMAIN stored = Pushers
      /\ DOMAIN call = Procs /\ p \in Procs
  BY LocalShapes, Zenon DEF Shapes
<1>1. CASE \/ GetHashes(p) \/ Return(p) \/ Decompress(p) \/ DecompressFails(p)
           \/ LoadHashFails(p) \/ LoadFails(p) \/ ArchiveUnreadable(p)
           \/ UpdateCacheFails(p) \/ UpdateRowFails(p) \/ RemoveHashMissing(p)
           \/ RemoveCacheFails(p) \/ RemoveRowFails(p) \/ FetchFails(p) \/ BadIcon(p)
           \/ PackageFails(p) \/ PutMetadataFails(p) \/ FooterUnreadable(p)
           \/ SetBundleFooterFails(p)
  BY <1>1, <1>q, HandlerQuits, Zenon
<1>2. CASE LoadFromArchive(p) \/ LoadFromCache(p)
  <2>1. /\ pc[p] \in {"load", "metaget"} /\ (Quits(p) \/ pc'[p] = "compare")
        /\ UNCHANGED <<stored, notified>>
    BY <1>2, ParseMoves, Zenon
  <2> QED
    BY <1>q, <2>1, FootersEarly, Zenon DEF SaidDone, Steps
<1>3. CASE LoadHash(p) \/ Compare(p) \/ UpdateRow(p) \/ RemoveRow(p)
  <2>1. /\ pc[p] \in {"load", "compare", "setting", "deleting", "rowdel"}
        /\ \/ pc'[p] \in {"metaget", "apply"}
           \/ pc'[p] = "done" /\ result'[p] = "error"
        /\ UNCHANGED <<stored, notified>>
    BY <1>3, <1>s, Zenon DEF LoadHash, Compare, UpdateRow, RemoveRow, Waiting
  <2> QED
    BY <2>1, FootersEarly, Zenon DEF SaidDone, Steps
<1>4. CASE UpdateCache(p) \/ RemoveCache(p)
  <2>1. /\ pc[p] = "apply" /\ pc'[p] \in {"setting", "deleting", "rowdel"}
        /\ UNCHANGED <<stored, notified>>
    BY <1>4, HandlerMoves, Zenon
  <2> QED
    BY <2>1, FootersEarly, Zenon DEF SaidDone, Steps
<1>5. CASE NoChanges(p) \/ FilesToTemp(p)
  <2>1. /\ pc[p] = "apply"
        /\ pc'[p] = "fetch" \/ (pc'[p] = "done" /\ result'[p] = "nochange")
        /\ UNCHANGED <<stored, notified>>
    BY <1>5, BuildMoves, Zenon DEF Applied
  <2> QED
    BY <2>1, FootersEarly, Zenon DEF SaidDone, Steps
<1>6. CASE ContentUnreadable(p) \/ Fetch(p) \/ Fetched(p) \/ WriteLost(p)
  <2>1. /\ pc[p] \in {"fetch", "fetching"} /\ pc'[p] \in {"fetch", "fetching"}
        /\ UNCHANGED <<stored, notified>>
    BY <1>6, HandlerMoves, Zenon
  <2> QED
    BY <2>1, FootersEarly, Zenon DEF SaidDone, Steps
<1>7. CASE Package(p)
  <2>1. pc[p] = "fetch" /\ pc'[p] = "put" /\ UNCHANGED <<stored, notified>>
    BY <1>7, <1>s, Zenon DEF Package
  <2> QED
    BY <2>1, FootersEarly, Zenon DEF SaidDone, Steps
<1>8. CASE PutMetadata(p)
  <2>1. /\ pc[p] = "put" /\ pc'[p] = "footer" /\ django' = Metadata(p)
        /\ UNCHANGED <<meta, files, tmp, stored, notified>>
    BY <1>8, <1>s, Zenon DEF PutMetadata
  <2>2. stored'[p] = {} /\ p \notin notified'
    BY <2>1, Zenon DEF FootersOK, SaidDone, Steps
  <2>3. Metadata(p)' = Metadata(p)
    BY <2>1, Zenon DEF Metadata
  <2> QED
    BY <2>1, <2>2, <2>3, Zenon DEF FootersOK, SaidDone
<1>9. CASE SetBundleFooter(p)
  <2>1. /\ pc[p] = "footer" /\ pc'[p] = "storing"
        /\ BeginSet(p, FooterKey(NextPlatform(p)), Footer(p, NextPlatform(p)))
        /\ UNCHANGED <<s3, mc, meta, files, tmp, built, stored, django, notified>>
    BY <1>9, <1>s, Zenon DEF SetBundleFooter
  <2>2. /\ call'[p].op = "set" /\ call'[p].at = "s3put"
        /\ call'[p].key = FooterKey(NextPlatform(p))
        /\ call'[p].val = Footer(p, NextPlatform(p))
    BY <1>s, <2>1, Zenon DEF BeginSet, Begin
  <2>3. Footer(p, NextPlatform(p))' = Footer(p, NextPlatform(p))
    BY <2>1, Zenon DEF Footer, NextPlatform
  <2>4. /\ Metadata(p)' = Metadata(p) /\ NextPlatform(p)' = NextPlatform(p)
        /\ \A platform : Footer(p, platform)' = Footer(p, platform)
    BY <2>1, Zenon DEF Metadata, NextPlatform, Footer
  <2>5. /\ django = Metadata(p) /\ p \notin notified
        /\ \A platform \in stored[p] :
             /\ s3[FooterKey(platform)] = Footer(p, platform)
             /\ mc[FooterKey(platform)] \in {Footer(p, platform), None}
    BY <2>1, Zenon DEF FootersOK, SaidDone
  <2> QED
    BY <2>1, <2>2, <2>3, <2>4, <2>5, Zenon DEF FootersOK, SaidDone
<1>10. CASE BundleFooterSet(p)
  <2>1. /\ pc[p] = "storing" /\ pc'[p] = "footer" /\ call[p].at = "ok"
        /\ stored'[p] = stored[p] \cup {NextPlatform(p)}
        /\ UNCHANGED <<s3, mc, meta, files, tmp, built, django, notified>>
    BY <1>10, <1>s, Zenon DEF BundleFooterSet, Waiting
  <2>2. /\ django = Metadata(p) /\ p \notin notified
        /\ \A platform \in stored[p] \cup {NextPlatform(p)} :
             /\ s3[FooterKey(platform)] = Footer(p, platform)
             /\ mc[FooterKey(platform)] \in {Footer(p, platform), None}
    BY <2>1, Zenon DEF FootersOK, SaidDone
  <2>3. /\ Metadata(p)' = Metadata(p)
        /\ \A platform : Footer(p, platform)' = Footer(p, platform)
    BY <2>1, Zenon DEF Metadata, Footer
  <2> QED
    BY <2>1, <2>2, <2>3, Zenon DEF FootersOK, SaidDone
<1>11. CASE Done(p)
  <2>1. /\ pc[p] = "footer" /\ pc'[p] = "done" /\ result'[p] = "ok" /\ built[p] = stored[p]
        /\ UNCHANGED <<s3, mc, meta, files, tmp, built, stored, django>>
    BY <1>11, <1>s, Zenon DEF Done
  <2>2. /\ Metadata(p)' = Metadata(p)
        /\ \A platform : Footer(p, platform)' = Footer(p, platform)
    BY <2>1, Zenon DEF Metadata, Footer
  <2> QED
    BY <2>1, <2>2, Zenon DEF FootersOK, SaidDone
<1>12. CASE CacheCall(p)
  <2>1. UNCHANGED <<pc, stored, notified, result>>
    BY <1>12, CallMoves, Zenon
  <2>2. pc[p] \in Waits
    BY <1>12, NoStepWithoutCall, Zenon
  <2>3. CASE pc[p] = "storing"
    BY <1>12, <2>3, StoringFooters, Zenon
  <2>4. CASE pc[p] # "storing"
    BY <2>1, <2>2, <2>4, FootersEarly, Zenon DEF Waits, Steps, SaidDone
  <2> QED
    BY <2>3, <2>4, Zenon
<1> QED
  BY <1>1, <1>2, <1>3, <1>4, <1>5, <1>6, <1>7, <1>8, <1>9, <1>10, <1>11, <1>12, Zenon
     DEF Handler, LoadStep, ApplyStep, FooterStep

-----------------------------------------------------------------------------
(* What a push under way does to the app.                                  *)

\* The steps of a handler between the first and the last change no listing.
LEMMA HandlerListing ==
  ASSUME NEW p \in Pushers, Handler(p)
  PROVE  listing' = listing
<1>1. CASE LoadStep(p)
  BY <1>1, Zenon DEF LoadStep, Decompress, DecompressFails, LoadFromArchive, LoadHash,
     LoadHashFails, LoadFromCache, LoadFails, Compare
<1>2. CASE ApplyStep(p)
  <2>1. ASSUME \/ ArchiveUnreadable(p) \/ UpdateCache(p) \/ UpdateCacheFails(p)
               \/ UpdateRow(p) \/ UpdateRowFails(p) \/ RemoveCache(p)
        PROVE  listing' = listing
    BY <2>1, Zenon DEF ArchiveUnreadable, UpdateCache, UpdateCacheFails, UpdateRow,
       UpdateRowFails, RemoveCache
  <2>2. ASSUME ~(\/ ArchiveUnreadable(p) \/ UpdateCache(p) \/ UpdateCacheFails(p)
               \/ UpdateRow(p) \/ UpdateRowFails(p) \/ RemoveCache(p))
        PROVE  listing' = listing
    BY <1>2, <2>2, Zenon DEF ApplyStep, RemoveHashMissing, RemoveCacheFails, RemoveRow,
       RemoveRowFails
  <2> QED
    BY <2>1, <2>2, Zenon
<1>3. CASE FooterStep(p)
  BY <1>3, Zenon DEF FooterStep, NoChanges, FilesToTemp, ContentUnreadable, Fetch,
     Fetched, FetchFails, WriteLost,
     BadIcon, Package, PackageFails, PutMetadata, PutMetadataFails, FooterUnreadable,
     SetBundleFooter, BundleFooterSet, SetBundleFooterFails, Done
<1>4. CASE CacheCall(p)
  BY <1>4, CallMoves, Zenon
<1> QED
  BY <1>1, <1>2, <1>3, <1>4, Zenon DEF Handler

\* A handler that takes a step has begun, and has not ended.
LEMMA HandlerUnderWay ==
  ASSUME PushInv, NEW p \in Pushers, WaitsOK(p), Handler(p)
  PROVE  pc[p] \notin {"idle", "done"}
<1>1. CASE LoadStep(p)
  BY <1>1, Zenon DEF LoadStep, Decompress, DecompressFails, LoadFromArchive, LoadHash,
     LoadHashFails, LoadFromCache, LoadFails, Compare, Waiting, CallFailed
<1>2. CASE ApplyStep(p)
  BY <1>2, Zenon DEF ApplyStep, ArchiveUnreadable, UpdateCache, UpdateCacheFails,
     UpdateRow, UpdateRowFails, RemoveCache, RemoveHashMissing, RemoveCacheFails,
     RemoveRow, RemoveRowFails, Waiting, CallFailed, Removing
<1>3. CASE FooterStep(p)
  BY <1>3, Zenon DEF FooterStep, NoChanges, FilesToTemp, ContentUnreadable, Fetch,
     Fetched, FetchFails, WriteLost,
     BadIcon, Package, PackageFails, PutMetadata, PutMetadataFails, FooterUnreadable,
     SetBundleFooter, BundleFooterSet, SetBundleFooterFails, Done, Waiting, CallFailed, Applied
<1>4. CASE CacheCall(p)
  BY <1>4, NoStepWithoutCall, Zenon DEF Waits
<1> QED
  BY <1>1, <1>2, <1>3, <1>4, Zenon DEF Handler

\* Every row is left as it is, or made that of the listing.
RowsMix(p) == \A n \in Names : rows'[Dev][n] \in {rows[Dev][n], listing[p][n]}

\* This is all a step of a handler does to the rows.
LEMMA HandlerRows ==
  ASSUME PushInv, NEW p \in Pushers, WaitsOK(p), StoreOK(p), FootersOK(p), Handler(p)
  PROVE  RowsMix(p)
<1>u. rows' = rows => RowsMix(p)
  BY Zenon DEF RowsMix
<1>t. /\ FilesTypeOK /\ HandlerOK(p) /\ listing[p] \in Listings
      /\ added[p] \subseteq Names /\ changed[p] \subseteq Names
      /\ removed[p] \subseteq Names
  BY Zenon DEF PushInv, PushTypeOK
<1>1. CASE UpdateRow(p) \/ UpdateRowFails(p)
  <2>1. pc[p] = "setting" /\ (WriteRow(p) \/ rows' = rows)
    BY <1>1, Zenon DEF UpdateRow, UpdateRowFails, Waiting
  <2>2. cur[p] \in In(listing[p])
    BY <1>t, <2>1, Zenon DEF HandlerOK
  <2>3. cur[p] \in Names /\ listing[p][cur[p]] \in Contents
    BY <1>t, <2>2, ListingFacts, Zenon
  <2>4. CASE WriteRow(p)
    BY <1>t, <2>3, <2>4, UpdateFacts, Zenon DEF RowsMix
  <2> QED
    BY <1>u, <2>1, <2>4, Zenon
<1>2. CASE RemoveRow(p) \/ RemoveRowFails(p)
  <2>1. pc[p] \in {"deleting", "rowdel"} /\ (DeleteFile(Dev, cur[p]) \/ rows' = rows)
    BY <1>2, Zenon DEF RemoveRow, RemoveRowFails, Waiting
  <2>2. cur[p] \in removed[p]
    BY <1>t, <2>1, Zenon DEF HandlerOK
  <2>3. cur[p] \in Names /\ listing[p][cur[p]] = None
    BY <1>t, <2>1, <2>2, Zenon DEF StoreOK, Applying
  <2>4. CASE DeleteFile(Dev, cur[p])
    BY <1>t, <2>3, <2>4, DeleteFileFacts, Zenon DEF RowsMix
  <2> QED
    BY <1>u, <2>1, <2>4, Zenon
<1>3. CASE \/ LoadHash(p) \/ UpdateCache(p) \/ RemoveCache(p) \/ Fetch(p) \/ SetBundleFooter(p)
           \/ CacheCall(p)
  BY <1>3, <1>u, Zenon DEF LoadHash, UpdateCache, RemoveCache, Fetch, SetBundleFooter, CacheCall
<1>4. CASE \/ Decompress(p) \/ DecompressFails(p) \/ LoadFromArchive(p)
           \/ LoadHashFails(p) \/ LoadFromCache(p) \/ LoadFails(p) \/ Compare(p)
           \/ ArchiveUnreadable(p) \/ UpdateCacheFails(p) \/ RemoveHashMissing(p)
           \/ RemoveCacheFails(p) \/ NoChanges(p) \/ FilesToTemp(p)
           \/ ContentUnreadable(p) \/ Fetched(p) \/ FetchFails(p) \/ WriteLost(p)
           \/ BadIcon(p) \/ Package(p) \/ PackageFails(p) \/ PutMetadata(p)
           \/ PutMetadataFails(p) \/ FooterUnreadable(p) \/ BundleFooterSet(p)
           \/ SetBundleFooterFails(p) \/ Done(p)
  <2>1. Idles(p)
    BY <1>4, HandlerIdles, Zenon DEF WaitsOK
  <2> QED
    BY <1>u, <2>1, Zenon DEF Idles
<1> QED
  BY <1>1, <1>2, <1>3, <1>4, Zenon DEF Handler, LoadStep, ApplyStep, FooterStep

-----------------------------------------------------------------------------
(* The invariant, and the theorems.                                        *)

\* A step of a handler keeps all that it relies on.
LEMMA HandlerCurrent ==
  ASSUME PushInv, ReadsComplete, NoItems, NEW p \in Pushers, WaitsOK(p), CurrentOK(p),
         GetHashes(p) \/ Return(p) \/ Handler(p)
  PROVE  WaitsOK(p)' /\ CurrentOK(p)'
<1>1. StoreOK(p) /\ MetaOK(p) /\ FootersOK(p) /\ (WritesComplete => TempOK(p))
  BY Zenon DEF CurrentOK
<1>2. WaitsOK(p)'
  BY HandlerWaits, Zenon
<1>3. StoreOK(p)'
  BY <1>1, HandlerStore, Zenon
<1>4. MetaOK(p)'
  BY <1>1, HandlerMeta, Zenon
<1>5. FootersOK(p)'
  BY <1>1, HandlerFooters, Zenon
<1>6. WritesComplete => TempOK(p)'
  BY <1>1, HandlerTemp, Zenon
<1> QED
  BY <1>2, <1>3, <1>4, <1>5, <1>6, Zenon DEF CurrentOK, WritesComplete

\* So does the eviction of any items of memcached.
LEMMA EvictCurrent ==
  ASSUME NEW p \in Pushers, WaitsOK(p), CurrentOK(p), UNCHANGED <<s3, call, rows, pushVars>>,
         \A k \in Keys : mc'[k] \in {mc[k], None}, PushInv
  PROVE  WaitsOK(p)' /\ CurrentOK(p)'
<1>u. UNCHANGED <<s3, call, rows, pc, listing, diffs, meta, added, changed, removed, cur,
                  files, fetch, tmp, built, stored, result, django, notified>>
  BY Zenon DEF pushVars
<1>0. StoreOK(p) /\ MetaOK(p) /\ FootersOK(p) /\ (WritesComplete => TempOK(p))
  BY Zenon DEF CurrentOK
<1>1. WaitsOK(p)'
  BY <1>u, Zenon DEF WaitsOK
<1>2. StoreOK(p)'
  BY <1>0, <1>u, Zenon DEF StoreOK, Left, Succeeded
<1>3. MetaOK(p)'
  BY <1>0, <1>u, Zenon DEF MetaOK, SaidDone
<1>4. WritesComplete => TempOK(p)'
  BY <1>0, <1>u, Zenon DEF TempOK, SaidDone
<1>5. FootersOK(p)'
  <2>1. /\ Metadata(p)' = Metadata(p) /\ NextPlatform(p)' = NextPlatform(p)
        /\ Footer(p, NextPlatform(p))' = Footer(p, NextPlatform(p))
        /\ \A platform : Footer(p, platform)' = Footer(p, platform)
        /\ SaidDone(p)' = SaidDone(p)
    BY <1>u, Zenon DEF Metadata, NextPlatform, Footer, SaidDone
  <2>2. /\ stored[p] \subseteq Platforms /\ p \in Procs
        /\ CallOK(p)
    BY PushAssumption, Zenon DEF PushInv, CacheInv, PushTypeOK
  <2>3. \A platform \in stored[p] : FooterKey(platform) \in Keys
    BY <2>2, KeyFacts, Zenon
  <2>4. call[p].at = "ok" => call[p].key \in Keys
    BY <2>2, Zenon DEF CallOK
  <2>5. pc[p] \in {"footer", "storing"} \/ SaidDone(p) =>
          /\ django' = Metadata(p)'
          /\ \A platform \in stored'[p] :
                /\ s3'[FooterKey(platform)] = Footer(p, platform)'
                /\ mc'[FooterKey(platform)] \in {Footer(p, platform)', None}
    BY <1>0, <1>u, <2>1, <2>3, Zenon DEF FootersOK
  <2>6. pc[p] = "storing" =>
          /\ call'[p].op = "set"
          /\ call'[p].key = FooterKey(NextPlatform(p)')
          /\ call'[p].val = Footer(p, NextPlatform(p))'
          /\ call'[p].at \in {"mcset", "ok"} => s3'[call'[p].key] = call'[p].val
          /\ call'[p].at = "ok" => mc'[call'[p].key] \in {call'[p].val, None}
    BY <1>0, <1>u, <2>1, <2>4, Zenon DEF FootersOK
  <2> QED
    BY <1>0, <1>u, <2>1, <2>5, <2>6, Zenon DEF FootersOK
<1> QED
  BY <1>1, <1>2, <1>3, <1>4, <1>5, Zenon DEF CurrentOK, WritesComplete

\* A crash leaves every handler at its beginning.
LEMMA CrashCurrent ==
  ASSUME NEW p \in Pushers, Crash
  PROVE  WaitsOK(p)' /\ CurrentOK(p)'
<1>1. pc'[p] = "idle" /\ stored'[p] = {} /\ p \notin notified'
  BY Zenon DEF Crash, Reset
<1>2. call'[p] = NoCall
  BY PushAssumption, Zenon DEF Crash
<1>3. Quits(p)
  BY <1>1, Zenon DEF Quits
<1>4. WaitsOK(p)'
  BY <1>2 DEF WaitsOK, NoCall
<1>5. CurrentOK(p)'
  BY <1>3, QuitsCurrent, Zenon
<1> QED
  BY <1>4, <1>5, Zenon

\* The inductive invariant.
CurrentInv == NoItems /\ \A p \in Pushers : WaitsOK(p) /\ CurrentOK(p)

\* It holds before the first request.
LEMMA CurrentInitInv == PushInit => CurrentInv
<1> SUFFICES ASSUME PushInit
             PROVE  CurrentInv
  BY Zenon
<1>1. NoItems
  BY Zenon DEF PushInit, CacheInit, NoItems, NoCall
<1>2. ASSUME NEW p \in Pushers
      PROVE  WaitsOK(p) /\ CurrentOK(p)
  <2>1. pc[p] = "idle" /\ stored[p] = {} /\ p \notin notified /\ call[p].op = "none"
    BY PushAssumption, Zenon DEF PushInit, CacheInit, NoCall
  <2> QED
    BY <2>1, Zenon DEF WaitsOK, CurrentOK, StoreOK, MetaOK, TempOK, FootersOK, SaidDone,
       Succeeded,
                Applying, Building, Loaded
<1> QED
  BY <1>1, <1>2, Zenon DEF CurrentInv

\* Every step of a push that overlaps no other keeps it.
LEMMA CurrentNextInv ==
  ASSUME OnePusher, ReadsComplete
  PROVE  PushInv /\ CurrentInv /\ [PushNext]_allPushVars => CurrentInv'
<1> SUFFICES ASSUME PushInv, CurrentInv, [PushNext]_allPushVars
             PROVE  CurrentInv'
  BY Zenon
<1>0. NoItems /\ CacheTypeOK /\ \A p \in Pushers : p \in Procs /\ WaitsOK(p) /\ CurrentOK(p)
  BY PushAssumption, Zenon DEF CurrentInv, PushInv, CacheInv
<1>1. ASSUME NEW p \in Pushers, GetHashes(p) \/ Handler(p) \/ Return(p)
      PROVE  CurrentInv'
  <2>1. WaitsOK(p)' /\ CurrentOK(p)'
    BY <1>0, <1>1, HandlerCurrent, Zenon
  <2>2. MakesCall(p) \/ CacheStep(p)
    BY <1>1, HandlerCalls, Zenon DEF Handler, CacheCall
  <2>3. NoItems'
    BY <1>0, <2>2, NoItemsStep, Zenon
  <2> QED
    BY <2>1, <2>3, Zenon DEF CurrentInv, OnePusher
<1>2. CASE EvictItem \/ UNCHANGED allPushVars
  <2>1. UNCHANGED <<s3, call, rows, pushVars>>
    BY <1>2, Zenon DEF EvictItem, Evict, allPushVars
  <2>2. \A k \in Keys : mc'[k] \in {mc[k], None}
    BY <1>0, <1>2, Zenon DEF EvictItem, Evict, allPushVars, CacheTypeOK
  <2>3. NoItems'
    BY <1>0, <2>1, <2>2, Zenon DEF NoItems
  <2> QED
    BY <1>0, <2>1, <2>2, <2>3, EvictCurrent, Zenon DEF CurrentInv
<1>3. CASE Crash
  <2>1. mc' = mc /\ \A x \in Procs : call'[x] = NoCall
    BY <1>3, Zenon DEF Crash
  <2>2. NoItems'
    BY <1>0, <2>1 DEF NoItems, NoCall
  <2> QED
    BY <1>3, <2>2, CrashCurrent, Zenon DEF CurrentInv
<1> QED
  BY <1>1, <1>2, <1>3, Zenon DEF PushNext

\* One push at a time, with complete reads of the rows: a push that ends with
\* "Done." or "No changes detected." leaves the app with exactly the files it
\* listed, for any projects and whatever else fails before, crashes included.
THEOREM SerialStoresListing ==
  ASSUME OnePusher, ReadsComplete
  PROVE  PushSpec => []SuccessStoresListing
<1>1. CurrentInv => SuccessStoresListing
  BY Zenon DEF CurrentInv, CurrentOK, StoreOK, SuccessStoresListing
<1> QED
  BY <1>1, CurrentInitInv, CurrentNextInv, PushInvariant, PTL DEF PushSpec

\* What the handlers rely on is what "Done." and the notification promise.
LEMMA DoneCurrent ==
  ASSUME WritesComplete, \A p \in Pushers : CurrentOK(p)
  PROVE  DoneMeansCurrent
<1> SUFFICES ASSUME NEW p \in Pushers, SaidDone(p) \/ p \in notified
             PROVE  /\ \A platform \in built[p] : FooterCurrent(platform, meta[p])
                    /\ rows[Dev][Siphonfile] \in {meta[p], None}
                    /\ django = Metadata(p)
  BY Zenon DEF DoneMeansCurrent, SaidDone
<1>0. StoreOK(p) /\ MetaOK(p) /\ TempOK(p) /\ FootersOK(p)
  BY Zenon DEF CurrentOK
<1>1. SaidDone(p) /\ Succeeded(p)
  BY <1>0, Zenon DEF FootersOK, SaidDone, Succeeded
<1>2. rows[Dev] = listing[p] /\ tmp[p] = listing[p]
  BY <1>0, <1>1, Zenon DEF StoreOK, TempOK
<1>3. rows[Dev][Siphonfile] \in {meta[p], None}
  BY <1>0, <1>1, <1>2, Zenon DEF MetaOK
<1>4. ASSUME NEW platform \in built[p]
      PROVE  FooterCurrent(platform, meta[p])
  BY <1>0, <1>1, <1>2, Zenon DEF FootersOK, FooterCurrent, Footer
<1>5. django = Metadata(p)
  BY <1>0, <1>1, Zenon DEF FootersOK
<1> QED
  BY <1>3, <1>4, <1>5, Zenon

\* If moreover no write to the temporary directory is lost, "Done." and the
\* notification mean that S3 holds the footers of the app's rows and Siphonfile,
\* memcached no others, and Django the metadata of the same push.
THEOREM SerialDoneMeansCurrent ==
  ASSUME OnePusher, ReadsComplete, WritesComplete
  PROVE  PushSpec => []DoneMeansCurrent
<1>1. CurrentInv => DoneMeansCurrent
  BY DoneCurrent, Zenon DEF CurrentInv
<1> QED
  BY <1>1, CurrentInitInv, CurrentNextInv, PushInvariant, PTL DEF PushSpec
=============================================================================
