-------------------------------- MODULE Push --------------------------------
(***************************************************************************)
(* push.go, with the helpers it calls from utils.go, icon.go, metadata.go, *)
(* packager.go and notifications.go: the /push route.                      *)
(*                                                                         *)
(* A pusher is a client and the goroutine that serves it.  The client GETs *)
(* the hashes of the app, then POSTs an archive; pushHandler.handle brings *)
(* the rows, the files and the footers of the app up to date.  A step of a *)
(* handler is one database statement, one call to another service, or what *)
(* it does by itself between two of those; a call to the cache is a        *)
(* sequence of steps of its own (module Cache).  Nothing excludes two      *)
(* pushes of the same app from each other.                                 *)
(***************************************************************************)
EXTENDS Packager

CONSTANTS
  Pushers,          \* the clients that push
  Projects,         \* the listings of the projects they push
  IconNames,        \* names under publish/<platform>/icons
  Pngs              \* the contents png.DecodeConfig accepts

ASSUME PushAssumption ==
  /\ Pushers \subseteq Procs
  /\ Projects \subseteq Listings

VARIABLES
  \* Of each pusher p: the archive it pushes, and the state of its handler.
  pc,         \* where the handler is
  listing,    \* listing.json of the archive
  diffs,      \* the names of the files in diffs/
  meta,       \* the Siphonfile that was parsed into h.metadata
  metaDirty,  \* h.metadataDirty
  added, changed, removed,   \* what is left to do of Compare's answer
  cur,        \* the name the loop in progress is at
  dirty,      \* h.dirty
  files,      \* the rows the footers are built from
  fetch,      \* the names FilesToTemp still has to get from the cache
  tmp,        \* the files in the temporary directory
  built,      \* the platforms the packager returned a footer for
  stored,     \* those whose footer has been stored
  dirs,       \* the temporary directories that exist
  result,     \* how the request ended
  \* Of the app:
  django,     \* the metadata PUT last, or None
  notified,   \* the pushers whose app_updated message was posted
  doomed      \* history: the names whose file is being deleted from the cache

archiveVars == <<listing, diffs>>
metaVars == <<meta, metaDirty>>
todoVars == <<added, changed, removed>>
buildVars == <<files, fetch, tmp, built, stored>>
worldVars == <<django, notified>>
pushVars == <<pc, archiveVars, metaVars, todoVars, cur, dirty, buildVars, dirs,
              result, worldVars, doomed>>
allPushVars == <<cacheVars, rows, pushVars>>

-----------------------------------------------------------------------------
(* Helpers.                                                                *)

Goto(p, l) == pc' = [pc EXCEPT ![p] = l]

\* The handler returns, with the directories in d left behind by the code up
\* to here; the deferred archive.Close() removes the archive's.
Finish(p, res, d) ==
  /\ Goto(p, "done")
  /\ result' = [result EXCEPT ![p] = res]
  /\ dirs' = [dirs EXCEPT ![p] = d \ {"archive"}]

\* Mutated form of Cleanup: the call is missing.
CleanupForgotten(p) == dirs[p]

\* Cleanup(d), of the copy of the project FilesToTemp made.
Cleanup(p) == dirs[p] \ {"project"}

\* The handler returns where it holds no directory but the archive's.
Fail(p) == Finish(p, "error", dirs[p])

\* The nil rows.Close() after a failed statement panics; net/http recovers.
Panic(p) == Finish(p, "aborted", dirs[p])

\* Mutated form of protectHash: the other files are not looked at.
ProtectNothing(f, name, hash) == FALSE

\* protectHash: another name of the listing f has the same hash.
protectHash(f, name, hash) == \E n \in Names \ {name} : f[n] = hash

Waiting(p, l) == pc[p] = l /\ call[p].at = "ok"

CallFailed(p, l) == pc[p] = l /\ call[p].at = "err"

-----------------------------------------------------------------------------
(* The request.                                                            *)

\* GET /push, and the client's choice of what to send.  A client may also send
\* everything without asking (post_archive_with_listing of the tests).
GetHashes(p) ==
  /\ pc[p] = "idle"
  /\ \E l \in Projects, f \in Listings :
       /\ GetFiles(Dev, f) \/ (f = NoFiles /\ NoFault)
       /\ listing' = [listing EXCEPT ![p] = l]
       /\ diffs' = [diffs EXCEPT ![p] = ShouldPush(l, f)]
  /\ Goto(p, "post")
  /\ UNCHANGED <<s3, mc, call, rows, metaVars, todoVars, cur, dirty, buildVars,
                 dirs, result, worldVars, doomed>>

\* The archive is unzipped into a temporary directory.
Decompress(p) ==
  /\ pc[p] = "post"
  /\ Goto(p, "load")
  /\ dirs' = [dirs EXCEPT ![p] = {"archive"}]
  /\ UNCHANGED <<cacheVars, rows, archiveVars, metaVars, todoVars, cur, dirty,
                 buildVars, result, worldVars, doomed>>

\* The payload is no zip file or has an entry that is refused, or the disk is
\* full: what the client sends is enough, no fault is needed.
DecompressFails(p) ==
  /\ pc[p] = "post"
  /\ Finish(p, "error", {"archive"})
  /\ UNCHANGED <<cacheVars, rows, archiveVars, metaVars, todoVars, cur, dirty,
                 buildVars, worldVars, doomed>>

\* ParseMetadata of content c, and what handle does with its answer.
ParseMetadata(p, c) ==
  \/ /\ c \notin BadMeta
     /\ meta' = [meta EXCEPT ![p] = c]
     /\ Goto(p, "compare")
     /\ UNCHANGED <<result, dirs>>
  \/ /\ c \in BadMeta
     /\ Fail(p)
     /\ UNCHANGED meta

\* loadMetaData, of a Siphonfile that came in the archive.
LoadFromArchive(p) ==
  /\ pc[p] = "load"
  /\ Siphonfile \in diffs[p]
  /\ metaDirty' = [metaDirty EXCEPT ![p] = TRUE]
  /\ ParseMetadata(p, listing[p][Siphonfile])
  /\ UNCHANGED <<cacheVars, rows, archiveVars, todoVars, cur, dirty, buildVars,
                 worldVars, doomed>>

\* loadMetaData, of a Siphonfile that did not: GetFile finds its hash ...
LoadHash(p) ==
  /\ pc[p] = "load"
  /\ Siphonfile \notin diffs[p]
  /\ rows[Dev][Siphonfile] # None
  /\ BeginGet(p, FileKey(rows[Dev][Siphonfile]))
  /\ Goto(p, "metaget")
  /\ UNCHANGED <<s3, mc, faults, rows, archiveVars, metaVars, todoVars, cur, dirty,
                 buildVars, dirs, result, worldVars, doomed>>

\* ... or does not ...
LoadHashFails(p) ==
  /\ pc[p] = "load"
  /\ Siphonfile \notin diffs[p]
  /\ (rows[Dev][Siphonfile] = None /\ NoFault) \/ Fault("dbread")
  /\ Fail(p)
  /\ UNCHANGED <<s3, mc, call, rows, archiveVars, metaVars, todoVars, cur, dirty,
                 buildVars, worldVars, doomed>>

\* ... and the cache has its content ...
LoadFromCache(p) ==
  /\ Waiting(p, "metaget")
  /\ ParseMetadata(p, call[p].val)
  /\ Hangup(p)
  /\ UNCHANGED <<s3, mc, faults, rows, archiveVars, metaDirty, todoVars, cur, dirty,
                 buildVars, worldVars, doomed>>

\* ... or does not.
LoadFails(p) ==
  /\ CallFailed(p, "metaget")
  /\ Hangup(p)
  /\ Fail(p)
  /\ UNCHANGED <<s3, mc, faults, rows, archiveVars, metaVars, todoVars, cur, dirty,
                 buildVars, worldVars, doomed>>

\* handle ignores the error of the GetFiles before Compare.
Compare(p) ==
  /\ pc[p] = "compare"
  /\ \E f \in Listings :
       /\ GetFiles(Dev, f)
       /\ \/ /\ DiffsComplete(listing[p], f, diffs[p])
             /\ added' = [added EXCEPT ![p] = Added(listing[p], f)]
             /\ changed' = [changed EXCEPT ![p] = Changed(listing[p], f)]
             /\ removed' = [removed EXCEPT ![p] = Removed(listing[p], f)]
             /\ Goto(p, "apply")
             /\ UNCHANGED <<result, dirs>>
          \/ /\ ~DiffsComplete(listing[p], f, diffs[p])
             /\ Fail(p)
             /\ UNCHANGED todoVars
  /\ UNCHANGED <<s3, mc, call, rows, archiveVars, metaVars, cur, dirty, buildVars,
                 worldVars, doomed>>

-----------------------------------------------------------------------------
(* update(comp.added, true), then update(comp.changed, false): the content *)
(* goes to the cache, then the hash to the row.                            *)

Updates(p) == IF added[p] # {} THEN added[p] ELSE changed[p]

\* A file of the archive cannot be read: the Siphonfile or a file to update, in
\* whose place the client may have sent a directory, or the listing Compare
\* parses, which may be malformed or have a name or hash that is refused.
ArchiveUnreadable(p) ==
  /\ \/ pc[p] = "load" /\ Siphonfile \in diffs[p]
     \/ pc[p] = "compare"
     \/ pc[p] = "apply" /\ Updates(p) # {}
  /\ Fail(p)
  /\ UNCHANGED <<cacheVars, rows, archiveVars, metaVars, todoVars, cur, dirty,
                 buildVars, worldVars, doomed>>

\* Mutated form of UpdateCache: a changed file is stored under its old hash.
UpdateCacheOldHash(p) ==
  /\ pc[p] = "apply"
  /\ \E n \in Updates(p) :
       /\ cur' = [cur EXCEPT ![p] = n]
       /\ BeginSet(p, FileKey(IF n \in changed[p] THEN rows[Dev][n] ELSE listing[p][n]),
                   listing[p][n])
  /\ Goto(p, "setting")
  /\ UNCHANGED <<s3, mc, faults, rows, archiveVars, metaVars, todoVars, dirty,
                 buildVars, dirs, result, worldVars, doomed>>

UpdateCache(p) ==
  /\ pc[p] = "apply"
  /\ \E n \in Updates(p) :
       /\ cur' = [cur EXCEPT ![p] = n]
       /\ BeginSet(p, FileKey(listing[p][n]), listing[p][n])
  /\ Goto(p, "setting")
  /\ UNCHANGED <<s3, mc, faults, rows, archiveVars, metaVars, todoVars, dirty,
                 buildVars, dirs, result, worldVars, doomed>>

UpdateCacheFails(p) ==
  /\ CallFailed(p, "setting")
  /\ Hangup(p)
  /\ Fail(p)
  /\ UNCHANGED <<s3, mc, faults, rows, archiveVars, metaVars, todoVars, cur, dirty,
                 buildVars, worldVars, doomed>>

\* The row of cur: an INSERT for an addition, an UPDATE for a change.
WriteRow(p) ==
  LET n == cur[p]
  IN  IF n \in added[p]
      THEN AddFile(Dev, n, listing[p][n])
      ELSE UpdateFile(Dev, n, listing[p][n])

UpdateRow(p) ==
  /\ Waiting(p, "setting")
  /\ WriteRow(p)
  /\ Hangup(p)
  /\ added' = [added EXCEPT ![p] = @ \ {cur[p]}]
  /\ changed' = [changed EXCEPT ![p] = @ \ {cur[p]}]
  /\ dirty' = [dirty EXCEPT ![p] = TRUE]
  /\ doomed' = doomed \ {cur[p]}
  /\ Goto(p, "apply")
  /\ UNCHANGED <<s3, mc, faults, archiveVars, metaVars, removed, cur, buildVars, dirs,
                 result, worldVars>>

\* The INSERT meets a row another push has added, or postgres fails, before or
\* after it has carried the statement out.
UpdateRowFails(p) ==
  /\ Waiting(p, "setting")
  /\ \/ cur[p] \in added[p] /\ rows[Dev][cur[p]] # None /\ UNCHANGED <<rows, doomed>> /\ NoFault
     \/ Fault("dbwrite") /\ UNCHANGED <<rows, doomed>>
     \/ Fault("dbwrite") /\ WriteRow(p) /\ doomed' = doomed \ {cur[p]}
  /\ Hangup(p)
  /\ Panic(p)
  /\ UNCHANGED <<s3, mc, archiveVars, metaVars, todoVars, cur, dirty, buildVars,
                 worldVars>>

-----------------------------------------------------------------------------
(* remove(comp.removed): the content is deleted from the cache, unless     *)
(* another file has it too, then the row.                                  *)

Removing(p) ==
  pc[p] = "apply" /\ added[p] = {} /\ changed[p] = {} /\ removed[p] # {}

RemoveCache(p) ==
  /\ Removing(p)
  /\ \E n \in removed[p], f \in Listings :
       /\ GetFiles(Dev, f)
       /\ f[n] # None
       /\ cur' = [cur EXCEPT ![p] = n]
       /\ \/ /\ protectHash(f, n, f[n])
             /\ Goto(p, "rowdel")
             /\ UNCHANGED <<call, doomed>>
          \/ /\ ~protectHash(f, n, f[n])
             /\ BeginDelete(p, FileKey(f[n]))
             /\ doomed' = doomed \cup {n}
             /\ Goto(p, "deleting")
  /\ UNCHANGED <<s3, mc, rows, archiveVars, metaVars, todoVars, dirty, buildVars, dirs,
                 result, worldVars>>

\* No hash for file removal, which is also what an unread row looks like.
RemoveHashMissing(p) ==
  /\ Removing(p)
  /\ \E n \in removed[p], f \in Listings : GetFiles(Dev, f) /\ f[n] = None
  /\ Fail(p)
  /\ UNCHANGED <<s3, mc, call, rows, archiveVars, metaVars, todoVars, cur, dirty,
                 buildVars, worldVars, doomed>>

RemoveCacheFails(p) ==
  /\ CallFailed(p, "deleting")
  /\ Hangup(p)
  /\ Fail(p)
  /\ UNCHANGED <<s3, mc, faults, rows, archiveVars, metaVars, todoVars, cur, dirty,
                 buildVars, worldVars, doomed>>

RemoveRow(p) ==
  /\ Waiting(p, "deleting") \/ pc[p] = "rowdel"
  /\ DeleteFile(Dev, cur[p])
  /\ Hangup(p)
  /\ removed' = [removed EXCEPT ![p] = @ \ {cur[p]}]
  /\ dirty' = [dirty EXCEPT ![p] = TRUE]
  /\ doomed' = doomed \ {cur[p]}
  /\ Goto(p, "apply")
  /\ UNCHANGED <<s3, mc, faults, archiveVars, metaVars, added, changed, cur, buildVars,
                 dirs, result, worldVars>>

RemoveRowFails(p) ==
  /\ Waiting(p, "deleting") \/ pc[p] = "rowdel"
  /\ Fault("dbwrite")
  /\ \/ UNCHANGED <<rows, doomed>>
     \/ DeleteFile(Dev, cur[p]) /\ doomed' = doomed \ {cur[p]}
  /\ Hangup(p)
  /\ Panic(p)
  /\ UNCHANGED <<s3, mc, archiveVars, metaVars, todoVars, cur, dirty, buildVars,
                 worldVars>>

-----------------------------------------------------------------------------
(* The footers.                                                            *)

Applied(p) == pc[p] = "apply" /\ added[p] \cup changed[p] \cup removed[p] = {}

\* "No changes detected."
NoChanges(p) ==
  /\ Applied(p)
  /\ ~dirty[p] /\ ~metaDirty[p]
  /\ Finish(p, "nochange", dirs[p])
  /\ UNCHANGED <<cacheVars, rows, archiveVars, metaVars, todoVars, cur, dirty,
                 buildVars, worldVars, doomed>>

\* GetFiles, whose error is overwritten, and the part of FilesToTemp that takes
\* contents from the archive.
FilesToTemp(p) ==
  /\ Applied(p)
  /\ dirty[p] \/ metaDirty[p]
  /\ \E f \in Listings :
       /\ GetFiles(Dev, f)
       /\ files' = [files EXCEPT ![p] = f]
       /\ fetch' = [fetch EXCEPT ![p] = In(f) \ diffs[p]]
       /\ tmp' = [tmp EXCEPT ![p] =
                    [n \in Names |-> IF n \in In(f) \cap diffs[p]
                                     THEN listing[p][n] ELSE None]]
  /\ dirs' = [dirs EXCEPT ![p] = @ \cup {"project"}]
  /\ Goto(p, "fetch")
  /\ UNCHANGED <<s3, mc, call, rows, archiveVars, metaVars, todoVars, cur, dirty, built,
                 stored, result, worldVars, doomed>>

\* A file of the archive that cannot be read is taken from the cache instead.
ContentUnreadable(p) ==
  /\ pc[p] = "fetch"
  /\ Fault("disk")
  /\ \E n \in In(files[p]) \cap diffs[p] :
       /\ fetch' = [fetch EXCEPT ![p] = @ \cup {n}]
       /\ tmp' = [tmp EXCEPT ![p] = [@ EXCEPT ![n] = None]]
  /\ UNCHANGED <<s3, mc, call, rows, pc, archiveVars, metaVars, todoVars, cur, dirty,
                 files, built, stored, dirs, result, worldVars, doomed>>

\* The part of FilesToTemp that takes them from the cache.
Fetch(p) ==
  /\ pc[p] = "fetch"
  /\ \E n \in fetch[p] :
       /\ cur' = [cur EXCEPT ![p] = n]
       /\ BeginGet(p, FileKey(files[p][n]))
  /\ Goto(p, "fetching")
  /\ UNCHANGED <<s3, mc, faults, rows, archiveVars, metaVars, todoVars, dirty,
                 buildVars, dirs, result, worldVars, doomed>>

Fetched(p) ==
  /\ Waiting(p, "fetching")
  /\ tmp' = [tmp EXCEPT ![p] = [@ EXCEPT ![cur[p]] = call[p].val]]
  /\ fetch' = [fetch EXCEPT ![p] = @ \ {cur[p]}]
  /\ Hangup(p)
  /\ Goto(p, "fetch")
  /\ UNCHANGED <<s3, mc, faults, rows, archiveVars, metaVars, todoVars, cur, dirty,
                 files, built, stored, dirs, result, worldVars, doomed>>

FetchFails(p) ==
  /\ CallFailed(p, "fetching")
  /\ Hangup(p)
  /\ Finish(p, "error", Cleanup(p))
  /\ UNCHANGED <<s3, mc, faults, rows, archiveVars, metaVars, todoVars, cur, dirty,
                 buildVars, worldVars, doomed>>

\* FilesToTemp drops the error of WriteFile: the file is just not there.
WriteLost(p) ==
  /\ pc[p] = "fetch" /\ fetch[p] = {}
  /\ Fault("disk")
  /\ \E n \in In(tmp[p]) : tmp' = [tmp EXCEPT ![p] = [@ EXCEPT ![n] = None]]
  /\ UNCHANGED <<s3, mc, call, rows, pc, archiveVars, metaVars, todoVars, cur, dirty,
                 files, fetch, built, stored, dirs, result, worldVars, doomed>>

\* GetIcons reads every listed icon back and decodes it.
IconsOK(p) == \A n \in IconNames \cap In(files[p]) : tmp[p][n] \in Pngs

BadIcon(p) ==
  /\ pc[p] = "fetch" /\ fetch[p] = {}
  /\ ~IconsOK(p)
  /\ Finish(p, "error", Cleanup(p))
  /\ UNCHANGED <<cacheVars, rows, archiveVars, metaVars, todoVars, cur, dirty,
                 buildVars, worldVars, doomed>>

\* MakeBundleFooters: the packager makes a directory for its footers, of which
\* there may be none.
Package(p) ==
  /\ pc[p] = "fetch" /\ fetch[p] = {}
  /\ IconsOK(p)
  /\ \E out \in PackagerOutputs : built' = [built EXCEPT ![p] = out]
  /\ dirs' = [dirs EXCEPT ![p] = Cleanup(p) \cup {"footers"}]
  /\ Goto(p, "put")
  /\ UNCHANGED <<cacheVars, rows, archiveVars, metaVars, todoVars, cur, dirty, files,
                 fetch, tmp, stored, result, worldVars, doomed>>

PackageFails(p) ==
  /\ pc[p] = "fetch" /\ fetch[p] = {}
  /\ IconsOK(p)
  /\ Fault("packager")
  /\ Finish(p, "error", Cleanup(p))
  /\ UNCHANGED <<s3, mc, call, rows, archiveVars, metaVars, todoVars, cur, dirty,
                 buildVars, worldVars, doomed>>

\* What is PUT: the base version and the rest of the Siphonfile, and the icons.
Metadata(p) ==
  [siphonfile |-> meta[p],
   icons |-> {<<n, tmp[p][n]>> : n \in IconNames \cap In(files[p])}]

PutMetadata(p) ==
  /\ pc[p] = "put"
  /\ django' = Metadata(p)
  /\ Goto(p, "footer")
  /\ UNCHANGED <<cacheVars, rows, archiveVars, metaVars, todoVars, cur, dirty,
                 buildVars, dirs, result, notified, doomed>>

\* Django refuses, or carries the PUT out but the answer is lost.  The footers
\* are not cleaned up.
PutMetadataFails(p) ==
  /\ pc[p] = "put"
  /\ Fault("django")
  /\ django' \in {django, Metadata(p)}
  /\ Fail(p)
  /\ UNCHANGED <<s3, mc, call, rows, archiveVars, metaVars, todoVars, cur, dirty,
                 buildVars, notified, doomed>>

Footer(p, platform) ==
  [platform |-> platform, project |-> tmp[p], base |-> meta[p]]

\* The iOS footer is stored before the Android one.
NextPlatform(p) == IF "ios" \in built[p] \ stored[p] THEN "ios" ELSE "android"

SetBundleFooter(p) ==
  /\ pc[p] = "footer"
  /\ built[p] # stored[p]
  /\ BeginSet(p, FooterKey(NextPlatform(p)), Footer(p, NextPlatform(p)))
  /\ Goto(p, "storing")
  /\ UNCHANGED <<s3, mc, faults, rows, archiveVars, metaVars, todoVars, cur, dirty,
                 buildVars, dirs, result, worldVars, doomed>>

\* The file of a footer cannot be read.
FooterUnreadable(p) ==
  /\ pc[p] = "footer"
  /\ built[p] # stored[p]
  /\ Fault("disk")
  /\ Finish(p, "error", CleanupFooters(built[p], dirs[p]))
  /\ UNCHANGED <<s3, mc, call, rows, archiveVars, metaVars, todoVars, cur, dirty,
                 buildVars, worldVars, doomed>>

BundleFooterSet(p) ==
  /\ Waiting(p, "storing")
  /\ stored' = [stored EXCEPT ![p] = @ \cup {NextPlatform(p)}]
  /\ Hangup(p)
  /\ Goto(p, "footer")
  /\ UNCHANGED <<s3, mc, faults, rows, archiveVars, metaVars, todoVars, cur, dirty,
                 files, fetch, tmp, built, dirs, result, worldVars, doomed>>

\* Mutated form of SetBundleFooterFails: the error is ignored.
SetBundleFooterErrorLost(p) ==
  /\ CallFailed(p, "storing")
  /\ stored' = [stored EXCEPT ![p] = @ \cup {NextPlatform(p)}]
  /\ Hangup(p)
  /\ Goto(p, "footer")
  /\ UNCHANGED <<s3, mc, faults, rows, archiveVars, metaVars, todoVars, cur, dirty,
                 files, fetch, tmp, built, dirs, result, worldVars, doomed>>

SetBundleFooterFails(p) ==
  /\ CallFailed(p, "storing")
  /\ Hangup(p)
  /\ Finish(p, "error", CleanupFooters(built[p], dirs[p]))
  /\ UNCHANGED <<s3, mc, faults, rows, archiveVars, metaVars, todoVars, cur, dirty,
                 buildVars, worldVars, doomed>>

\* The app_updated message to RabbitMQ "fails silently".
PostAppUpdated(p) ==
  \/ notified' = notified \cup {p} /\ NoFault
  \/ UNCHANGED notified /\ Fault("rabbitmq")

\* "Done.", CleanupFooters and the notification.
Done(p) ==
  /\ pc[p] = "footer"
  /\ built[p] = stored[p]
  /\ Finish(p, "ok", CleanupFooters(built[p], dirs[p]))
  /\ PostAppUpdated(p)
  /\ UNCHANGED <<s3, mc, call, rows, archiveVars, metaVars, todoVars, cur, dirty,
                 buildVars, django, doomed>>

-----------------------------------------------------------------------------
(* The handlers together.                                                  *)

\* The state of the pushers in P is gone: their requests are over.
Reset(P) ==
  LET Blank(f, v) == [p \in Pushers |-> IF p \in P THEN v ELSE f[p]]
  IN  /\ pc' = Blank(pc, "idle")
      /\ listing' = Blank(listing, NoFiles)
      /\ diffs' = Blank(diffs, {})
      /\ meta' = Blank(meta, None)
      /\ metaDirty' = Blank(metaDirty, FALSE)
      /\ added' = Blank(added, {})
      /\ changed' = Blank(changed, {})
      /\ removed' = Blank(removed, {})
      /\ cur' = Blank(cur, None)
      /\ dirty' = Blank(dirty, FALSE)
      /\ files' = Blank(files, NoFiles)
      /\ fetch' = Blank(fetch, {})
      /\ tmp' = Blank(tmp, NoFiles)
      /\ built' = Blank(built, {})
      /\ stored' = Blank(stored, {})
      /\ result' = Blank(result, "none")
      /\ notified' = notified \ P

\* The client has read the answer.
Return(p) ==
  /\ pc[p] = "done"
  /\ Reset({p})
  /\ UNCHANGED <<cacheVars, rows, dirs, django, doomed>>

\* The bundler's container stops and is started again ("restart: always"): every
\* request is cut off where it is.
Crash ==
  /\ Fault("crash")
  /\ Reset(Pushers)
  /\ call' = [p \in Procs |-> NoCall]
  /\ UNCHANGED <<s3, mc, rows, dirs, django, doomed>>

\* A step of a cache call some push is waiting for.
CacheCall(p) == CacheStep(p) /\ UNCHANGED <<rows, pushVars>>

EvictItem == \E k \in Keys : Evict(k) /\ UNCHANGED <<rows, pushVars>>

LoadStep(p) ==
  \/ Decompress(p) \/ DecompressFails(p)
  \/ LoadFromArchive(p) \/ LoadHash(p) \/ LoadHashFails(p)
  \/ LoadFromCache(p) \/ LoadFails(p)
  \/ Compare(p)

ApplyStep(p) ==
  \/ ArchiveUnreadable(p)
  \/ UpdateCache(p) \/ UpdateCacheFails(p) \/ UpdateRow(p) \/ UpdateRowFails(p)
  \/ RemoveCache(p) \/ RemoveHashMissing(p) \/ RemoveCacheFails(p)
  \/ RemoveRow(p) \/ RemoveRowFails(p)

FooterStep(p) ==
  \/ NoChanges(p)
  \/ FilesToTemp(p) \/ ContentUnreadable(p)
  \/ Fetch(p) \/ Fetched(p) \/ FetchFails(p) \/ WriteLost(p)
  \/ BadIcon(p) \/ Package(p) \/ PackageFails(p)
  \/ PutMetadata(p) \/ PutMetadataFails(p)
  \/ SetBundleFooter(p) \/ FooterUnreadable(p)
  \/ BundleFooterSet(p) \/ SetBundleFooterFails(p)
  \/ Done(p)

\* A step of the goroutine that serves p.
Handler(p) == LoadStep(p) \/ ApplyStep(p) \/ FooterStep(p) \/ CacheCall(p)

PushInit ==
  /\ CacheInit
  /\ FilesInit
  /\ pc = [p \in Pushers |-> "idle"]
  /\ listing = [p \in Pushers |-> NoFiles]
  /\ diffs = [p \in Pushers |-> {}]
  /\ meta = [p \in Pushers |-> None]
  /\ metaDirty = [p \in Pushers |-> FALSE]
  /\ added = [p \in Pushers |-> {}]
  /\ changed = [p \in Pushers |-> {}]
  /\ removed = [p \in Pushers |-> {}]
  /\ cur = [p \in Pushers |-> None]
  /\ dirty = [p \in Pushers |-> FALSE]
  /\ files = [p \in Pushers |-> NoFiles]
  /\ fetch = [p \in Pushers |-> {}]
  /\ tmp = [p \in Pushers |-> NoFiles]
  /\ built = [p \in Pushers |-> {}]
  /\ stored = [p \in Pushers |-> {}]
  /\ dirs = [p \in Pushers |-> {}]
  /\ result = [p \in Pushers |-> "none"]
  /\ django = None
  /\ notified = {}
  /\ doomed = {}

PushNext ==
  \/ \E p \in Pushers : GetHashes(p) \/ Handler(p) \/ Return(p)
  \/ EvictItem
  \/ Crash

PushSpec == PushInit /\ [][PushNext]_allPushVars

\* A goroutine keeps running until its handler returns.
FairPushSpec == PushSpec /\ \A p \in Pushers : WF_allPushVars(Handler(p))

-----------------------------------------------------------------------------
(* Properties.                                                             *)

Steps ==
  {"idle", "post", "load", "metaget", "compare", "apply", "setting", "deleting",
   "rowdel", "fetch", "fetching", "put", "footer", "storing", "done"}

\* The types of the variables of a push.
PushTypeOK ==
  /\ CacheTypeOK
  /\ FilesTypeOK
  /\ pc \in [Pushers -> Steps]
  /\ listing \in [Pushers -> Listings]
  /\ diffs \in [Pushers -> SUBSET Names]
  /\ meta \in [Pushers -> Contents \cup {None}]
  /\ metaDirty \in [Pushers -> BOOLEAN]
  /\ added \in [Pushers -> SUBSET Names]
  /\ changed \in [Pushers -> SUBSET Names]
  /\ removed \in [Pushers -> SUBSET Names]
  /\ cur \in [Pushers -> Names \cup {None}]
  /\ dirty \in [Pushers -> BOOLEAN]
  /\ files \in [Pushers -> Listings]
  /\ fetch \in [Pushers -> SUBSET Names]
  /\ tmp \in [Pushers -> Listings]
  /\ built \in [Pushers -> SUBSET Platforms]
  /\ stored \in [Pushers -> SUBSET Platforms]
  /\ dirs \in [Pushers -> SUBSET {"archive", "project", "footers"}]
  /\ result \in [Pushers -> {"none", "ok", "nochange", "error", "aborted"}]
  /\ notified \subseteq Pushers
  /\ doomed \subseteq Names

Succeeded(p) == pc[p] = "done" /\ result[p] \in {"ok", "nochange"}

\* A file is written to S3 before its row, and deleted from S3 only when no
\* other row has its hash (protectHash; push.go:113): every row has its file in
\* S3, except the row of a file that is being removed, from the moment its
\* deletion from the cache starts until the row is deleted or rewritten.
RowsHaveBlobs ==
  \A n \in In(rows[Dev]) \ doomed : s3[FileKey(rows[Dev][n])] # None

\* A Siphonfile that breaks a rule the messages of ParseMetadata announce is
\* never stored, however pushes overlap and whatever fails: it is checked before
\* the first row is written.
StoredSiphonfileValid ==
  rows[Dev][Siphonfile] # None => WithinLimits(rows[Dev][Siphonfile])

\* A push that ends with "Done." or "No changes detected." leaves the app with
\* exactly the files of the archive's listing.
SuccessStoresListing ==
  \A p \in Pushers : Succeeded(p) => rows[Dev] = listing[p]

\* The footer of a platform is the one built from the app's rows and base.
FooterCurrent(platform, base) ==
  LET footer == [platform |-> platform, project |-> rows[Dev], base |-> base]
  IN  /\ s3[FooterKey(platform)] = footer
      /\ mc[FooterKey(platform)] \in {footer, None}

\* "Done." and the notification: every footer the packager returned was built
\* from exactly the rows the app now has and from its Siphonfile, it is what S3
\* holds, memcached holds nothing else, and Django has the same Siphonfile.
DoneMeansCurrent ==
  \A p \in Pushers :
    (pc[p] = "done" /\ result[p] = "ok") \/ p \in notified =>
      /\ \A platform \in built[p] : FooterCurrent(platform, meta[p])
      /\ rows[Dev][Siphonfile] \in {meta[p], None}
      /\ django = Metadata(p)

\* The temporary directories of a request (archive, project copy, footers) are
\* removed by the time it is answered, whichever way it ends: the Cleanup
\* calls of handle, and "clean up the footers if we encounter any errors"
\* (push.go:403).
NoTempLeak == \A p \in Pushers : pc[p] = "done" => dirs[p] = {}

\* dirty "signals that we need to generate a new bundle footer" (push.go:78): a
\* push that finds nothing to change finds the stored footers up to date.
UnchangedMeansCurrent ==
  \A p \in Pushers :
    pc[p] = "done" /\ result[p] = "nochange" =>
      \A platform \in Platforms : FooterCurrent(platform, meta[p])

\* Every push that is POSTed is answered, unless a crash cuts it off.
PushAnswered ==
  \A p \in Pushers : pc[p] = "post" ~> pc[p] \in {"done", "idle"}
=============================================================================
