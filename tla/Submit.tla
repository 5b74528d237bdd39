------------------------------- MODULE Submit -------------------------------
(***************************************************************************)
(* submit.go and MakeSnapshot of db.go: the /submit route, which copies    *)
(* the files, and then the rows, of an app to the namespace of a           *)
(* submission ID and builds a footer for it in between.                    *)
(*                                                                         *)
(* copyFiles, loadMetaData, makeBundleFooter and MakeSnapshot each read    *)
(* the rows of the app anew; a push may change them between two reads.     *)
(***************************************************************************)
EXTENDS Packager, Auth

CONSTANTS
  Submitters,        \* the clients that submit
  SubmitPlatforms    \* the platforms they submit for

VARIABLES
  \* Of each submitter w: its request, and the state of its handler.
  subAt,        \* where the handler is
  subID,        \* the submission ID
  subPlatform,  \* the platform, "ios" when the client names none
  list,         \* the rows the step in progress works on
  todo,         \* the names of list that are left
  item,         \* the name it is at
  base,         \* the Siphonfile that was parsed into h.metadata
  project,      \* the files in the packager's directory
  subDirs,      \* the temporary directories that exist
  outcome,      \* how the request ended
  \* Of the app:
  submitted     \* history: <<ID, platform>> of the snapshots that succeeded

subRequestVars == <<subID, subPlatform>>
loopVars == <<list, todo, item>>
submitVars == <<subAt, subRequestVars, loopVars, base, project, subDirs, outcome,
                submitted>>

SubGoto(w, l) == subAt' = [subAt EXCEPT ![w] = l]

\* The handler returns, leaving the directories in d behind.
SubFinish(w, o, d) ==
  /\ SubGoto(w, "done")
  /\ outcome' = [outcome EXCEPT ![w] = o]
  /\ subDirs' = [subDirs EXCEPT ![w] = d]

\* It returns where the code holds no directory.
SubAnswer(w, o) == SubFinish(w, o, subDirs[w])

\* Cleanup(d) of FilesToTemp and MakeBundleFootersTmp.
CleanupProject(w) == subDirs[w] \ {"project"}

\* Where the packager has returned, the copy of the project is gone and its own
\* directory is there.
Packaged(w) == CleanupProject(w) \cup {"footers"}

\* CleanupFooters(f) after a footer for the platform was found.
CleanupSnapshotFooters(w) == CleanupFooters({subPlatform[w]}, subDirs[w])

SubGot(w, l) == subAt[w] = l /\ call[w].at = "ok"

SubMissed(w, l) == subAt[w] = l /\ call[w].at = "err"

\* A loop over the rows of the app that GetFiles reads for it.
Loop(w, l) ==
  \E f \in Listings :
    /\ GetFiles(Dev, f)
    /\ list' = [list EXCEPT ![w] = f]
    /\ todo' = [todo EXCEPT ![w] = In(f)]
    /\ SubGoto(w, l)

-----------------------------------------------------------------------------
(* Submit: the checks before the handler.                                  *)

SubmitRequest(w) ==
  /\ subAt[w] = "idle"
  /\ \E h \in Handshakes : AuthMiddleware("submit", h)
  /\ \E s \in Subs : subID' = [subID EXCEPT ![w] = s]
  /\ \E platform \in SubmitPlatforms : subPlatform' = [subPlatform EXCEPT ![w] = platform]
  /\ subDirs' = [subDirs EXCEPT ![w] = {}]
  /\ SubGoto(w, "exists")
  /\ UNCHANGED <<cacheVars, rows, loopVars, base, project, outcome, submitted>>

\* A handshake AuthMiddleware refuses, or a request without a submission ID.
SubmitRefused(w) ==
  /\ subAt[w] = "idle"
  /\ SubFinish(w, "refused", {})
  /\ UNCHANGED <<cacheVars, rows, subRequestVars, loopVars, base, project, submitted>>

\* Mutated form of CheckSubmission: the rows are not looked at.
CheckNothing(w) ==
  /\ subAt[w] = "exists"
  /\ SubGoto(w, "app")
  /\ UNCHANGED <<cacheVars, rows, subRequestVars, loopVars, base, project, subDirs,
                 outcome, submitted>>

\* "Fail if this submission ID already exists in the database."
CheckSubmission(w) ==
  /\ subAt[w] = "exists"
  /\ \/ SubmissionExists(subID[w]) /\ SubAnswer(w, "exists")
     \/ /\ ~SubmissionExists(subID[w])
        /\ SubGoto(w, "app")
        /\ UNCHANGED <<subDirs, outcome>>
  /\ UNCHANGED <<cacheVars, rows, subRequestVars, loopVars, base, project, submitted>>

\* "Verify that the given app ID exists", then that the handshake is for this
\* submission.
CheckApp(w) ==
  /\ subAt[w] = "app"
  /\ \/ ~AppExists /\ SubAnswer(w, "noapp")
     \/ /\ AppExists
        /\ \E h \in Handshakes :
             /\ AuthMiddleware("submit", h)
             /\ \/ /\ h.submission = subID[w]
                   /\ SubGoto(w, "start")
                   /\ UNCHANGED <<subDirs, outcome>>
                \/ h.submission # subID[w] /\ SubAnswer(w, "refused")
  /\ UNCHANGED <<cacheVars, rows, subRequestVars, loopVars, base, project, submitted>>

-----------------------------------------------------------------------------
(* copyFiles and loadMetaData.                                             *)

copyFiles(w) ==
  /\ subAt[w] = "start"
  /\ Loop(w, "copy")
  /\ UNCHANGED <<s3, mc, call, rows, subRequestVars, item, base, project, subDirs,
                 outcome, submitted>>

CopyGet(w) ==
  /\ subAt[w] = "copy"
  /\ \E n \in todo[w] :
       /\ item' = [item EXCEPT ![w] = n]
       /\ BeginGet(w, FileKey(list[w][n]))
  /\ SubGoto(w, "copyget")
  /\ UNCHANGED <<s3, mc, faults, rows, subRequestVars, list, todo, base, project,
                 subDirs, outcome, submitted>>

CopySet(w) ==
  /\ SubGot(w, "copyget")
  /\ BeginSet(w, prefixed(subID[w], list[w][item[w]]), call[w].val)
  /\ SubGoto(w, "copyset")
  /\ UNCHANGED <<s3, mc, faults, rows, subRequestVars, loopVars, base, project, subDirs,
                 outcome, submitted>>

Copied(w) ==
  /\ SubGot(w, "copyset")
  /\ todo' = [todo EXCEPT ![w] = @ \ {item[w]}]
  /\ Hangup(w)
  /\ SubGoto(w, "copy")
  /\ UNCHANGED <<s3, mc, faults, rows, subRequestVars, list, item, base, project,
                 subDirs, outcome, submitted>>

\* Mutated form of loadMetaData: the copying stops with the Siphonfile.
LoadMetaDataEarly(w) ==
  /\ subAt[w] = "copy"
  /\ Siphonfile \notin todo[w]
  /\ rows[Dev][Siphonfile] # None
  /\ BeginGet(w, prefixed(subID[w], rows[Dev][Siphonfile]))
  /\ SubGoto(w, "meta")
  /\ UNCHANGED <<s3, mc, faults, rows, subRequestVars, loopVars, base, project, subDirs,
                 outcome, submitted>>

\* The hash is the one the app has now, the content the one copyFiles copied.
loadMetaData(w) ==
  /\ subAt[w] = "copy"
  /\ todo[w] = {}
  /\ rows[Dev][Siphonfile] # None
  /\ BeginGet(w, prefixed(subID[w], rows[Dev][Siphonfile]))
  /\ SubGoto(w, "meta")
  /\ UNCHANGED <<s3, mc, faults, rows, subRequestVars, loopVars, base, project, subDirs,
                 outcome, submitted>>

MetaDataLoaded(w) ==
  /\ SubGot(w, "meta")
  /\ call[w].val \notin BadMeta
  /\ base' = [base EXCEPT ![w] = call[w].val]
  /\ Hangup(w)
  /\ SubGoto(w, "build")
  /\ UNCHANGED <<s3, mc, faults, rows, subRequestVars, loopVars, project, subDirs,
                 outcome, submitted>>

-----------------------------------------------------------------------------
(* makeBundleFooter.                                                       *)

\* MakeBundleFootersTmp, "against the app files".
makeBundleFooter(w) ==
  /\ subAt[w] = "build"
  /\ Loop(w, "fetch")
  /\ subDirs' = [subDirs EXCEPT ![w] = @ \cup {"project"}]
  /\ UNCHANGED <<s3, mc, call, rows, subRequestVars, item, base, project, outcome,
                 submitted>>

\* FilesToTemp without an archive: all the files come from the cache.
FetchFile(w) ==
  /\ subAt[w] = "fetch"
  /\ \E n \in todo[w] :
       /\ item' = [item EXCEPT ![w] = n]
       /\ BeginGet(w, FileKey(list[w][n]))
  /\ SubGoto(w, "fetching")
  /\ UNCHANGED <<s3, mc, faults, rows, subRequestVars, list, todo, base, project,
                 subDirs, outcome, submitted>>

\* The error of WriteFile is dropped: the file may just not be there.
FileFetched(w) ==
  /\ SubGot(w, "fetching")
  /\ \/ project' = [project EXCEPT ![w] = [@ EXCEPT ![item[w]] = call[w].val]] /\ NoFault
     \/ UNCHANGED project /\ Fault("disk")
  /\ todo' = [todo EXCEPT ![w] = @ \ {item[w]}]
  /\ Hangup(w)
  /\ SubGoto(w, "fetch")
  /\ UNCHANGED <<s3, mc, rows, subRequestVars, list, item, base, subDirs, outcome,
                 submitted>>

FetchFileFails(w) ==
  /\ SubMissed(w, "fetching")
  /\ Hangup(w)
  /\ SubFinish(w, "error", CleanupProject(w))
  /\ UNCHANGED <<s3, mc, faults, rows, subRequestVars, loopVars, base, project,
                 submitted>>

\* The Android footer goes to the old-style key.
SnapshotFooterFile(platform) ==
  IF platform = "ios" THEN BundleFooterFile(platform) ELSE OldFooterFile

\* The packager runs, the copy of the project is removed, and the footer of the
\* platform is stored.
StoreFooter(w) ==
  /\ subAt[w] = "fetch"
  /\ todo[w] = {}
  /\ \E out \in PackagerOutputs : subPlatform[w] \in out
  /\ BeginSet(w, prefixed(subID[w], SnapshotFooterFile(subPlatform[w])),
              [platform |-> subPlatform[w], project |-> project[w], base |-> base[w]])
  /\ subDirs' = [subDirs EXCEPT ![w] = Packaged(w)]
  /\ SubGoto(w, "store")
  /\ UNCHANGED <<s3, mc, faults, rows, subRequestVars, loopVars, base, project, outcome,
                 submitted>>

\* The packager fails ...
BuildFails(w) ==
  /\ subAt[w] = "fetch"
  /\ todo[w] = {}
  /\ Fault("packager")
  /\ SubFinish(w, "error", CleanupProject(w))
  /\ UNCHANGED <<s3, mc, call, rows, subRequestVars, loopVars, base, project, submitted>>

\* ... or "Problem building footer for platform.", or its footer cannot be read.
NoSnapshotFooter(w) ==
  /\ subAt[w] = "fetch"
  /\ todo[w] = {}
  /\ \E out \in PackagerOutputs :
       /\ \/ subPlatform[w] \notin out /\ NoFault
          \/ subPlatform[w] \in out /\ Fault("disk")
       /\ SubFinish(w, "error", CleanupFooters(out, Packaged(w)))
  /\ UNCHANGED <<s3, mc, call, rows, subRequestVars, loopVars, base, project, submitted>>

\* Mutated form of StoreFails: the footers are not cleaned up.
StoreFailsLeaks(w) ==
  /\ SubMissed(w, "store")
  /\ Hangup(w)
  /\ SubAnswer(w, "error")
  /\ UNCHANGED <<s3, mc, faults, rows, subRequestVars, loopVars, base, project,
                 submitted>>

StoreFails(w) ==
  /\ SubMissed(w, "store")
  /\ Hangup(w)
  /\ SubFinish(w, "error", CleanupSnapshotFooters(w))
  /\ UNCHANGED <<s3, mc, faults, rows, subRequestVars, loopVars, base, project,
                 submitted>>

FooterStored(w) ==
  /\ SubGot(w, "store")
  /\ Hangup(w)
  /\ subDirs' = [subDirs EXCEPT ![w] = CleanupSnapshotFooters(w)]
  /\ SubGoto(w, "snapshot")
  /\ UNCHANGED <<s3, mc, faults, rows, subRequestVars, loopVars, base, project, outcome,
                 submitted>>

-----------------------------------------------------------------------------
(* MakeSnapshot: the rows of the app, once more, one INSERT each.          *)

MakeSnapshot(w) ==
  /\ subAt[w] = "snapshot"
  /\ Loop(w, "rows")
  /\ UNCHANGED <<s3, mc, call, rows, subRequestVars, item, base, project, subDirs,
                 outcome, submitted>>

AddRow(w) ==
  /\ subAt[w] = "rows"
  /\ \E n \in todo[w] :
       /\ AddFile(subID[w], n, list[w][n])
       /\ todo' = [todo EXCEPT ![w] = @ \ {n}]
  /\ UNCHANGED <<cacheVars, subAt, subRequestVars, list, item, base, project, subDirs,
                 outcome, submitted>>

\* The row is there already, or postgres fails, before or after it has carried
\* the INSERT out: the nil rows.Close() panics.
AddRowFails(w) ==
  /\ subAt[w] = "rows"
  /\ \E n \in todo[w] :
       \/ rows[subID[w]][n] # None /\ UNCHANGED rows /\ NoFault
       \/ UNCHANGED rows /\ Fault("dbwrite")
       \/ AddFile(subID[w], n, list[w][n]) /\ Fault("dbwrite")
  /\ SubAnswer(w, "aborted")
  /\ UNCHANGED <<s3, mc, call, subRequestVars, loopVars, base, project, submitted>>

\* A snapshot without a row is none: SubmissionExists does not see it.
SubmitDone(w) ==
  /\ subAt[w] = "rows"
  /\ todo[w] = {}
  /\ SubAnswer(w, "ok")
  /\ submitted' = IF SubmissionExists(subID[w])
                  THEN submitted \cup {<<subID[w], subPlatform[w]>>}
                  ELSE submitted
  /\ UNCHANGED <<cacheVars, rows, subRequestVars, loopVars, base, project>>

-----------------------------------------------------------------------------

\* "Internal error.": a copy or a SELECT fails, or there is no acceptable
\* Siphonfile.
SubmitFails(w) ==
  /\ \/ /\ \E l \in {"copyget", "copyset", "meta"} : SubMissed(w, l)
        /\ NoFault
     \/ SubGot(w, "meta") /\ call[w].val \in BadMeta /\ NoFault
     \/ subAt[w] = "copy" /\ todo[w] = {} /\ rows[Dev][Siphonfile] = None /\ NoFault
     \/ subAt[w] = "copy" /\ todo[w] = {} /\ Fault("dbread")
     \/ subAt[w] \in {"exists", "app", "start", "build", "snapshot"} /\ Fault("dbread")
  /\ Hangup(w)
  /\ SubAnswer(w, "error")
  /\ UNCHANGED <<s3, mc, rows, subRequestVars, loopVars, base, project, submitted>>

\* The state of the submitters in W is gone: their requests are over.
SubReset(W) ==
  LET Blank(f, v) == [w \in Submitters |-> IF w \in W THEN v ELSE f[w]]
  IN  /\ subAt' = Blank(subAt, "idle")
      /\ subID' = Blank(subID, None)
      /\ subPlatform' = Blank(subPlatform, "ios")
      /\ list' = Blank(list, NoFiles)
      /\ todo' = Blank(todo, {})
      /\ item' = Blank(item, None)
      /\ base' = Blank(base, None)
      /\ project' = Blank(project, NoFiles)
      /\ outcome' = Blank(outcome, "none")

\* The client has read the answer.
SubmitReturn(w) ==
  /\ subAt[w] = "done"
  /\ SubReset({w})
  /\ UNCHANGED <<cacheVars, rows, subDirs, submitted>>

\* A step of the goroutine that serves w, between its cache calls.
SubmitStep(w) ==
  \/ CheckSubmission(w) \/ CheckApp(w)
  \/ copyFiles(w) \/ CopyGet(w) \/ CopySet(w) \/ Copied(w)
  \/ loadMetaData(w) \/ MetaDataLoaded(w)
  \/ makeBundleFooter(w) \/ FetchFile(w) \/ FileFetched(w) \/ FetchFileFails(w)
  \/ StoreFooter(w) \/ BuildFails(w) \/ NoSnapshotFooter(w)
  \/ StoreFails(w) \/ FooterStored(w)
  \/ MakeSnapshot(w) \/ AddRow(w) \/ AddRowFails(w) \/ SubmitDone(w)
  \/ SubmitFails(w)

SubmitInit ==
  /\ subAt = [w \in Submitters |-> "idle"]
  /\ subID = [w \in Submitters |-> None]
  /\ subPlatform = [w \in Submitters |-> "ios"]
  /\ list = [w \in Submitters |-> NoFiles]
  /\ todo = [w \in Submitters |-> {}]
  /\ item = [w \in Submitters |-> None]
  /\ base = [w \in Submitters |-> None]
  /\ project = [w \in Submitters |-> NoFiles]
  /\ subDirs = [w \in Submitters |-> {}]
  /\ outcome = [w \in Submitters |-> "none"]
  /\ submitted = {}

-----------------------------------------------------------------------------

\* The types of the variables of a submission.
SubmitTypeOK ==
  /\ subAt \in [Submitters -> {"idle", "exists", "app", "start", "copy", "copyget",
                               "copyset", "meta", "build", "fetch", "fetching", "store",
                               "snapshot", "rows", "done"}]
  /\ subID \in [Submitters -> Subs \cup {None}]
  /\ subPlatform \in [Submitters -> AnyPlatform]
  /\ list \in [Submitters -> Listings]
  /\ todo \in [Submitters -> SUBSET Names]
  /\ item \in [Submitters -> Names \cup {None}]
  /\ base \in [Submitters -> Contents \cup {None}]
  /\ project \in [Submitters -> Listings]
  /\ subDirs \in [Submitters -> SUBSET {"project", "footers"}]
  /\ outcome \in [Submitters ->
                    {"none", "ok", "exists", "noapp", "refused", "error", "aborted"}]
  /\ submitted \subseteq Subs \X Platforms
=============================================================================
