------------------------------ MODULE Archive ------------------------------
(***************************************************************************)
(* archive.go: the archive a client pushes is a listing of all the files   *)
(* of its project (listing.json) and the contents of some of them          *)
(* (diffs/).  Compare says what has to change for the rows of the app to   *)
(* become the listing.                                                     *)
(***************************************************************************)
EXTENDS Files

\* Names the archive lists that have no row.
Added(listing, files) == {n \in In(listing) : files[n] = None}

\* Names whose row has another hash than the archive lists.
Changed(listing, files) ==
  {n \in In(listing) : files[n] # None /\ files[n] # listing[n]}

\* Mutated form of Removed: removals are overlooked.
RemovedIgnored(listing, files) == {}

\* Names with a row that the archive does not list.
Removed(listing, files) == In(files) \ In(listing)

\* Compare refuses an archive that lacks the content of a new or changed file.
DiffsComplete(listing, files, diffs) ==
  Added(listing, files) \cup Changed(listing, files) \subseteq diffs

\* should_push of the client (quoted in the tests): the files it sends are
\* those whose hash is not the one the server returned for that name.
ShouldPush(listing, serverHashes) ==
  {n \in In(listing) : serverHashes[n] # listing[n]}
=============================================================================
