------------------------------- MODULE Files -------------------------------
(***************************************************************************)
(* db.go: the rows of the `files` table of one app, a name-to-hash listing *)
(* for the development files (submission_id empty, here Dev) and one for   *)
(* each submission.  A hash is identified with the content it is the hash  *)
(* of.  Every statement is committed by itself.                            *)
(***************************************************************************)
EXTENDS Common

CONSTANTS
  Names,      \* file names
  Contents,   \* file contents, each standing for its SHA-256 too
  Dev,        \* the empty submission_id
  Subs        \* submission IDs

Namespaces == {Dev} \cup Subs

ASSUME FilesAssumption == Dev \notin Subs

VARIABLE rows   \* rows[ns][n]: the hash in the row of name n, None without row

\* A map from names to hashes: a Go map, with None where a name is absent.
Listings == [Names -> Contents \cup {None}]

ASSUME ListingsAssumption == None \notin Listings

NoFiles == [n \in Names |-> None]

In(f) == {n \in Names : f[n] # None}

\* The outcomes of GetFiles where its caller ignores the error: all the rows
\* or, when postgres fails, those read before it did.  GetFilteredFiles never
\* asks rows.Err(), so rows lost half-way are no error at all.
GetFiles(ns, f) ==
  \/ f = rows[ns] /\ NoFault
  \/ /\ \A n \in Names : f[n] \in {rows[ns][n], None}
     /\ Fault("dbread")

\* The part of a listing whose names match one of the patterns like.
Matching(f, like) == [n \in Names |-> IF n \in like THEN f[n] ELSE None]

\* GetSliceFilteredFiles: like GetFiles, for the names that match.
GetSliceFilteredFiles(ns, like, f) ==
  \/ f = Matching(rows[ns], like) /\ NoFault
  \/ /\ \A n \in Names : f[n] \in {Matching(rows[ns], like)[n], None}
     /\ Fault("dbread")

\* SubmissionExists: one or more rows have the submission ID s.
SubmissionExists(s) == rows[s] # NoFiles

\* AppExists does not look at the submission ID: any row of the app will do.
AppExists == \E ns \in Namespaces : rows[ns] # NoFiles

\* The unique indexes of CreateTables reject a second row of the same name.
AddFile(ns, n, c) ==
  /\ rows[ns][n] = None
  /\ rows' = [rows EXCEPT ![ns] = [@ EXCEPT ![n] = c]]

\* An UPDATE that finds no row changes nothing and is no error.
UpdateFile(ns, n, c) ==
  rows' = IF rows[ns][n] = None
          THEN rows
          ELSE [rows EXCEPT ![ns] = [@ EXCEPT ![n] = c]]

DeleteFile(ns, n) == rows' = [rows EXCEPT ![ns] = [@ EXCEPT ![n] = None]]

FilesInit == rows = [ns \in Namespaces |-> NoFiles]

FilesTypeOK == rows \in [Namespaces -> Listings]
=============================================================================
