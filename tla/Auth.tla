-------------------------------- MODULE Auth --------------------------------
(***************************************************************************)
(* auth.go: AuthMiddleware, which every route but /healthcheck goes        *)
(* through.  A handshake is signed by the web server; it names an action,  *)
(* an app, and either the user who develops the app or the submission a    *)
(* production request is about.                                            *)
(***************************************************************************)
EXTENDS Files

CONSTANT Handshakes   \* the handshakes requests come with

Actions == {"push", "pull", "submit"}

ASSUME AuthAssumption ==
  Handshakes \subseteq
    [signed : BOOLEAN,                  \* decryptToken and verifyToken accept it
     action : Actions \cup {None},
     user   : BOOLEAN,                  \* user_id is set
     submission : Subs \cup {None},     \* submission_id, None when it is not set
     app    : BOOLEAN]                  \* app_id is the one of the URL

\* The checks of AuthMiddleware; any that fails is answered with a 401.
AuthMiddleware(action, h) ==
  /\ h.signed
  /\ h.action = action
  /\ h.user = (h.submission = None)
  /\ h.app

\* Pull and Submit compare the submission ID they are given with the one the
\* middleware stored; Pull does without one, for the development files.
OwnNamespace(h, submissionID) == submissionID \in {Dev, h.submission}
=============================================================================
