------------------------------ MODULE AppStore ------------------------------
(***************************************************************************)
(* What the bundler promises the clients of one app, as if every request   *)
(* took effect at once: a push that succeeds makes the app exactly the     *)
(* project that was pushed, one that fails leaves every file as it was or  *)
(* as it was pushed, a submission freezes the app as it is, and a pull     *)
(* shows one version of the app or of a submission.                        *)
(***************************************************************************)
CONSTANTS
  Names,      \* file names
  Projects,   \* the projects that are pushed
  Listings,   \* functions from names to contents, or to None
  Assets(_),  \* the part of a listing a pull delivers
  Subs,       \* submission IDs
  Clients,    \* the clients that pull
  Dev, None

VARIABLES
  app,      \* the listing of the app
  reply,    \* the last push: <<"ok" or "failed", what was pushed>>, or None
  frozen,   \* frozen[s]: the listing of submission s, or None
  seen      \* seen[q]: what client q was shown, <<Dev or ID, assets>>, or None

Init ==
  /\ app = [n \in Names |-> None]
  /\ reply = None
  /\ frozen = [s \in Subs |-> None]
  /\ seen = [q \in Clients |-> None]

Push ==
  /\ app' \in Projects
  /\ reply' = <<"ok", app'>>
  /\ UNCHANGED <<frozen, seen>>

\* A push that is cut off by a crash is told nothing.
FailedPush ==
  /\ \E l \in Projects :
       /\ app' \in {f \in Listings : \A n \in Names : f[n] \in {app[n], l[n]}}
       /\ reply' \in {<<"failed", l>>, None}
  /\ UNCHANGED <<frozen, seen>>

Submit(s) ==
  /\ frozen[s] = None
  /\ frozen' = [frozen EXCEPT ![s] = app]
  /\ UNCHANGED <<app, reply, seen>>

Pull(q) ==
  /\ \/ seen' = [seen EXCEPT ![q] = <<Dev, Assets(app)>>]
     \/ \E s \in Subs :
          /\ frozen[s] # None
          /\ seen' = [seen EXCEPT ![q] = <<s, Assets(frozen[s])>>]
  /\ UNCHANGED <<app, reply, frozen>>

\* The clients that have been answered go on.
Forget ==
  /\ reply' \in {reply, None}
  /\ \A q \in Clients : seen'[q] \in {seen[q], None}
  /\ seen' \in [Clients -> {seen[q] : q \in Clients} \cup {None}]
  /\ UNCHANGED <<app, frozen>>

Next ==
  \/ Push \/ FailedPush \/ Forget
  \/ \E s \in Subs : Submit(s)
  \/ \E q \in Clients : Pull(q)

Spec == Init /\ [][Next]_<<app, reply, frozen, seen>>
=============================================================================
