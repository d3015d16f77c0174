----------------------------- MODULE MCAccounts -----------------------------
(***************************************************************************)
(* Model checking of Accounts, with one of three casts.  Sign-ups: two     *)
(* requests, over every choice of what they ask for, against a rename.     *)
(* Deletion: two requests for one did, against a login and the deletion of *)
(* that did, which can be repeated.  App passwords: the same with one of   *)
(* the requests, and no login.  (De)activation is in all of them.          *)
(***************************************************************************)
EXTENDS Accounts, TLC

VARIABLE cast

Same(r, q) == req[r].did = req[q].did /\ req[r].handle = req[q].handle /\ req[r].email = req[q].email

MCInit ==
  /\ Init
  /\ cast \in {"sign-ups", "deletion", "app passwords"}
  /\ cast # "sign-ups" => \A r, q \in Req : Same(r, q)

\* With app passwords one request runs, and they are made for its account.
MCNext ==
  /\ Next
  /\ cast = "sign-ups" => del' = del
  /\ cast # "sign-ups" => rename' = rename /\ \A d \in Did : del'[d] # "no" => \E r \in Req : req[r].did = d
  /\ cast # "deletion" => login' = login
  /\ IF cast = "app passwords"
     THEN /\ apps' # apps => \E r \in Req : account[req[r].did] # Absent /\ apps' \subseteq {req[r].did}
          /\ \A r, q \in Req : pc'[r] # "idle" /\ pc'[q] # "idle" => r = q
     ELSE apps' = apps
  /\ UNCHANGED cast

MCSpec == MCInit /\ [][MCNext]_<<vars, cast>>

Symmetry == Permutations(Req) \cup Permutations(Did) \cup Permutations(Handle)
              \cup Permutations(Email)
=============================================================================
