------------------------------- MODULE JobCatalog -------------------------------
(*****************************************************************************)
(* What the job catalogue promises the rest of the backend, whichever search *)
(* runs fill it and however they overlap: a board's posting, known by its    *)
(* (source, external id), belongs to one job and stays there, and jobs are   *)
(* only ever added - one at a time, each with a posting nobody has yet.      *)
(*****************************************************************************)
EXTENDS Naturals

CONSTANT ListingKey \* (source, external id) pairs

VARIABLES
    home,  \* the job each known posting belongs to
    size   \* how many jobs there are; their ids are 1..size

catalogVars == <<home, size>>

Init ==
    /\ home = << >>
    /\ size = 0

\* A posting without an external id brings a job but no key.
AddAnonymousJob ==
    /\ size' = size + 1
    /\ home' = home

AddJob(k) ==
    /\ k \notin DOMAIN home
    /\ size' = size + 1
    /\ home' = [x \in DOMAIN home \union {k} |->
                  IF x = k THEN size + 1 ELSE home[x]]

AttachListing(k, job) ==
    /\ k \notin DOMAIN home
    /\ home' = [x \in DOMAIN home \union {k} |->
                  IF x = k THEN job ELSE home[x]]
    /\ size' = size

Next ==
    \/ AddAnonymousJob
    \/ \E k \in ListingKey : AddJob(k) \/ \E job \in 1..size : AttachListing(k, job)

Spec == Init /\ [][Next]_catalogVars
===============================================================================
