------------------------------ MODULE MCMatching ------------------------------
(* Small instances of Matching for TLC. *)
EXTENDS Matching

CONSTANTS j1, j2, j3

ThreeJobs == <<j1, j2, j3>>
TwoJobs == <<j1, j2>>
===============================================================================
