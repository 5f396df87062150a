---------------------------- MODULE MCMeasurement ----------------------------
(***************************************************************************)
(* A small instance of Measurement: the ledger's memory and another one,   *)
(* three buckets of two pages, requests within a bucket, of a bucket and   *)
(* past the capacity.                                                      *)
(***************************************************************************)
EXTENDS Measurement

CONSTANTS x, y

MCId == {x, y}

MCBucketSizes == {2}

MCRequests == {0, 1, 3, 6}
=============================================================================
