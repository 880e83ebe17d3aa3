----------------------------- MODULE MCFetcher -----------------------------
(* Fetcher with two hosts, one with two pages, and room for one client.    *)
EXTENDS Fetcher

CONSTANTS a, b, a1, a2, b1

MCHost == [u \in {a1, a2, b1} |-> IF u = b1 THEN b ELSE a]
=============================================================================
