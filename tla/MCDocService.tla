---------------------------- MODULE MCDocService ----------------------------
(* DocService with two files of one name, and two threads.                 *)
EXTENDS DocService

CONSTANTS f1, f2, book, short, long

MCName == [x \in {f1, f2} |-> book]
MCZone == [x \in {short, long} |-> IF x = short THEN "inject" ELSE "index"]
=============================================================================
