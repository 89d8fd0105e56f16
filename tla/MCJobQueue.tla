----------------------------- MODULE MCJobQueue -----------------------------
(***************************************************************************)
(* Instances of JobQueue for TLC.                                          *)
(***************************************************************************)
EXTENDS JobQueue, TLC

CONSTANTS w1, w2, crawl

\* Two containers draining the same kinds while a deploy overlaps.
MCSameKinds == [w \in Workers |-> {crawl}]
=============================================================================
