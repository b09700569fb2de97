--------------------------- MODULE MCFaviconFetch ---------------------------
(***************************************************************************)
(* FaviconFetch with more tasks and domains than permits.                  *)
(***************************************************************************)
EXTENDS FaviconFetch

CONSTANTS t1, t2, d1, d2
=============================================================================
