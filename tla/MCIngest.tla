------------------------------ MODULE MCIngest ------------------------------
(* Values for model checking Ingest. *)
EXTENDS Ingest

CONSTANTS g1, g2

\* The feed repeats an item, as a feed polled twice does, and has one item
\* without a GUID.  A poll sees two items: it misses g1 once g2 is out, until the
\* item comes again.
Feed == <<g1, NoGuid, g2, g1>>
=============================================================================
