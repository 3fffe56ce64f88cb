-------------------------- MODULE MCSharedPages ---------------------------
(* Two shards and three pages: one document is listed on a page of each    *)
(* shard, and the last page is empty.  Only the first runtime takes        *)
(* abandoned pages over.                                                   *)
EXTENDS SharedPages

CONSTANTS r1, r2, d1

MCListing == <<{d1}, {d1}, {}>>
MCAssigned == <<r1, r2, r1>>
MCTakeover == {r1}
============================================================================
