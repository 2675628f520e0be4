---------------------------- MODULE EntryOfTable ----------------------------
(***************************************************************************)
(* One entry of the connection table, seen as EntryLife sees it.           *)
(***************************************************************************)
EXTENDS ConnectionManager

CONSTANT entry              \* the id of the entry

ASSUME EntryAssumption == entry \in Ids

Place ==
    IF entry \in Installed THEN "table"
    ELSE IF entry \in Published THEN "out"
    ELSE "new"

Stage(t) ==
    IF ent[t] # entry THEN "none"
    ELSE IF pc[t] \in {"evict", "close", "swap"} THEN pc[t]
    ELSE IF pc[t] = "reload" THEN "done"
    ELSE "loaded"

L == INSTANCE EntryLife WITH
        place <- Place,
        hold <- [t \in Tasks |-> Stage(t)]

(* The table implements EntryLife for every entry: however lookups, scans, *)
(* fan-outs, evictions and takeovers of its slot interleave, an entry is   *)
(* installed once, found only while it is installed, leaves only by the    *)
(* hand of a task that has closed its sink, and does leave once a task has *)
(* begun to remove it.                                                     *)
TableKeepsEntries == L!FairSpec
=============================================================================
