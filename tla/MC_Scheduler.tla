---------------------------- MODULE MC_Scheduler ----------------------------
(* Scheduler for TLC.  The unit of memory is 64 MiB: 8 units are the default   *)
(* budget and what the caches may hold together (256 contexts, 128 previews,   *)
(* 64 scans, 64 rasters; the scans stay empty here, the rasters stand for      *)
(* both).  The build of a large workbook reserves 4; a resident counts as 1.   *)
EXTENDS Scheduler, TLC

CONSTANTS build, render, hash, resident

TheJobs == {build, render, hash}
TheHolders == TheJobs \cup {resident}
TheClasses == {"io", "render"}
TheSlots == [c \in TheClasses |-> 1]
TheRequest ==
    (build    :> [classes |-> ("io" :> 1 @@ "render" :> 0), bytes |-> 4]) @@
    (render   :> [classes |-> ("io" :> 1 @@ "render" :> 1), bytes |-> 0]) @@
    (hash     :> [classes |-> ("io" :> 0 @@ "render" :> 0), bytes |-> 0]) @@
    (resident :> [classes |-> ("io" :> 0 @@ "render" :> 0), bytes |-> 1])
TheCaches == {"previews", "scans", "contexts", "rasters"}
TheCacheSizes ==
    "previews" :> {0, 2} @@ "scans" :> {0} @@ "rasters" :> {0, 2} @@ "contexts" :> {0, 4}

=============================================================================
