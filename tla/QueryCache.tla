------------------------------ MODULE QueryCache ------------------------------
(***************************************************************************)
(* One entry of the web application's query cache.  The cache is TanStack  *)
(* Query's, outside src/; it is modelled from the calls the hooks of       *)
(* apps/web/src/features/*/api make and from the options of                *)
(* components/providers.tsx: an entry is fresh for thirty seconds, nothing *)
(* is read again because a window is focused.  What is read is abstracted  *)
(* to a version: the number of the newest write the answer shows.          *)
(***************************************************************************)
EXTENDS Integers

NoData == -1    \* nothing was ever read
Idle == -2      \* no read is under way
Going == -1     \* a read has left and was not served yet

(* An entry: the version it shows, the read under way (Idle, Going, or the *)
(* version the API answered with), whether it is stale, whether its last   *)
(* read failed.                                                            *)
Empty == [data |-> NoData, asked |-> Idle, stale |-> TRUE, failed |-> FALSE]

Fetching(e) == [e EXCEPT !.asked = Going]

(* A component that starts to read an entry makes it be read when it has   *)
(* nothing, or nothing fresh, to show.                                     *)
Mounted(e) ==
  IF e.asked = Idle /\ (e.data = NoData \/ e.stale) THEN Fetching(e) ELSE e

(* The last component that read it is gone: the read is aborted, because   *)
(* every query function passes its signal on.                              *)
Unmounted(e) == [e EXCEPT !.asked = Idle]

Answered(e) == [data |-> e.asked, asked |-> Idle, stale |-> FALSE, failed |-> FALSE]

ReadFailed(e) == [e EXCEPT !.asked = Idle, !.failed = TRUE]

(* setQueryData: a read under way goes on, and its answer will replace     *)
(* what is set here.                                                       *)
WithData(e, v) == [e EXCEPT !.data = v, !.stale = FALSE, !.failed = FALSE]

(* invalidateQueries.  A read under way is given up for a new one, unless  *)
(* it is the first read of the entry: that one is kept.                    *)
Invalidated(e, mounted) ==
  IF ~mounted THEN [e EXCEPT !.stale = TRUE]
  ELSE IF e.data = NoData /\ e.asked # Idle THEN e
  ELSE [Fetching(e) EXCEPT !.stale = TRUE]

Entries(versions) ==
  [data: versions \cup {NoData}, asked: versions \cup {Going, Idle},
   stale: BOOLEAN, failed: BOOLEAN]
===============================================================================
