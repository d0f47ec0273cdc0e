------------------------------ MODULE PagePool ------------------------------
(* What the page allocator promises its callers, without lists, headers or  *)
(* merging: a set of free pages; an allocation takes a stretch of adjacent  *)
(* free pages, a release returns exactly the pages that were taken, and the *)
(* pool may give up only in the two situations GiveUp names.                *)
EXTENDS Integers

CONSTANTS TotalPages, Requests

Pages == 0 .. TotalPages - 1
Stretch(first, pages) == first .. first + pages - 1

VARIABLES
    free,     \* the pages nobody holds
    held,     \* the stretches callers hold: records [first, pages]
    stopped   \* the pool gave up and serves no more calls

vars == <<free, held, stopped>>

Init == free = Pages /\ held = {} /\ stopped = FALSE

Take(pages) ==
    /\ ~ stopped
    /\ \E first \in Pages :
          /\ Stretch(first, pages + 1) \subseteq free
          /\ free' = free \ Stretch(first, pages + 1)
          /\ held' = held \cup {[first |-> first, pages |-> pages + 1]}
    /\ UNCHANGED stopped

Return(block) ==
    /\ ~ stopped
    /\ free' = free \cup Stretch(block.first, block.pages)
    /\ held' = held \ {block}
    /\ UNCHANGED stopped

(* No stretch is long enough, or the free pages that end the memory are one *)
(* more than the request.                                                   *)
NoRoom(pages) ==
    \A first \in Pages : ~ (Stretch(first, pages + 1) \subseteq free)
OnePageTooMany(pages) ==
    Stretch(TotalPages - pages - 2, pages + 2) \subseteq free

GiveUp(pages) ==
    /\ ~ stopped
    /\ NoRoom(pages) \/ OnePageTooMany(pages)
    /\ stopped' = TRUE
    /\ held' = held
    /\ free' \in SUBSET free

Next ==
    \/ \E pages \in Requests : Take(pages) \/ GiveUp(pages)
    \/ \E block \in held : Return(block)

Spec == Init /\ [][Next]_vars
=============================================================================
