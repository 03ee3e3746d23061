-------------------------------- MODULE Heap --------------------------------
(***************************************************************************)
(* What allocate() and deallocate() promise their callers                  *)
(* (memory/thread_local_pool.h, memory_resource.h): storage at an aligned  *)
(* address, as long as usable_size() says and no shorter than the request, *)
(* that belongs to nobody else until it is given back.                     *)
(***************************************************************************)
EXTENDS Layout

CONSTANT Request  \* the requests callers make: records of a size and an align

VARIABLE regions  \* the storage in the callers' hands

Region == [ptr : Nat, len : Nat \ {0}, request : Request]

Init == regions = {}

Allocate ==
  \E region \in regions' \ regions :
    /\ regions' = regions \cup {region} /\ region \in Region
    /\ Multiple(region.ptr, region.request.align)
    /\ region.len >= region.request.size
    /\ \A other \in regions : Apart(region.ptr, region.len, other.ptr, other.len)

Free == \E region \in regions : regions' = regions \ {region}

Next == Allocate \/ Free

Spec == Init /\ [][Next]_regions

=============================================================================
