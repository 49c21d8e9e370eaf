----------------------------- MODULE MCStorage -----------------------------
(* Values of the constants of Storage for model checking. *)
EXTENDS Storage

Extent(logi, phys, len) ==
  [logistart |-> logi, phystart |-> phys, length |-> len, accessed |-> FALSE]

\* Two extents that are not adjacent on the disk and end inside pages.
MCExtents == <<Extent(0, 5, 1), Extent(1, 10, 2)>>

MCDegrees == {<<1, 1>>, <<2, 1>>, <<2, 2>>}
============================================================================
