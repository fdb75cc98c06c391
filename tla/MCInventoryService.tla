------------------------- MODULE MCInventoryService -------------------------
(***************************************************************************)
(* One hotel with one room for TLC.                                       *)
(***************************************************************************)
EXTENDS InventoryService

CONSTANTS grand, single

MCHotelOf == [r \in Rooms |-> grand]
=============================================================================
