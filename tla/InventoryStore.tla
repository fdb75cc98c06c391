--------------------------- MODULE InventoryStore ---------------------------
(***************************************************************************)
(* The collections hotels and rooms that hotel-service and admin-service   *)
(* share, and the statements both send.  Nothing is removed: a document is *)
(* deleted by isActive = FALSE.  A room is named by its hotel and its room *)
(* number, which is what the unique index of the collection says.          *)
(***************************************************************************)
EXTENDS Naturals, FiniteSets

CONSTANTS
    Hotels,
    Rooms,
    HotelOf     \* [Rooms -> Hotels]

ASSUME InventoryAssumption == HotelOf \in [Rooms -> Hotels]

VARIABLES
    hotel,      \* [Hotels -> [state, name]]
    room,       \* [Rooms -> State]
    stray       \* history: rooms active in a hotel that was inactive when it happened

storeVars == <<hotel, room, stray>>

States == {"absent", "active", "inactive"}

StoreInit ==
    /\ hotel \in [Hotels -> [state : {"absent", "active"}, name : {"old"}]]
    /\ room \in {f \in [Rooms -> {"absent", "active"}] :
                    \A r \in Rooms : f[r] = "active" => hotel[HotelOf[r]].state = "active"}
    /\ stray = {}

HotelIs(h, s) == hotel[h].state = s

RoomIs(r, s) == room[r] = s

ActiveRooms(h) == {r \in Rooms : HotelOf[r] = h /\ RoomIs(r, "active")}

Bookable(r) == RoomIs(r, "active") /\ HotelIs(HotelOf[r], "active")

\* What GET /api/hotels answers when it asks the database.
Listing ==
    [hotels |-> {<<h, hotel[h].name>> : h \in {g \in Hotels : HotelIs(g, "active")}},
     rooms |-> {r \in Rooms : Bookable(r)}]

-----------------------------------------------------------------------------
SetHotel(h, s) == hotel' = [hotel EXCEPT ![h].state = s]

\* A hotel on show again: its rooms are where they belong.
ActivateHotel(h) ==
    /\ SetHotel(h, "active")
    /\ stray' = {r \in stray : HotelOf[r] # h}
    /\ UNCHANGED room

\* isActive = FALSE by a PATCH or a rejection: the rooms stay as they are.
HideHotel(h) ==
    /\ SetHotel(h, "inactive")
    /\ stray' = stray \cup ActiveRooms(h)
    /\ UNCHANGED room

\* isActive = FALSE by a deletion, whose next statement is DeactivateRooms.
MarkHotelDeleted(h) == SetHotel(h, "inactive") /\ UNCHANGED <<room, stray>>

RenameHotel(h) ==
    /\ hotel' = [hotel EXCEPT ![h].name = "new"]
    /\ UNCHANGED <<room, stray>>

DeactivateRooms(h) ==
    /\ room' = [r \in Rooms |-> IF r \in ActiveRooms(h) THEN "inactive" ELSE room[r]]
    /\ stray' = stray \ ActiveRooms(h)
    /\ UNCHANGED hotel

SetRoom(r, s) ==
    /\ room' = [room EXCEPT ![r] = s]
    /\ stray' = IF s = "active" /\ ~HotelIs(HotelOf[r], "active")
                THEN stray \cup {r} ELSE stray \ {r}
    /\ UNCHANGED hotel
=============================================================================
