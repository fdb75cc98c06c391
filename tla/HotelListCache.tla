--------------------------- MODULE HotelListCache ---------------------------
(***************************************************************************)
(* The public hotel list and its cache in Redis (listPublicHotels and      *)
(* hotel.repository.js).  A list is put together from two reads and stored *)
(* some awaits later; an invalidation is a KEYS and a DEL.  One query      *)
(* string is modelled: entries of different queries do not meet.  The      *)
(* client's own lists carry a time stamp in the query and never hit.       *)
(***************************************************************************)
EXTENDS InventoryStore

CONSTANTS
    Viewers,    \* list requests that can be in flight at the same time
    NoList

VARIABLES
    cache,      \* NoList or [list, expires]
    fill,       \* [Viewers -> [pc, list]]: a request that did not hit
    late        \* history: who holds data that no invalidation will remove in time

cacheVars == <<cache, fill, late>>

Entry == "entry"

ASSUME CacheAssumption == Entry \notin Viewers

NoFill == [pc |-> "idle", list |-> NoList]

CacheInit ==
    /\ cache = NoList
    /\ fill = [v \in Viewers |-> NoFill]
    /\ late = {}

\* Fills that have read something.
Reading == {v \in Viewers : fill[v].pc \in {"hotels", "rooms"}}

CachedEntry == IF cache = NoList THEN {} ELSE {Entry}

\* The inventory changed: fills under way have missed it, and so has the entry
\* when no invalidation follows.
Outdates(followed) ==
    late' = IF Listing' = Listing THEN late
            ELSE late \cup Reading \cup (IF followed THEN {} ELSE CachedEntry)

-----------------------------------------------------------------------------
\* readHotelListCache finds nothing; a hit is answered and changes nothing.
MissCache(v) ==
    /\ fill[v].pc = "idle"
    /\ cache = NoList
    /\ fill' = [fill EXCEPT ![v].pc = "miss"]
    /\ UNCHANGED <<cache, late, storeVars>>

\* findHotels({isActive: true}).
FindHotels(v) ==
    /\ fill[v].pc = "miss"
    /\ fill' = [fill EXCEPT ![v] = [pc |-> "hotels", list |-> [hotels |-> Listing.hotels, rooms |-> {}]]]
    /\ UNCHANGED <<cache, late, storeVars>>

\* findRooms of the hotels found, active ones; the count that follows is for paging.
FindRooms(v) ==
    LET found == {pair[1] : pair \in fill[v].list.hotels}
    IN  /\ fill[v].pc = "hotels"
        /\ fill' = [fill EXCEPT ![v].pc = "rooms",
                                ![v].list.rooms = UNION {ActiveRooms(h) : h \in found}]
        /\ UNCHANGED <<cache, late, storeVars>>

\* Mutant of WriteListCache: the payload is stored before it is put together.
WriteListCacheUnread(v) ==
    /\ fill[v].pc # "idle"
    /\ cache' = [list |-> fill[v].list, expires |-> TRUE]
    /\ fill' = [fill EXCEPT ![v] = NoFill]
    /\ late' = IF v \in late THEN (late \ {v}) \cup {Entry} ELSE late \ {Entry}
    /\ UNCHANGED storeVars

\* Mutant of WriteListCache: SET without EX.
WriteListCacheForGood(v) ==
    /\ fill[v].pc = "rooms"
    /\ cache' = [list |-> fill[v].list, expires |-> FALSE]
    /\ fill' = [fill EXCEPT ![v] = NoFill]
    /\ late' = IF v \in late THEN (late \ {v}) \cup {Entry} ELSE late \ {Entry}
    /\ UNCHANGED storeVars

\* writeHotelListCache, SET with EX 120.
WriteListCache(v) ==
    /\ fill[v].pc = "rooms"
    /\ cache' = [list |-> fill[v].list, expires |-> TRUE]
    /\ fill' = [fill EXCEPT ![v] = NoFill]
    /\ late' = IF v \in late THEN (late \ {v}) \cup {Entry} ELSE late \ {Entry}
    /\ UNCHANGED storeVars

\* The request dies, or Redis is away for the read or the write.
FillFails(v) ==
    /\ fill[v].pc # "idle"
    /\ fill' = [fill EXCEPT ![v] = NoFill]
    /\ late' = late \ {v}
    /\ UNCHANGED <<cache, storeVars>>

EntryExpires ==
    /\ cache # NoList /\ cache.expires
    /\ cache' = NoList
    /\ late' = late \ {Entry}
    /\ UNCHANGED <<fill, storeVars>>

FillStep(v) == MissCache(v) \/ FindHotels(v) \/ FindRooms(v) \/ WriteListCache(v)

-----------------------------------------------------------------------------
\* DEL of the keys that KEYS returned.
DropEntry ==
    /\ cache' = NoList
    /\ late' = late \ {Entry}
    /\ UNCHANGED <<fill, storeVars>>

\* A change whose invalidation does not happen any more.
InvalidationLost ==
    /\ late' = late \cup CachedEntry
    /\ UNCHANGED <<cache, fill>>
=============================================================================
