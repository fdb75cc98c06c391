-------------------------- MODULE InventoryService --------------------------
(***************************************************************************)
(* hotel-service and admin-service over one inventory and one list cache,  *)
(* with the viewers of the public list and the activation script.          *)
(***************************************************************************)
EXTENDS InventoryRequests

CONSTANTS
    MaxFaults,      \* bound: failing calls and dying processes
    WithScript      \* whether activate-all-inventory.mjs is run once

ASSUME InventoryServiceAssumption == MaxFaults \in Nat /\ WithScript \in BOOLEAN

VARIABLES
    script,     \* control point of the script
    faults      \* failures so far

vars == <<storeVars, cacheVars, request, script, faults>>

Init ==
    /\ StoreInit /\ CacheInit /\ RequestsInit
    /\ script = (IF WithScript THEN "hotels" ELSE "done")
    /\ faults = 0

ServeRequest(q) == (Receive(q) \/ Proceed(q)) /\ UNCHANGED <<script, faults>>

ServeList(v) == FillStep(v) /\ UNCHANGED <<request, script, faults>>

CacheTTL == EntryExpires /\ UNCHANGED <<request, script, faults>>

\* updateMany over all hotels.
ScriptHotels ==
    /\ script = "hotels" /\ script' = "rooms"
    /\ hotel' = [h \in Hotels |-> IF HotelIs(h, "absent") THEN hotel[h]
                                  ELSE [hotel[h] EXCEPT !.state = "active"]]
    /\ stray' = {}
    /\ UNCHANGED <<room, cache, fill, request, faults>>
    /\ Outdates(FALSE)

\* updateMany over all rooms; the cache is not invalidated.
ScriptRooms ==
    /\ script = "rooms" /\ script' = "done"
    /\ room' = [r \in Rooms |-> IF RoomIs(r, "absent") THEN "absent" ELSE "active"]
    /\ stray' = {r \in Rooms : ~RoomIs(r, "absent") /\ ~HotelIs(HotelOf[r], "active")}
    /\ UNCHANGED <<hotel, cache, fill, request, faults>>
    /\ Outdates(FALSE)

Disturb ==
    /\ faults < MaxFaults /\ faults' = faults + 1
    /\ \/ \E q \in Requests : RequestFails(q)
       \/ \E v \in Viewers : FillFails(v) /\ UNCHANGED request
    /\ UNCHANGED script

Next ==
    \/ \E q \in Requests : ServeRequest(q)
    \/ \E v \in Viewers : ServeList(v)
    \/ CacheTTL \/ ScriptHotels \/ ScriptRooms \/ Disturb

\* Redis drops an entry at the end of its 120 s, and a list request that has
\* missed the cache goes on.  Nobody has to send a request.
Fairness ==
    /\ WF_vars(CacheTTL)
    /\ \A v \in Viewers : WF_vars(fill[v].pc # "idle" /\ ServeList(v))

Spec == Init /\ [][Next]_vars /\ Fairness

-----------------------------------------------------------------------------
List == [hotels : SUBSET (Hotels \X {"old", "new"}), rooms : SUBSET Rooms]

\* Every variable has its type.
TypeOK ==
    /\ hotel \in [Hotels -> [state : States, name : {"old", "new"}]]
    /\ room \in [Rooms -> States]
    /\ stray \subseteq Rooms
    /\ cache \in [list : List, expires : BOOLEAN] \cup {NoList}
    /\ fill \in [Viewers -> [pc : {"idle", "miss", "hotels", "rooms"}, list : List \cup {NoList}]]
    /\ late \subseteq Viewers \cup {Entry}
    /\ request \in [Requests -> [pc : RequestPoints, api : Apis, deed : Deeds,
                                 at : Hotels \cup Rooms \cup {NoTarget}]]
    /\ script \in {"hotels", "rooms", "done"} /\ faults \in 0..MaxFaults

\* A request that has written and not yet invalidated.
Pending(q) == request[q].pc \in {"rooms", "audit", "keys", "drop"} /\ Invalidates(q)

\* patterns-and-usage.md: the list cache "invalidates on inventory mutations".
\* With no mutation under way, the cached list is what the database would
\* answer, put together from one instant; the only exceptions are an entry that
\* a list request stored after it had been overtaken by a change, and an entry
\* left behind by a change without an invalidation: approve, reject, the script,
\* or a request that failed after its write (listPublicHotels against
\* invalidateHotelListCache, both interleaved at every await).
CachedListIsCurrent ==
    cache # NoList /\ Entry \notin late /\ (\A q \in Requests : ~Pending(q))
        => cache.list = Listing

\* Whatever went wrong, once the inventory rests the public list is right for
\* good: an outdated entry lives no longer than its TTL.
CacheConverges == <>[](cache = NoList \/ cache.list = Listing)

BeingDeleted(h) == \E q \in Requests : request[q].pc = "rooms" /\ request[q].at = h

\* A deletion that runs to its end takes all rooms with it, those created while it
\* ran included (deleteOwnerHotel and deleteAdminHotel against createOwnerRoom): a
\* room is active in an inactive hotel only if it became so there (a room added to
\* or activated in a deleted hotel, or the activation script), if the hotel was
\* hidden without being deleted (a PATCH, a rejection), or if the deletion died
\* between its two writes.
NoOrphanRooms ==
    \A r \in Rooms :
        RoomIs(r, "active") /\ ~HotelIs(HotelOf[r], "active") /\ ~BeingDeleted(HotelOf[r])
            => r \in stray

Reopens(h) ==
    \/ script = "hotels" /\ script' = "rooms"
    \/ \E q \in Requests : /\ request[q].pc = "write" /\ request[q].at = h
                           /\ request[q].deed = "showHotel" /\ request'[q] # request[q]

\* No update that was under way when a hotel was deleted brings it back
\* (updateOwnerHotel, patchAdminHotel): only an explicit activation does.
DeletedStaysDeleted ==
    [][\A h \in Hotels : HotelIs(h, "inactive") /\ HotelIs(h, "active")' => Reopens(h)]_vars
=============================================================================
