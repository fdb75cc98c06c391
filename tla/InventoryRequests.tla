-------------------------- MODULE InventoryRequests --------------------------
(***************************************************************************)
(* The requests that change the inventory: the owner API of hotel-service  *)
(* (api "owner"), the admin API of admin-service ("admin") and the         *)
(* moderation by a superadmin ("moderator").  A request reads, writes what *)
(* it decided, is recorded by an audit entry in admin-service, and         *)
(* invalidates the list cache; each of these is an await.  Who may manage  *)
(* which hotel is left out: a refused request changes nothing.             *)
(***************************************************************************)
EXTENDS HotelListCache

CONSTANTS Requests, NoTarget

VARIABLE request    \* [Requests -> [pc, api, deed, at]]

Apis == {"none", "owner", "admin", "moderator"}

Deeds == {"none", "createHotel", "renameHotel", "showHotel", "hideHotel", "deleteHotel",
          "createRoom", "showRoom", "closeRoom"}

RequestPoints == {"new", "hotel", "write", "rooms", "audit", "keys", "drop", "done"}

NewRequest == [pc |-> "new", api |-> "none", deed |-> "none", at |-> NoTarget]

RequestsInit == request = [q \in Requests |-> NewRequest]

Ask(q, api, deed, x, point) ==
    /\ request[q].pc = "new"
    /\ request' = [request EXCEPT ![q] = [pc |-> point, api |-> api, deed |-> deed, at |-> x]]
    /\ UNCHANGED <<storeVars, cacheVars>>

\* The request stands at `from` and moves on to `to`; a finished one forgets.
Step(q, from, to) ==
    /\ request[q].pc = from
    /\ request' = [request EXCEPT ![q] = IF to = "done" THEN [NewRequest EXCEPT !.pc = "done"]
                                         ELSE [@ EXCEPT !.pc = to]]

\* Whether the request of this service is followed by an invalidation.
Invalidates(q) == request[q].api # "moderator"

-----------------------------------------------------------------------------
(***************************************************************************)
(* The reads.  A request that finds nothing to work on answers 404.        *)
(***************************************************************************)

\* createOwnerHotel and createAdminHotel insert at once, under a new id.
CreateHotel(q, h) ==
    /\ HotelIs(h, "absent")
    /\ \A p \in Requests : request[p].at # h
    /\ \E api \in {"owner", "admin"} : Ask(q, api, "createHotel", h, "write")

\* updateOwnerHotel and deleteOwnerHotel: an active hotel.
OwnerReadsHotel(q, h) ==
    /\ HotelIs(h, "active")
    /\ \E deed \in {"renameHotel", "deleteHotel"} : Ask(q, "owner", deed, h, "write")

\* patchAdminHotel works on deleted hotels too, deleteAdminHotel does not.
AdminReadsHotel(q, h) ==
    \/ /\ ~HotelIs(h, "absent")
       /\ \E deed \in {"renameHotel", "showHotel", "hideHotel"} : Ask(q, "admin", deed, h, "write")
    \/ /\ HotelIs(h, "active")
       /\ Ask(q, "admin", "deleteHotel", h, "write")

\* approveHotelById and rejectHotelById.
ModeratorReadsHotel(q, h) ==
    /\ ~HotelIs(h, "absent")
    /\ \E deed \in {"showHotel", "hideHotel"} : Ask(q, "moderator", deed, h, "write")

\* createOwnerRoom wants an active hotel, createAdminRoom any.
ReadHotelOfNewRoom(q, r) ==
    \/ HotelIs(HotelOf[r], "active") /\ Ask(q, "owner", "createRoom", r, "write")
    \/ ~HotelIs(HotelOf[r], "absent") /\ Ask(q, "admin", "createRoom", r, "write")

\* updateOwnerRoom and deleteOwnerRoom; the owner's isActive = TRUE changes
\* nothing in a document that was loaded active.
OwnerReadsRoom(q, r) == RoomIs(r, "active") /\ Ask(q, "owner", "closeRoom", r, "hotel")

\* patchAdminRoom and deleteAdminRoom; the hotel exists as nothing is removed.
AdminReadsRoom(q, r) ==
    /\ ~RoomIs(r, "absent")
    /\ \E deed \in {"showRoom", "closeRoom"} : Ask(q, "admin", deed, r, "hotel")

\* The second read of the room requests.
ReadHotelOfRoom(q) ==
    /\ Step(q, "hotel", IF request[q].api = "owner" /\ ~HotelIs(HotelOf[request[q].at], "active")
                        THEN "done" ELSE "write")
    /\ UNCHANGED <<storeVars, cacheVars>>

-----------------------------------------------------------------------------
(***************************************************************************)
(* The writes, none of them conditional on what was read.                  *)
(***************************************************************************)
\* Mutant of AfterWrite: the handlers of hotel-service do not invalidate.
AfterWriteOwnerForgets(q) == IF request[q].api = "owner" THEN "done" ELSE "audit"

\* The changes of admin-service are audited before the cache is invalidated.
AfterWrite(q) == IF request[q].api = "owner" THEN "keys" ELSE "audit"

\* The request is about to write what `deed` asks for.
Writing(q, deed) == request[q].pc = "write" /\ request[q].deed = deed

Written(q, to) ==
    /\ Step(q, "write", to)
    /\ Outdates(Invalidates(q))
    /\ UNCHANGED <<cache, fill>>

\* isActive comes from the body, except in createOwnerHotel.
InsertHotel(q) ==
    /\ Writing(q, "createHotel")
    /\ \/ ActivateHotel(request[q].at)
       \/ request[q].api = "admin" /\ HideHotel(request[q].at)
    /\ Written(q, AfterWrite(q))

\* Mutant of SaveHotel: the whole document is written, isActive as it was read.
SaveWholeHotel(q) ==
    /\ Writing(q, "renameHotel")
    /\ hotel' = [hotel EXCEPT ![request[q].at] = [state |-> "active", name |-> "new"]]
    /\ UNCHANGED <<room, stray>>
    /\ Written(q, AfterWrite(q))

\* save() and findByIdAndUpdate send the fields that were changed, no others.
SaveHotel(q) ==
    /\ Writing(q, "renameHotel")
    /\ RenameHotel(request[q].at)
    /\ Written(q, AfterWrite(q))

ShowHotel(q) ==
    /\ Writing(q, "showHotel")
    /\ ActivateHotel(request[q].at)
    /\ Written(q, AfterWrite(q))

ConcealHotel(q) ==
    /\ Writing(q, "hideHotel")
    /\ HideHotel(request[q].at)
    /\ Written(q, AfterWrite(q))

DeleteHotel(q) ==
    /\ Writing(q, "deleteHotel")
    /\ MarkHotelDeleted(request[q].at)
    /\ Written(q, "rooms")

\* Mutant of DeleteRooms: the rooms of a deleted hotel are left as they are.
DeleteNoRooms(q) ==
    /\ request[q].pc = "rooms"
    /\ Step(q, "rooms", AfterWrite(q))
    /\ UNCHANGED <<storeVars, cacheVars>>

\* updateMany on the rooms of the hotel, the second statement of a deletion.
DeleteRooms(q) ==
    /\ request[q].pc = "rooms"
    /\ DeactivateRooms(request[q].at)
    /\ Step(q, "rooms", AfterWrite(q))
    /\ Outdates(TRUE)
    /\ UNCHANGED <<cache, fill>>

\* A room number that was used once is taken for good: the insert fails.
InsertRoom(q) ==
    /\ Writing(q, "createRoom")
    /\ IF RoomIs(request[q].at, "absent")
       THEN /\ \E s \in {"active", "inactive"} : SetRoom(request[q].at, s)
            /\ Written(q, AfterWrite(q))
       ELSE Step(q, "write", "done") /\ UNCHANGED <<storeVars, cacheVars>>

ShowRoom(q) ==
    /\ Writing(q, "showRoom")
    /\ SetRoom(request[q].at, "active")
    /\ Written(q, AfterWrite(q))

CloseRoom(q) ==
    /\ Writing(q, "closeRoom")
    /\ SetRoom(request[q].at, "inactive")
    /\ Written(q, AfterWrite(q))

WriteInventory(q) ==
    \/ InsertHotel(q) \/ SaveHotel(q) \/ ShowHotel(q) \/ ConcealHotel(q)
    \/ DeleteHotel(q) \/ DeleteRooms(q)
    \/ InsertRoom(q) \/ ShowRoom(q) \/ CloseRoom(q)

-----------------------------------------------------------------------------
\* writeAudit; approve and reject end here.
WriteAudit(q) ==
    /\ Step(q, "audit", IF Invalidates(q) THEN "keys" ELSE "done")
    /\ UNCHANGED <<storeVars, cacheVars>>

\* KEYS hotels:list:*.
FindCacheKeys(q) ==
    /\ Step(q, "keys", IF cache = NoList THEN "done" ELSE "drop")
    /\ UNCHANGED <<storeVars, cacheVars>>

\* DEL of the keys found, whatever they hold by now.
DropCacheKeys(q) == Step(q, "drop", "done") /\ DropEntry

\* The process dies or an awaited call throws; Redis errors are swallowed with
\* the same effect.  What was written stays.
RequestFails(q) ==
    /\ request[q].pc \notin {"new", "done"}
    /\ request' = [request EXCEPT ![q] = [NewRequest EXCEPT !.pc = "done"]]
    /\ stray' = IF request[q].pc = "rooms" THEN stray \cup ActiveRooms(request[q].at) ELSE stray
    /\ IF request[q].pc \in {"hotel", "write"} THEN UNCHANGED cacheVars ELSE InvalidationLost
    /\ UNCHANGED <<hotel, room>>

Receive(q) ==
    \/ \E h \in Hotels : \/ CreateHotel(q, h) \/ OwnerReadsHotel(q, h)
                         \/ AdminReadsHotel(q, h) \/ ModeratorReadsHotel(q, h)
    \/ \E r \in Rooms : ReadHotelOfNewRoom(q, r) \/ OwnerReadsRoom(q, r) \/ AdminReadsRoom(q, r)

Proceed(q) ==
    \/ ReadHotelOfRoom(q) \/ WriteInventory(q) \/ WriteAudit(q)
    \/ FindCacheKeys(q) \/ DropCacheKeys(q)
=============================================================================
