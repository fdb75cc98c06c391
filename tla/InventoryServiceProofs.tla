---------------------- MODULE InventoryServiceProofs ----------------------
(***************************************************************************)
(* The inventory and its list cache are what InventoryService says of them *)
(* for every set of hotels, rooms, requests and list requests.             *)
(*                                                                         *)
(* The properties are not inductive.  Inv adds what a request still relies *)
(* on after its reads (RequestHolds), that a room is not older than its    *)
(* hotel, and what a list request holds that no change has overtaken       *)
(* (FillHolds).                                                            *)
(***************************************************************************)
EXTENDS InventoryService, TLAPS

-----------------------------------------------------------------------------
(***************************************************************************)
(* The invariant.                                                          *)
(***************************************************************************)
HotelDeeds == {"createHotel", "renameHotel", "showHotel", "hideHotel", "deleteHotel"}

RoomDeeds == {"createRoom", "showRoom", "closeRoom"}

\* A hotel of this name is about to be inserted.
Creating(q) == request[q].pc = "write" /\ request[q].deed = "createHotel"

\* What request q still relies on was there when it read it, and is there yet.
RequestHolds(q) ==
    /\ request[q].pc \in {"write", "rooms"} /\ request[q].deed \in HotelDeeds =>
          request[q].at \in Hotels /\ (HotelIs(request[q].at, "absent") <=> Creating(q))
    /\ request[q].pc = "hotel" => request[q].deed \in {"showRoom", "closeRoom"}
    /\ request[q].pc = "rooms" => request[q].deed = "deleteHotel"
    /\ request[q].pc \in {"write", "rooms"} /\ request[q].deed = "deleteHotel" => Invalidates(q)
    /\ request[q].pc \in {"hotel", "write"} /\ request[q].deed \in RoomDeeds =>
          request[q].at \in Rooms /\ ~HotelIs(HotelOf[request[q].at], "absent")
    /\ request[q].pc \in {"hotel", "write"} /\ request[q].deed \in {"showRoom", "closeRoom"} =>
          ~RoomIs(request[q].at, "absent")

RequestsHold ==
    /\ \A q \in Requests : RequestHolds(q)
    /\ \A p, q \in Requests : Creating(p) /\ Creating(q) /\ request[p].at = request[q].at => p = q

RoomsBelong == \A r \in Rooms : HotelIs(HotelOf[r], "absent") => RoomIs(r, "absent")

\* A fill that nothing has overtaken holds what the database holds.
FillHolds(v) ==
    /\ fill[v].pc \in {"hotels", "rooms"} => fill[v].list \in List
    /\ fill[v].pc = "hotels" /\ v \notin late => fill[v].list.hotels = Listing.hotels
    /\ fill[v].pc = "rooms" /\ v \notin late => fill[v].list = Listing

ListsHold == CachedListIsCurrent /\ \A v \in Viewers : FillHolds(v)

Inv == TypeOK /\ RequestsHold /\ RoomsBelong /\ NoOrphanRooms /\ ListsHold

-----------------------------------------------------------------------------
(***************************************************************************)
(* Lemmas on single variables.                                             *)
(***************************************************************************)
StoreTyped ==
    /\ hotel \in [Hotels -> [state : States, name : {"old", "new"}]]
    /\ room \in [Rooms -> States]
    /\ stray \subseteq Rooms

RequestRecord ==
    [pc : RequestPoints, api : Apis, deed : Deeds, at : Hotels \cup Rooms \cup {NoTarget}]

CacheTyped ==
    /\ cache \in [list : List, expires : BOOLEAN] \cup {NoList}
    /\ fill \in [Viewers -> [pc : {"idle", "miss", "hotels", "rooms"}, list : List \cup {NoList}]]
    /\ late \subseteq Viewers \cup {Entry}

RestTyped == script \in {"hotels", "rooms", "done"} /\ faults \in 0..MaxFaults

LEMMA TypeParts ==
    TypeOK <=> StoreTyped /\ CacheTyped /\ request \in [Requests -> RequestRecord] /\ RestTyped
BY DEF TypeOK, StoreTyped, CacheTyped, RequestRecord, RestTyped

LEMMA Together ==
    ASSUME StoreTyped', CacheTyped', (request \in [Requests -> RequestRecord])', RestTyped',
           RequestsHold', RoomsBelong', NoOrphanRooms', ListsHold'
    PROVE  Inv'
BY DEF Inv, TypeOK, StoreTyped, CacheTyped, RequestRecord, RestTyped

LEMMA Parts ==
    ASSUME Inv
    PROVE  /\ StoreTyped /\ CacheTyped /\ request \in [Requests -> RequestRecord] /\ RestTyped
           /\ RequestsHold /\ RoomsBelong /\ NoOrphanRooms /\ ListsHold
BY TypeParts DEF Inv

LEMMA ListingTyped ==
    ASSUME StoreTyped
    PROVE  Listing \in List
BY DEF Listing, List, StoreTyped

LEMMA ListingSame ==
    ASSUME UNCHANGED <<hotel, room>>
    PROVE  Listing' = Listing
BY DEF Listing, HotelIs, Bookable, RoomIs

\* What Step does to the request it is about.
LEMMA Stepped ==
    ASSUME request \in [Requests -> RequestRecord], NEW q \in Requests,
           NEW from, NEW to \in RequestPoints, Step(q, from, to)
    PROVE  /\ request' \in [Requests -> RequestRecord]
           /\ \A p \in Requests : p # q => request'[p] = request[p]
           /\ request[q].pc = from /\ request'[q].pc = to
           /\ to # "done" => /\ request'[q].at = request[q].at
                             /\ request'[q].deed = request[q].deed
                             /\ request'[q].api = request[q].api
<1> DEFINE next == IF to = "done" THEN [NewRequest EXCEPT !.pc = "done"] ELSE [request[q] EXCEPT !.pc = to]
<1>1. request[q].pc = from /\ request' = [request EXCEPT ![q] = next]
    BY DEF Step
<1>2. /\ next \in RequestRecord /\ next.pc = to
      /\ to # "done" => next.at = request[q].at /\ next.deed = request[q].deed /\ next.api = request[q].api
    BY DEF RequestRecord, NewRequest, RequestPoints, Apis, Deeds
<1> HIDE DEF next
<1> QED BY <1>1, <1>2

\* A request that goes on, and an inventory that only gains names, leave the
\* other requests what they rely on.
LEMMA RequestsKeep ==
    ASSUME RequestsHold, NEW q \in Requests,
           \A p \in Requests : p # q => request'[p] = request[p],
           \A h \in Hotels : HotelIs(h, "absent")' => HotelIs(h, "absent"),
           \A r \in Rooms : RoomIs(r, "absent")' => RoomIs(r, "absent"),
           \A h \in Hotels : HotelIs(h, "absent") /\ ~HotelIs(h, "absent")' =>
               Creating(q) /\ request[q].at = h,
           RequestHolds(q)',
           Creating(q)' => \A p \in Requests \ {q} : ~(Creating(p) /\ request[p].at = request'[q].at)
    PROVE  RequestsHold'
<1>1. \A p \in Requests : p # q => Creating(p)' = Creating(p) /\ Invalidates(p)' = Invalidates(p)
    BY DEF Creating, Invalidates
<1>2. ASSUME NEW p \in Requests, p # q PROVE RequestHolds(p)'
    <2>1. /\ RequestHolds(p) /\ request'[p] = request[p]
          /\ Creating(p)' = Creating(p) /\ Invalidates(p)' = Invalidates(p)
          /\ Creating(p) /\ Creating(q) => request[p].at # request[q].at
        BY <1>1, <1>2 DEF RequestsHold
    <2>2. \A h \in Hotels : h = request[p].at /\ Creating(p) => (HotelIs(h, "absent")' <=> HotelIs(h, "absent"))
        BY <2>1
    <2>3. ASSUME request[p].pc \in {"write", "rooms"}, request[p].deed \in HotelDeeds
          PROVE  request[p].at \in Hotels /\ (HotelIs(request[p].at, "absent")' <=> Creating(p))
        BY <2>1, <2>2, <2>3 DEF RequestHolds
    <2>4. ASSUME request[p].pc \in {"hotel", "write"}, request[p].deed \in RoomDeeds
          PROVE  /\ request[p].at \in Rooms /\ HotelOf[request[p].at] \in Hotels
                 /\ ~HotelIs(HotelOf[request[p].at], "absent")'
        BY <2>1, <2>4, InventoryAssumption DEF RequestHolds
    <2>5. ASSUME request[p].pc \in {"hotel", "write"}, request[p].deed \in {"showRoom", "closeRoom"}
          PROVE  ~RoomIs(request[p].at, "absent")'
        BY <2>1, <2>4, <2>5 DEF RequestHolds, RoomDeeds
    <2> QED BY <2>1, <2>3, <2>4, <2>5 DEF RequestHolds, HotelIs, RoomIs
<1>3. \A p, r \in Requests : Creating(p)' /\ Creating(r)' /\ request'[p].at = request'[r].at => p = r
    BY <1>1 DEF RequestsHold
<1> QED BY <1>2, <1>3 DEF RequestsHold

LEMMA DeletionsGoOn ==
    ASSUME NEW q \in Requests, \A p \in Requests : p # q => request'[p] = request[p],
           request[q].pc # "rooms"
    PROVE  \A h : BeingDeleted(h) => BeingDeleted(h)'
BY DEF BeingDeleted

-----------------------------------------------------------------------------
(***************************************************************************)
(* The list cache when a request or the script moves.                      *)
(***************************************************************************)
LEMMA CacheStays ==
    ASSUME CacheTyped, ListsHold, UNCHANGED <<hotel, room, cacheVars>>,
           cache = NoList \/ \A p \in Requests : Pending(p) => Pending(p)'
    PROVE  CacheTyped' /\ ListsHold'
<1>1. UNCHANGED <<cache, fill, late>> /\ Listing' = Listing
    BY ListingSame DEF cacheVars
<1>2. CacheTyped' /\ \A v \in Viewers : FillHolds(v)'
    BY <1>1 DEF CacheTyped, ListsHold, FillHolds, List
<1>3. CachedListIsCurrent'
    BY <1>1 DEF ListsHold, CachedListIsCurrent
<1> QED BY <1>2, <1>3 DEF ListsHold

\* A change of the inventory, with an invalidation to follow or without.
LEMMA CacheOutdated ==
    ASSUME CacheTyped, ListsHold, NEW followed \in BOOLEAN, Outdates(followed), UNCHANGED <<cache, fill>>,
           followed => \E p \in Requests : Pending(p)',
           \A p \in Requests : Pending(p) => Pending(p)'
    PROVE  CacheTyped' /\ ListsHold'
<1>1. CASE Listing' = Listing
    <2>1. late' = late
        BY <1>1 DEF Outdates
    <2>2. CacheTyped' /\ \A v \in Viewers : FillHolds(v)'
        BY <1>1, <2>1 DEF CacheTyped, ListsHold, FillHolds, List
    <2>3. CachedListIsCurrent'
        BY <1>1, <2>1 DEF ListsHold, CachedListIsCurrent
    <2> QED BY <2>2, <2>3 DEF ListsHold
<1>2. CASE Listing' # Listing
    <2>1. late' = late \cup Reading \cup (IF followed THEN {} ELSE CachedEntry)
        BY <1>2 DEF Outdates
    <2>2. CacheTyped'
        BY <2>1 DEF CacheTyped, Reading, CachedEntry, List
    <2>3. ASSUME NEW v \in Viewers PROVE FillHolds(v)'
        <3>1. fill[v].pc \in {"hotels", "rooms"} => v \in late' /\ fill[v].list \in List
            BY <2>1 DEF Reading, ListsHold, FillHolds
        <3> QED BY <3>1 DEF FillHolds, List
    <2>4. CachedListIsCurrent'
        <3>1. CASE followed
            BY <3>1 DEF CachedListIsCurrent
        <3>2. CASE ~followed
            BY <2>1, <3>2 DEF CachedListIsCurrent, CachedEntry
        <3> QED BY <3>1, <3>2
    <2> QED BY <2>2, <2>3, <2>4 DEF ListsHold
<1> QED BY <1>1, <1>2

-----------------------------------------------------------------------------
(***************************************************************************)
(* Requests that move without writing.                                     *)
(***************************************************************************)
LEMMA MoveKeeps ==
    ASSUME Inv, NEW q \in Requests, UNCHANGED <<storeVars, cacheVars, script, faults>>,
           request' \in [Requests -> RequestRecord],
           \A p \in Requests : p # q => request'[p] = request[p],
           request[q].pc # "rooms",
           Pending(q) => Pending(q)' \/ cache = NoList,
           RequestHolds(q)',
           Creating(q)' => \A p \in Requests \ {q} : ~(Creating(p) /\ request[p].at = request'[q].at)
    PROVE  Inv'
<1>1. UNCHANGED <<hotel, room, stray>>
    BY DEF storeVars
<1>2. RequestsHold'
    BY <1>1, Parts, RequestsKeep DEF HotelIs, RoomIs
<1>3. NoOrphanRooms'
    BY <1>1, Parts, DeletionsGoOn DEF NoOrphanRooms, RoomIs, HotelIs
<1>4. CacheTyped' /\ ListsHold'
    <2>1. \A p \in Requests : p # q /\ Pending(p) => Pending(p)'
        BY DEF Pending, Invalidates
    <2> QED BY <1>1, <2>1, Parts, CacheStays
<1>5. StoreTyped' /\ RestTyped' /\ RoomsBelong'
    BY <1>1, Parts DEF StoreTyped, RestTyped, RoomsBelong, HotelIs, RoomIs
<1> QED BY <1>2, <1>3, <1>4, <1>5, Together

LEMMA AskKeeps ==
    ASSUME Inv, NEW q \in Requests, UNCHANGED <<script, faults>>,
           NEW api \in {"owner", "admin", "moderator"}, NEW deed \in HotelDeeds \cup RoomDeeds,
           NEW x \in Hotels \cup Rooms, NEW point \in {"hotel", "write"},
           Ask(q, api, deed, x, point),
           point = "hotel" => deed \in {"showRoom", "closeRoom"},
           deed = "deleteHotel" => api # "moderator",
           deed \in HotelDeeds => x \in Hotels /\ (HotelIs(x, "absent") <=> deed = "createHotel"),
           deed \in RoomDeeds => x \in Rooms /\ ~HotelIs(HotelOf[x], "absent"),
           deed \in {"showRoom", "closeRoom"} => ~RoomIs(x, "absent"),
           deed = "createHotel" => \A p \in Requests : request[p].at # x
    PROVE  Inv'
<1> DEFINE r == [pc |-> point, api |-> api, deed |-> deed, at |-> x]
<1>1. /\ request[q].pc = "new" /\ request' = [request EXCEPT ![q] = r]
      /\ UNCHANGED <<storeVars, cacheVars>>
    BY DEF Ask
<1>2. r \in RequestRecord
    BY DEF RequestRecord, RequestPoints, Apis, Deeds, HotelDeeds, RoomDeeds
<1>3. r.pc = point /\ r.api = api /\ r.deed = deed /\ r.at = x
    OBVIOUS
<1> HIDE DEF r
<1>4. /\ request' \in [Requests -> RequestRecord]
      /\ request'[q] = r
      /\ \A p \in Requests : p # q => request'[p] = request[p]
    BY <1>1, <1>2, Parts
<1>5. ~Pending(q)
    BY <1>1 DEF Pending
<1>6. Creating(q)' <=> point = "write" /\ deed = "createHotel"
    BY <1>3, <1>4 DEF Creating
<1>7. UNCHANGED <<hotel, room>>
    BY <1>1 DEF storeVars
<1>8. RequestHolds(q)'
    <2>1. (HotelIs(x, "absent")' <=> HotelIs(x, "absent")) /\ (RoomIs(x, "absent")' <=> RoomIs(x, "absent"))
          /\ (HotelIs(HotelOf[x], "absent")' <=> HotelIs(HotelOf[x], "absent"))
        BY <1>7 DEF HotelIs, RoomIs
    <2>2. /\ request'[q].pc = point /\ request'[q].deed = deed /\ request'[q].at = x
          /\ request'[q].api = api
        BY <1>3, <1>4
    <2>3. deed \in HotelDeeds => deed \notin {"showRoom", "closeRoom"}
        BY DEF HotelDeeds
    <2> QED BY <1>6, <1>7, <2>1, <2>2, <2>3 DEF RequestHolds, Invalidates, HotelIs, RoomIs
<1>9. Creating(q)' => \A p \in Requests \ {q} : ~(Creating(p) /\ request[p].at = request'[q].at)
    BY <1>3, <1>4, <1>6
<1> QED BY <1>1, <1>4, <1>5, <1>8, <1>9, MoveKeeps

LEMMA ReceiveKeeps ==
    ASSUME Inv, NEW q \in Requests, Receive(q), UNCHANGED <<script, faults>>
    PROVE  Inv'
<1>1. ASSUME NEW h \in Hotels, CreateHotel(q, h) PROVE Inv'
    <2>1. HotelIs(h, "absent") /\ \A p \in Requests : request[p].at # h
        BY <1>1 DEF CreateHotel
    <2>2. PICK api \in {"owner", "admin"} : Ask(q, api, "createHotel", h, "write")
        BY <1>1 DEF CreateHotel
    <2> QED BY <2>1, <2>2, AskKeeps DEF HotelDeeds, RoomDeeds
<1>2. ASSUME NEW h \in Hotels, NEW api \in {"owner", "admin", "moderator"},
             NEW deed \in {"renameHotel", "showHotel", "hideHotel", "deleteHotel"},
             ~HotelIs(h, "absent"), deed = "deleteHotel" => api # "moderator", Ask(q, api, deed, h, "write")
      PROVE  Inv'
    BY <1>2, AskKeeps DEF HotelDeeds, RoomDeeds
<1>3. ASSUME NEW h \in Hotels, OwnerReadsHotel(q, h) \/ AdminReadsHotel(q, h) \/ ModeratorReadsHotel(q, h)
      PROVE  Inv'
    <2>1. ~HotelIs(h, "absent")
        BY <1>3 DEF OwnerReadsHotel, AdminReadsHotel, ModeratorReadsHotel, HotelIs
    <2>2. CASE OwnerReadsHotel(q, h)
        BY <1>2, <2>1, <2>2 DEF OwnerReadsHotel
    <2>3. CASE AdminReadsHotel(q, h)
        BY <1>2, <2>1, <2>3 DEF AdminReadsHotel
    <2>4. CASE ModeratorReadsHotel(q, h)
        BY <1>2, <2>1, <2>4 DEF ModeratorReadsHotel
    <2> QED BY <1>3, <2>2, <2>3, <2>4
<1>4. ASSUME NEW r \in Rooms, ReadHotelOfNewRoom(q, r) PROVE Inv'
    <2>1. ~HotelIs(HotelOf[r], "absent")
        BY <1>4 DEF ReadHotelOfNewRoom, HotelIs
    <2>2. PICK api \in {"owner", "admin"} : Ask(q, api, "createRoom", r, "write")
        BY <1>4 DEF ReadHotelOfNewRoom
    <2> QED BY <2>1, <2>2, AskKeeps DEF HotelDeeds, RoomDeeds
<1>5. ASSUME NEW r \in Rooms, OwnerReadsRoom(q, r) \/ AdminReadsRoom(q, r) PROVE Inv'
    <2>1. ~RoomIs(r, "absent")
        BY <1>5 DEF OwnerReadsRoom, AdminReadsRoom, RoomIs
    <2>2. ~HotelIs(HotelOf[r], "absent")
        BY <2>1, Parts DEF RoomsBelong
    <2>3. PICK api \in {"owner", "admin"}, deed \in {"showRoom", "closeRoom"} : Ask(q, api, deed, r, "hotel")
        BY <1>5 DEF OwnerReadsRoom, AdminReadsRoom
    <2> QED BY <2>1, <2>2, <2>3, AskKeeps DEF HotelDeeds, RoomDeeds
<1> QED BY <1>1, <1>3, <1>4, <1>5 DEF Receive

\* A request that steps on without writing.
LEMMA StepKeeps ==
    ASSUME Inv, NEW q \in Requests, UNCHANGED <<storeVars, cacheVars, script, faults>>,
           NEW from, NEW to \in RequestPoints, Step(q, from, to),
           from # "rooms" /\ to \notin {"rooms", "hotel"},
           to = "write" => from = "hotel",
           Pending(q) => cache = NoList \/ to \in {"keys", "drop"}
    PROVE  Inv'
<1>1. /\ request' \in [Requests -> RequestRecord]
      /\ \A p \in Requests : p # q => request'[p] = request[p]
      /\ request[q].pc = from /\ request'[q].pc = to
      /\ to # "done" => /\ request'[q].at = request[q].at
                        /\ request'[q].deed = request[q].deed
                        /\ request'[q].api = request[q].api
    BY Parts, Stepped
<1>2. RequestHolds(q) /\ UNCHANGED <<hotel, room>>
    BY Parts DEF RequestsHold, storeVars
<1>3. RequestHolds(q)' /\ ~Creating(q)'
    <2>1. CASE to = "write"
        <3>1. request[q].pc = "hotel" /\ request'[q].pc = "write" /\ request[q].deed \in {"showRoom", "closeRoom"}
            BY <1>1, <1>2, <2>1 DEF RequestHolds
        <3> QED BY <1>1, <1>2, <2>1, <3>1 DEF RequestHolds, Creating, HotelIs, RoomIs, HotelDeeds, RoomDeeds
    <2>2. CASE to # "write"
        BY <1>1, <2>2 DEF RequestHolds, Creating
    <2> QED BY <2>1, <2>2
<1>4. Pending(q) => Pending(q)' \/ cache = NoList
    BY <1>1 DEF Pending, Invalidates
<1> QED BY <1>1, <1>3, <1>4, MoveKeeps

LEMMA ReadHotelOfRoomKeeps ==
    ASSUME Inv, NEW q \in Requests, ReadHotelOfRoom(q), UNCHANGED <<script, faults>>
    PROVE  Inv'
<1>1. PICK to \in {"done", "write"} : Step(q, "hotel", to)
    BY DEF ReadHotelOfRoom
<1>2. UNCHANGED <<storeVars, cacheVars>> /\ ~Pending(q)
    BY <1>1 DEF ReadHotelOfRoom, Step, Pending
<1> QED BY <1>1, <1>2, StepKeeps DEF RequestPoints

LEMMA WriteAuditKeeps ==
    ASSUME Inv, NEW q \in Requests, WriteAudit(q), UNCHANGED <<script, faults>>
    PROVE  Inv'
<1>1. PICK to \in {"done", "keys"} : Step(q, "audit", to) /\ (to = "done" => ~Invalidates(q))
    BY DEF WriteAudit
<1>2. UNCHANGED <<storeVars, cacheVars>> /\ (Pending(q) => to = "keys")
    BY <1>1 DEF WriteAudit, Pending
<1> QED BY <1>1, <1>2, StepKeeps DEF RequestPoints

LEMMA FindCacheKeysKeeps ==
    ASSUME Inv, NEW q \in Requests, FindCacheKeys(q), UNCHANGED <<script, faults>>
    PROVE  Inv'
<1>1. PICK to \in {"done", "drop"} : Step(q, "keys", to) /\ (to = "done" => cache = NoList)
    BY DEF FindCacheKeys
<1>2. UNCHANGED <<storeVars, cacheVars>>
    BY DEF FindCacheKeys
<1> QED BY <1>1, <1>2, StepKeeps DEF RequestPoints

LEMMA DropCacheKeysKeeps ==
    ASSUME Inv, NEW q \in Requests, DropCacheKeys(q), UNCHANGED <<script, faults>>
    PROVE  Inv'
<1>1. /\ cache' = NoList /\ late' = late \ {Entry}
      /\ UNCHANGED <<fill, hotel, room, stray, script, faults>>
      /\ Step(q, "drop", "done")
    BY DEF DropCacheKeys, DropEntry, storeVars
<1>2. /\ request' \in [Requests -> RequestRecord]
      /\ \A p \in Requests : p # q => request'[p] = request[p]
      /\ request[q].pc = "drop" /\ request'[q].pc = "done"
    BY <1>1, Parts, Stepped DEF RequestPoints
<1>3. RequestsHold'
    <2>1. RequestHolds(q)' /\ ~Creating(q)'
        BY <1>2 DEF RequestHolds, Creating
    <2> QED BY <1>1, <1>2, <2>1, Parts, RequestsKeep DEF HotelIs, RoomIs
<1>4. NoOrphanRooms'
    BY <1>1, <1>2, Parts, DeletionsGoOn DEF NoOrphanRooms, RoomIs, HotelIs
<1>5. CacheTyped'
    BY <1>1, Parts DEF CacheTyped, List
<1>6. ListsHold'
    <2>1. Listing' = Listing
        BY <1>1, ListingSame
    <2>2. \A v \in Viewers : v \in late' <=> v \in late
        BY <1>1, CacheAssumption
    <2>3. \A v \in Viewers : FillHolds(v)'
        BY <1>1, <2>1, <2>2, Parts DEF ListsHold, FillHolds, List
    <2>4. CachedListIsCurrent'
        BY <1>1 DEF CachedListIsCurrent
    <2> QED BY <2>3, <2>4 DEF ListsHold
<1>7. StoreTyped' /\ RestTyped' /\ RoomsBelong'
    BY <1>1, Parts DEF StoreTyped, RestTyped, RoomsBelong, HotelIs, RoomIs
<1> QED BY <1>2, <1>3, <1>4, <1>5, <1>6, <1>7, Together

LEMMA RequestFailsKeeps ==
    ASSUME Inv, NEW q \in Requests, RequestFails(q), UNCHANGED script, RestTyped'
    PROVE  Inv'
<1> DEFINE r == [NewRequest EXCEPT !.pc = "done"]
<1>1. /\ request' = [request EXCEPT ![q] = r]
      /\ UNCHANGED <<hotel, room, cache, fill>>
      /\ late' = late \/ (request[q].pc \notin {"hotel", "write"} /\ late' = late \cup CachedEntry)
      /\ stray' = IF request[q].pc = "rooms" THEN stray \cup ActiveRooms(request[q].at) ELSE stray
    BY DEF RequestFails, InvalidationLost, cacheVars
<1>2. r \in RequestRecord /\ r.pc = "done"
    BY DEF NewRequest, RequestRecord, RequestPoints, Apis, Deeds
<1> HIDE DEF r
<1>3. /\ request' \in [Requests -> RequestRecord] /\ request'[q].pc = "done"
      /\ \A p \in Requests : p # q => request'[p] = request[p]
    BY <1>1, <1>2, Parts
<1>4. RequestsHold'
    <2>1. RequestHolds(q)' /\ ~Creating(q)'
        BY <1>3 DEF RequestHolds, Creating
    <2> QED BY <1>1, <1>3, <2>1, Parts, RequestsKeep DEF HotelIs, RoomIs
<1>5. NoOrphanRooms'
    <2> SUFFICES ASSUME NEW x \in Rooms, RoomIs(x, "active"), ~HotelIs(HotelOf[x], "active"),
                        ~BeingDeleted(HotelOf[x])'
                 PROVE  x \in stray'
        BY <1>1 DEF NoOrphanRooms, RoomIs, HotelIs
    <2>1. CASE BeingDeleted(HotelOf[x])
        <3>1. request[q].pc = "rooms" /\ request[q].at = HotelOf[x]
            BY <1>3, <2>1 DEF BeingDeleted
        <3> QED BY <1>1, <3>1 DEF ActiveRooms
    <2>2. CASE ~BeingDeleted(HotelOf[x])
        BY <1>1, <2>2, Parts DEF NoOrphanRooms
    <2> QED BY <2>1, <2>2
<1>6. CacheTyped' /\ ListsHold'
    <2>1. CASE late' = late /\ request[q].pc \in {"hotel", "write"}
        <3>1. \A p \in Requests : Pending(p) => Pending(p)'
            BY <1>3, <2>1 DEF Pending, Invalidates
        <3> QED BY <1>1, <2>1, <3>1, Parts, CacheStays DEF cacheVars
    <2>2. CASE late' = late \cup CachedEntry
        <3>1. Listing' = Listing
            BY <1>1, ListingSame
        <3>2. CacheTyped'
            BY <1>1, <2>2, Parts DEF CacheTyped, List, CachedEntry
        <3>3. \A v \in Viewers : FillHolds(v)'
            BY <1>1, <2>2, <3>1, Parts DEF ListsHold, FillHolds, List
        <3>4. CachedListIsCurrent'
            BY <1>1, <2>2 DEF CachedListIsCurrent, CachedEntry
        <3> QED BY <3>2, <3>3, <3>4 DEF ListsHold
    <2> QED BY <1>1, <2>1, <2>2 DEF RequestFails, InvalidationLost
<1>7. StoreTyped'
    BY <1>1, Parts DEF StoreTyped, ActiveRooms
<1>8. RoomsBelong'
    BY <1>1, Parts DEF RoomsBelong, HotelIs, RoomIs
<1> QED BY <1>3, <1>4, <1>5, <1>6, <1>7, <1>8, Together

-----------------------------------------------------------------------------
(***************************************************************************)
(* The writes.                                                             *)
(***************************************************************************)
LEMMA WriteKeeps ==
    ASSUME Inv, NEW q \in Requests, NEW to \in {"keys", "audit", "rooms"}, Written(q, to),
           UNCHANGED <<script, faults>>,
           to = "rooms" => request[q].deed = "deleteHotel",
           StoreTyped',
           \A h \in Hotels : HotelIs(h, "absent")' => HotelIs(h, "absent"),
           \A r \in Rooms : RoomIs(r, "absent")' => RoomIs(r, "absent"),
           \A h \in Hotels : HotelIs(h, "absent") /\ ~HotelIs(h, "absent")' =>
               Creating(q) /\ request[q].at = h,
           RoomsBelong', NoOrphanRooms'
    PROVE  Inv'
<1>1. /\ request' \in [Requests -> RequestRecord]
      /\ \A p \in Requests : p # q => request'[p] = request[p]
      /\ request[q].pc = "write" /\ request'[q].pc = to
      /\ request'[q].at = request[q].at
      /\ request'[q].deed = request[q].deed
      /\ request'[q].api = request[q].api
    BY Parts, Stepped DEF Written, RequestPoints
<1>2. RequestHolds(q)' /\ ~Creating(q)'
    <2>1. RequestHolds(q)
        BY Parts DEF RequestsHold
    <2>2. CASE to = "rooms"
        <3>1. /\ request[q].at \in Hotels /\ ~HotelIs(request[q].at, "absent") /\ Invalidates(q)
              /\ request[q].deed = "deleteHotel"
            BY <1>1, <2>1, <2>2 DEF RequestHolds, HotelDeeds, Creating
        <3>2. ~HotelIs(request[q].at, "absent")'
            BY <1>1, <3>1
        <3> QED BY <1>1, <2>2, <3>1, <3>2 DEF RequestHolds, Creating, Invalidates
    <2>3. CASE to # "rooms"
        BY <1>1, <2>3 DEF RequestHolds, Creating
    <2> QED BY <2>2, <2>3
<1>3. RequestsHold'
    BY <1>1, <1>2, Parts, RequestsKeep
<1>4. CacheTyped' /\ ListsHold'
    <2>1. Invalidates(q) \in BOOLEAN /\ Outdates(Invalidates(q)) /\ UNCHANGED <<cache, fill>>
        BY DEF Invalidates, Written
    <2>2. Invalidates(q) => Pending(q)'
        BY <1>1 DEF Pending, Invalidates
    <2>3. \A p \in Requests : Pending(p) => Pending(p)'
        BY <1>1 DEF Pending, Invalidates
    <2> QED BY <2>1, <2>2, <2>3, Parts, CacheOutdated
<1>5. RestTyped'
    BY Parts DEF RestTyped
<1> QED BY <1>1, <1>3, <1>4, <1>5, Together

\* A request writes the hotel it is about.
LEMMA HotelWriteKeeps ==
    ASSUME Inv, NEW q \in Requests, NEW to \in {"keys", "audit", "rooms"}, Written(q, to),
           UNCHANGED <<script, faults>>,
           to = "rooms" => request[q].deed = "deleteHotel",
           request[q].deed \in HotelDeeds,
           NEW next \in [state : States, name : {"old", "new"}],
           hotel' = [hotel EXCEPT ![request[q].at] = next],
           next.state = "absent" => HotelIs(request[q].at, "absent"),
           UNCHANGED room, stray' \subseteq Rooms,
           \A r \in Rooms : HotelOf[r] # request[q].at /\ r \in stray => r \in stray',
           \A r \in ActiveRooms(request[q].at) :
               \/ next.state = "active" \/ to = "rooms" \/ r \in stray'
               \/ hotel[request[q].at].state = next.state /\ stray' = stray
    PROVE  Inv'
<1> DEFINE h == request[q].at
<1>1. request[q].pc = "write" /\ h \in Hotels /\ (HotelIs(h, "absent") <=> Creating(q))
    BY Parts DEF Written, Step, RequestsHold, RequestHolds
<1>2. /\ hotel'[h] = next /\ \A g \in Hotels : g # h => hotel'[g] = hotel[g]
      /\ StoreTyped'
    BY <1>1, Parts DEF StoreTyped
<1>3. /\ \A g \in Hotels : HotelIs(g, "absent")' => HotelIs(g, "absent")
      /\ \A r \in Rooms : RoomIs(r, "absent")' => RoomIs(r, "absent")
      /\ \A g \in Hotels : HotelIs(g, "absent") /\ ~HotelIs(g, "absent")' => Creating(q) /\ h = g
    BY <1>1, <1>2 DEF HotelIs, RoomIs
<1>4. RoomsBelong'
    <2>1. \A r \in Rooms : HotelOf[r] \in Hotels /\ (HotelIs(HotelOf[r], "absent") => RoomIs(r, "absent"))
        BY Parts, InventoryAssumption DEF RoomsBelong
    <2> QED BY <1>3, <2>1 DEF RoomsBelong, RoomIs, HotelIs
<1>5. NoOrphanRooms'
    <2> SUFFICES ASSUME NEW r \in Rooms, RoomIs(r, "active"), ~HotelIs(HotelOf[r], "active")',
                        ~BeingDeleted(HotelOf[r])'
                 PROVE  r \in stray'
        BY DEF NoOrphanRooms, RoomIs
    <2>1. /\ request' \in [Requests -> RequestRecord]
          /\ \A p \in Requests : p # q => request'[p] = request[p]
          /\ request'[q].pc = to /\ request'[q].at = h
        BY Parts, Stepped DEF Written, RequestPoints
    <2>2. ~BeingDeleted(HotelOf[r])
        BY <1>1, <2>1 DEF BeingDeleted
    <2>3. CASE HotelOf[r] = h
        <3>1. r \in ActiveRooms(h) /\ next.state # "active"
            BY <1>2, <2>3 DEF ActiveRooms, HotelIs
        <3>2. to # "rooms"
            BY <2>1, <2>3 DEF BeingDeleted
        <3>3. CASE hotel[h].state = next.state /\ stray' = stray
            BY <2>2, <2>3, <3>1, <3>3, Parts DEF NoOrphanRooms, HotelIs
        <3> QED BY <3>1, <3>2, <3>3
    <2>4. CASE HotelOf[r] # h
        <3>1. ~HotelIs(HotelOf[r], "active")
            BY <1>2, <2>4, InventoryAssumption DEF HotelIs
        <3>2. r \in stray
            BY <2>2, <3>1, Parts DEF NoOrphanRooms
        <3> QED BY <2>4, <3>2
    <2> QED BY <2>3, <2>4
<1> QED BY <1>2, <1>3, <1>4, <1>5, WriteKeeps

LEMMA HotelWritesKeep ==
    ASSUME Inv, NEW q \in Requests, UNCHANGED <<script, faults>>,
           InsertHotel(q) \/ SaveHotel(q) \/ ShowHotel(q) \/ ConcealHotel(q) \/ DeleteHotel(q)
    PROVE  Inv'
<1> DEFINE h == request[q].at
           in(s) == [hotel[h] EXCEPT !.state = s]
<1>1. request[q].pc = "write" /\ request[q].deed \in HotelDeeds
    BY DEF InsertHotel, SaveHotel, ShowHotel, ConcealHotel, DeleteHotel, Writing, HotelDeeds
<1>2. h \in Hotels
    BY <1>1, Parts DEF RequestsHold, RequestHolds
<1>3. hotel[h] \in [state : States, name : {"old", "new"}] /\ stray \subseteq Rooms
    BY <1>2, Parts DEF StoreTyped
<1>4. ASSUME NEW s \in {"active", "inactive"}
      PROVE  in(s) \in [state : States, name : {"old", "new"}] /\ in(s).state = s
    BY <1>3 DEF States
<1>5. AfterWrite(q) \in {"keys", "audit"}
    BY DEF AfterWrite
<1>6. ASSUME ActivateHotel(h), Written(q, AfterWrite(q)) PROVE Inv'
    <2>1. /\ hotel' = [hotel EXCEPT ![h] = in("active")]
          /\ stray' = {r \in stray : HotelOf[r] # h} /\ UNCHANGED room
        BY <1>6 DEF ActivateHotel, SetHotel
    <2> HIDE DEF in
    <2> QED BY <1>1, <1>3, <1>4, <1>5, <1>6, <2>1, HotelWriteKeeps
<1>7. ASSUME HideHotel(h), Written(q, AfterWrite(q)) PROVE Inv'
    <2>1. /\ hotel' = [hotel EXCEPT ![h] = in("inactive")]
          /\ stray' = stray \cup ActiveRooms(h) /\ UNCHANGED room
        BY <1>7 DEF HideHotel, SetHotel
    <2>2. ActiveRooms(h) \subseteq Rooms
        BY DEF ActiveRooms
    <2> HIDE DEF in
    <2> QED BY <1>1, <1>3, <1>4, <1>5, <1>7, <2>1, <2>2, HotelWriteKeeps
<1>8. CASE SaveHotel(q)
    <2> DEFINE next == [hotel[h] EXCEPT !.name = "new"]
    <2>1. hotel' = [hotel EXCEPT ![h] = next] /\ UNCHANGED <<room, stray>> /\ Written(q, AfterWrite(q))
        BY <1>8 DEF SaveHotel, RenameHotel
    <2>2. next \in [state : States, name : {"old", "new"}] /\ next.state = hotel[h].state
        BY <1>3
    <2> HIDE DEF next
    <2> QED BY <1>1, <1>3, <1>5, <2>1, <2>2, HotelWriteKeeps DEF HotelIs
<1>9. CASE DeleteHotel(q)
    <2>1. /\ hotel' = [hotel EXCEPT ![h] = in("inactive")]
          /\ UNCHANGED <<room, stray>> /\ Written(q, "rooms") /\ request[q].deed = "deleteHotel"
        BY <1>9 DEF DeleteHotel, MarkHotelDeleted, SetHotel, Writing
    <2> HIDE DEF in
    <2> QED BY <1>1, <1>3, <1>4, <2>1, HotelWriteKeeps
<1> QED BY <1>6, <1>7, <1>8, <1>9 DEF InsertHotel, ShowHotel, ConcealHotel

\* A request writes the room it is about.
LEMMA RoomWriteKeeps ==
    ASSUME Inv, NEW q \in Requests, UNCHANGED <<script, faults>>,
           request[q].deed \in RoomDeeds, NEW s \in {"active", "inactive"},
           SetRoom(request[q].at, s), Written(q, AfterWrite(q))
    PROVE  Inv'
<1> DEFINE x == request[q].at
<1>1. /\ request[q].pc = "write" /\ x \in Rooms /\ HotelOf[x] \in Hotels
      /\ ~HotelIs(HotelOf[x], "absent")
    BY Parts, InventoryAssumption DEF Written, Step, RequestsHold, RequestHolds
<1>2. /\ room' = [room EXCEPT ![x] = s] /\ UNCHANGED hotel
      /\ stray' = IF s = "active" /\ ~HotelIs(HotelOf[x], "active") THEN stray \cup {x} ELSE stray \ {x}
    BY DEF SetRoom
<1>3. room'[x] = s /\ (\A r \in Rooms : r # x => room'[r] = room[r]) /\ StoreTyped'
    BY <1>1, <1>2, Parts DEF StoreTyped, States
<1>4. /\ \A h \in Hotels : HotelIs(h, "absent")' <=> HotelIs(h, "absent")
      /\ \A r \in Rooms : RoomIs(r, "absent")' => RoomIs(r, "absent")
    BY <1>2, <1>3 DEF HotelIs, RoomIs
<1>5. RoomsBelong'
    BY <1>1, <1>2, <1>3, Parts DEF RoomsBelong, HotelIs, RoomIs
<1>6. NoOrphanRooms'
    <2> SUFFICES ASSUME NEW r \in Rooms, RoomIs(r, "active")', ~HotelIs(HotelOf[r], "active"),
                        ~BeingDeleted(HotelOf[r])'
                 PROVE  r \in stray'
        BY <1>2 DEF NoOrphanRooms, HotelIs
    <2>1. \A p \in Requests : p # q => request'[p] = request[p]
        BY Parts, Stepped DEF Written, AfterWrite, RequestPoints
    <2>2. ~BeingDeleted(HotelOf[r])
        BY <1>1, <2>1, DeletionsGoOn
    <2>3. CASE r = x
        BY <1>2, <1>3, <2>3 DEF RoomIs
    <2>4. CASE r # x
        BY <1>2, <1>3, <2>2, <2>4, Parts DEF NoOrphanRooms, RoomIs
    <2> QED BY <2>3, <2>4
<1>7. AfterWrite(q) \in {"keys", "audit"}
    BY DEF AfterWrite
<1> QED BY <1>3, <1>4, <1>5, <1>6, <1>7, WriteKeeps

LEMMA RoomWritesKeep ==
    ASSUME Inv, NEW q \in Requests, UNCHANGED <<script, faults>>,
           InsertRoom(q) \/ ShowRoom(q) \/ CloseRoom(q)
    PROVE  Inv'
<1>1. CASE InsertRoom(q) /\ ~RoomIs(request[q].at, "absent")
    <2>1. Step(q, "write", "done") /\ UNCHANGED <<storeVars, cacheVars>>
        BY <1>1 DEF InsertRoom
    <2>2. ~Pending(q)
        BY <2>1 DEF Step, Pending
    <2> QED BY <2>1, <2>2, StepKeeps DEF RequestPoints
<1>2. CASE InsertRoom(q) /\ RoomIs(request[q].at, "absent")
    <2>1. PICK s \in {"active", "inactive"} : SetRoom(request[q].at, s)
        BY <1>2 DEF InsertRoom
    <2>2. Written(q, AfterWrite(q)) /\ request[q].deed \in RoomDeeds
        BY <1>2 DEF InsertRoom, Writing, RoomDeeds
    <2> QED BY <2>1, <2>2, RoomWriteKeeps
<1>3. CASE ShowRoom(q) \/ CloseRoom(q)
    <2>1. PICK s \in {"active", "inactive"} : SetRoom(request[q].at, s)
        BY <1>3 DEF ShowRoom, CloseRoom
    <2>2. Written(q, AfterWrite(q)) /\ request[q].deed \in RoomDeeds
        BY <1>3 DEF ShowRoom, CloseRoom, Writing, RoomDeeds
    <2> QED BY <2>1, <2>2, RoomWriteKeeps
<1> QED BY <1>1, <1>2, <1>3

LEMMA DeleteRoomsKeeps ==
    ASSUME Inv, NEW q \in Requests, DeleteRooms(q), UNCHANGED <<script, faults>>
    PROVE  Inv'
<1> DEFINE h == request[q].at
           some == ActiveRooms(h)
<1>1. /\ request[q].pc = "rooms" /\ h \in Hotels /\ request[q].deed = "deleteHotel" /\ Invalidates(q)
    BY Parts DEF DeleteRooms, Step, RequestsHold, RequestHolds, HotelDeeds
<1>2. /\ request' \in [Requests -> RequestRecord]
      /\ \A p \in Requests : p # q => request'[p] = request[p]
      /\ request'[q].pc \in {"keys", "audit"} /\ request'[q].at = h
      /\ request'[q].api = request[q].api
    BY Parts, Stepped DEF DeleteRooms, AfterWrite, RequestPoints
<1>3. /\ room' = [r \in Rooms |-> IF r \in some THEN "inactive" ELSE room[r]]
      /\ stray' = stray \ some /\ UNCHANGED hotel /\ some \subseteq Rooms
    BY DEF DeleteRooms, DeactivateRooms, ActiveRooms
<1> HIDE DEF some
<1>4. StoreTyped'
    BY <1>3, Parts DEF StoreTyped, States
<1>5. /\ \A r \in Rooms : RoomIs(r, "absent")' <=> RoomIs(r, "absent")
      /\ \A r \in Rooms : RoomIs(r, "active")' => RoomIs(r, "active") /\ r \notin some
    BY <1>3 DEF RoomIs, some, ActiveRooms
<1>6. RoomsBelong'
    BY <1>3, <1>5, Parts DEF RoomsBelong, HotelIs
<1>7. NoOrphanRooms'
    <2> SUFFICES ASSUME NEW r \in Rooms, RoomIs(r, "active")', ~HotelIs(HotelOf[r], "active"),
                        ~BeingDeleted(HotelOf[r])'
                 PROVE  r \in stray'
        BY <1>3 DEF NoOrphanRooms, HotelIs
    <2>1. RoomIs(r, "active") /\ r \notin some /\ HotelOf[r] # h
        BY <1>5 DEF some, ActiveRooms
    <2>2. ~BeingDeleted(HotelOf[r])
        BY <1>2, <2>1 DEF BeingDeleted
    <2> QED BY <1>3, <2>1, <2>2, Parts DEF NoOrphanRooms
<1>8. RequestsHold'
    <2>1. RequestHolds(q)' /\ ~Creating(q)'
        BY <1>2 DEF RequestHolds, Creating
    <2> QED BY <1>2, <1>3, <1>5, <2>1, Parts, RequestsKeep DEF HotelIs
<1>9. CacheTyped' /\ ListsHold'
    <2>1. Outdates(TRUE) /\ UNCHANGED <<cache, fill>>
        BY DEF DeleteRooms
    <2>2. Pending(q)' /\ \A p \in Requests : Pending(p) => Pending(p)'
        BY <1>1, <1>2 DEF Pending, Invalidates
    <2> QED BY <2>1, <2>2, Parts, CacheOutdated
<1>10. RestTyped'
    BY Parts DEF RestTyped
<1> QED BY <1>2, <1>4, <1>6, <1>7, <1>8, <1>9, <1>10, Together

LEMMA ServeRequestKeeps ==
    ASSUME Inv, NEW q \in Requests, ServeRequest(q)
    PROVE  Inv'
BY ReceiveKeeps, ReadHotelOfRoomKeeps, HotelWritesKeep, RoomWritesKeep, DeleteRoomsKeeps,
   WriteAuditKeeps, FindCacheKeysKeeps, DropCacheKeysKeeps
   DEF ServeRequest, Proceed, WriteInventory

-----------------------------------------------------------------------------
(***************************************************************************)
(* List requests, the time to live and the script.                         *)
(***************************************************************************)
LEMMA StandsStill ==
    ASSUME Inv, UNCHANGED <<storeVars, request>>, RestTyped', CacheTyped', ListsHold'
    PROVE  Inv'
<1>1. UNCHANGED <<hotel, room, stray, request>>
    BY DEF storeVars
<1>2. RequestsHold'
    BY <1>1, Parts DEF RequestsHold, RequestHolds, Creating, Invalidates, HotelIs, RoomIs
<1>3. StoreTyped' /\ RoomsBelong' /\ NoOrphanRooms' /\ (request \in [Requests -> RequestRecord])'
    BY <1>1, Parts DEF StoreTyped, RoomsBelong, NoOrphanRooms, BeingDeleted, HotelIs, RoomIs
<1> QED BY <1>2, <1>3, Together

\* One fill changes, the entry stays.
LEMMA FillChanges ==
    ASSUME Inv, NEW v \in Viewers, UNCHANGED <<storeVars, request, script, cache>>, RestTyped',
           NEW next \in [pc : {"idle", "miss", "hotels", "rooms"}, list : List \cup {NoList}],
           fill' = [fill EXCEPT ![v] = next],
           late' = late \/ (next.pc = "idle" /\ late' = late \ {v}),
           next.pc \in {"hotels", "rooms"} => next.list \in List,
           next.pc = "hotels" /\ v \notin late => next.list.hotels = Listing.hotels,
           next.pc = "rooms" /\ v \notin late => next.list = Listing
    PROVE  Inv'
<1>1. Listing' = Listing
    BY ListingSame DEF storeVars
<1>2. CacheTyped'
    BY Parts DEF CacheTyped, List
<1>3. fill'[v] = next /\ \A w \in Viewers : w # v => fill'[w] = fill[w]
    BY Parts DEF CacheTyped
<1>4. ASSUME NEW w \in Viewers PROVE FillHolds(w)'
    <2>1. CASE w = v
        BY <1>1, <1>3, <2>1 DEF FillHolds, List
    <2>2. CASE w # v
        BY <1>1, <1>3, <2>2, Parts DEF ListsHold, FillHolds, List
    <2> QED BY <2>1, <2>2
<1>5. CachedListIsCurrent'
    <2>1. Entry \notin late' => Entry \notin late
        BY CacheAssumption
    <2> QED BY <1>1, <2>1, Parts DEF ListsHold, CachedListIsCurrent, Pending, Invalidates
<1> QED BY <1>2, <1>4, <1>5, StandsStill DEF ListsHold

LEMMA NoFillTyped ==
    /\ NoFill \in [pc : {"idle", "miss", "hotels", "rooms"}, list : List \cup {NoList}]
    /\ NoFill.pc = "idle"
BY DEF NoFill

LEMMA RoomsOfListing ==
    ASSUME StoreTyped
    PROVE  UNION {ActiveRooms(h) : h \in {pair[1] : pair \in Listing.hotels}} = Listing.rooms
<1>1. Listing.hotels = {<<h, hotel[h].name>> : h \in {g \in Hotels : HotelIs(g, "active")}}
    BY DEF Listing
<1>2. {pair[1] : pair \in Listing.hotels} = {g \in Hotels : HotelIs(g, "active")}
    <2> DEFINE active == {g \in Hotels : HotelIs(g, "active")}
               pairs == Listing.hotels
    <2>1. ASSUME NEW pair \in pairs PROVE pair[1] \in active
        <3>1. PICK g \in active : pair = <<g, hotel[g].name>>
            BY <1>1, <2>1
        <3> QED BY <3>1
    <2>2. ASSUME NEW g \in active PROVE \E pair \in pairs : pair[1] = g
        <3>1. <<g, hotel[g].name>> \in pairs /\ <<g, hotel[g].name>>[1] = g
            BY <1>1, <2>2
        <3> QED BY <3>1
    <2> HIDE DEF active, pairs
    <2>3. {pair[1] : pair \in pairs} = active
        BY <2>1, <2>2
    <2> QED BY <2>3 DEF active, pairs
<1>3. Listing.rooms = {r \in Rooms : RoomIs(r, "active") /\ HotelIs(HotelOf[r], "active")}
    BY DEF Listing, Bookable
<1> QED BY <1>2, <1>3, InventoryAssumption DEF ActiveRooms

LEMMA ServeListKeeps ==
    ASSUME Inv, NEW v \in Viewers, ServeList(v)
    PROVE  Inv'
<1>1. UNCHANGED <<storeVars, request, script, faults>> /\ FillStep(v)
    BY DEF ServeList, FillStep, MissCache, FindHotels, FindRooms, WriteListCache
<1>2. /\ RestTyped'
      /\ fill[v] \in [pc : {"idle", "miss", "hotels", "rooms"}, list : List \cup {NoList}]
      /\ fill \in [Viewers -> [pc : {"idle", "miss", "hotels", "rooms"}, list : List \cup {NoList}]]
      /\ FillHolds(v) /\ Listing \in List
    BY <1>1, Parts, ListingTyped DEF RestTyped, CacheTyped, ListsHold
<1>3. CASE MissCache(v)
    <2> DEFINE next == [fill[v] EXCEPT !.pc = "miss"]
    <2>1. /\ next \in [pc : {"idle", "miss", "hotels", "rooms"}, list : List \cup {NoList}]
          /\ next.pc = "miss"
          /\ fill' = [fill EXCEPT ![v] = next] /\ UNCHANGED <<cache, late>>
        BY <1>2, <1>3 DEF MissCache
    <2> HIDE DEF next
    <2> QED BY <1>1, <1>2, <2>1, FillChanges
<1>4. CASE FindHotels(v)
    <2> DEFINE next == [pc |-> "hotels", list |-> [hotels |-> Listing.hotels, rooms |-> {}]]
    <2>1. /\ next.list \in List /\ next.list.hotels = Listing.hotels
          /\ next \in [pc : {"idle", "miss", "hotels", "rooms"}, list : List \cup {NoList}]
          /\ next.pc = "hotels"
        BY <1>2 DEF List
    <2>2. fill' = [fill EXCEPT ![v] = next] /\ UNCHANGED <<cache, late>>
        BY <1>4 DEF FindHotels
    <2> HIDE DEF next
    <2> QED BY <1>1, <1>2, <2>1, <2>2, FillChanges
<1>5. CASE FindRooms(v)
    <2> DEFINE rooms == UNION {ActiveRooms(h) : h \in {pair[1] : pair \in fill[v].list.hotels}}
               list == [fill[v].list EXCEPT !.rooms = rooms]
               next == [fill[v] EXCEPT !.pc = "rooms", !.list = list]
    <2>1. fill[v].pc = "hotels" /\ fill[v].list \in List /\ rooms \subseteq Rooms
        BY <1>2, <1>5 DEF FindRooms, FillHolds, ActiveRooms
    <2>2. v \notin late => rooms = Listing.rooms /\ fill[v].list.hotels = Listing.hotels
        BY <1>2, <2>1, Parts, RoomsOfListing DEF FillHolds
    <2>3. fill' = [fill EXCEPT ![v].pc = "rooms", ![v].list.rooms = rooms] /\ UNCHANGED <<cache, late>>
        BY <1>5 DEF FindRooms
    <2> HIDE DEF rooms
    <2>4. list \in List /\ (v \notin late => list = Listing)
        BY <1>2, <2>1, <2>2 DEF List
    <2>5. fill' = [fill EXCEPT ![v] = next]
        BY <1>2, <2>3
    <2> HIDE DEF list
    <2>6. /\ next \in [pc : {"idle", "miss", "hotels", "rooms"}, list : List \cup {NoList}]
          /\ next.pc = "rooms" /\ next.list = list
        BY <1>2, <2>4
    <2> HIDE DEF next
    <2> QED BY <1>1, <1>2, <2>3, <2>4, <2>5, <2>6, FillChanges
<1>6. CASE WriteListCache(v)
    <2>1. /\ fill[v].pc = "rooms" /\ fill[v].list \in List
          /\ cache' = [list |-> fill[v].list, expires |-> TRUE]
          /\ fill' = [fill EXCEPT ![v] = NoFill]
          /\ late' = IF v \in late THEN (late \ {v}) \cup {Entry} ELSE late \ {Entry}
        BY <1>2, <1>6 DEF WriteListCache, FillHolds
    <2>2. Listing' = Listing
        BY <1>1, ListingSame DEF storeVars
    <2>3. CacheTyped'
        BY <1>2, <2>1, Parts, NoFillTyped DEF CacheTyped, List
    <2>4. ASSUME NEW w \in Viewers PROVE FillHolds(w)'
        <3>1. w # v => fill'[w] = fill[w] /\ (w \in late' <=> w \in late)
            BY <1>2, <2>1, CacheAssumption
        <3>2. w = v => fill'[w].pc = "idle"
            BY <1>2, <2>1, NoFillTyped
        <3> QED BY <2>2, <3>1, <3>2, Parts DEF ListsHold, FillHolds, List
    <2>5. CachedListIsCurrent'
        <3>1. CASE v \in late
            BY <2>1, <3>1 DEF CachedListIsCurrent
        <3>2. CASE v \notin late
            <4>1. cache'.list = Listing'
                BY <1>2, <2>1, <2>2, <3>2 DEF FillHolds
            <4> QED BY <4>1 DEF CachedListIsCurrent
        <3> QED BY <3>1, <3>2
    <2> QED BY <1>1, <1>2, <2>3, <2>4, <2>5, StandsStill DEF ListsHold
<1> QED BY <1>1, <1>3, <1>4, <1>5, <1>6 DEF FillStep

LEMMA FillFailsKeeps ==
    ASSUME Inv, NEW v \in Viewers, FillFails(v), UNCHANGED <<request, script>>, RestTyped'
    PROVE  Inv'
BY NoFillTyped, FillChanges DEF FillFails

LEMMA CacheTTLKeeps ==
    ASSUME Inv, CacheTTL
    PROVE  Inv'
<1>1. /\ cache' = NoList /\ late' = late \ {Entry} /\ UNCHANGED <<fill, storeVars, request, script, faults>>
    BY DEF CacheTTL, EntryExpires
<1>2. CacheTyped' /\ RestTyped'
    BY <1>1, Parts DEF CacheTyped, List, RestTyped
<1>3. ListsHold'
    <2>1. Listing' = Listing
        BY <1>1, ListingSame DEF storeVars
    <2>2. \A v \in Viewers : v \in late' <=> v \in late
        BY <1>1, CacheAssumption
    <2>3. \A v \in Viewers : FillHolds(v)'
        BY <1>1, <2>1, <2>2, Parts DEF ListsHold, FillHolds, List
    <2>4. CachedListIsCurrent'
        BY <1>1 DEF CachedListIsCurrent
    <2> QED BY <2>3, <2>4 DEF ListsHold
<1> QED BY <1>1, <1>2, <1>3, StandsStill

LEMMA ScriptKeeps ==
    ASSUME Inv, ScriptHotels \/ ScriptRooms
    PROVE  Inv'
<1>1. UNCHANGED <<cache, fill, request, faults>> /\ Outdates(FALSE)
    BY DEF ScriptHotels, ScriptRooms
<1>2. CacheTyped' /\ ListsHold'
    <2>1. \A p \in Requests : Pending(p) => Pending(p)'
        BY <1>1 DEF Pending, Invalidates
    <2> QED BY <1>1, <2>1, Parts, CacheOutdated
<1>3. RestTyped' /\ (request \in [Requests -> RequestRecord])'
    BY <1>1, Parts DEF RestTyped, ScriptHotels, ScriptRooms
<1>4. StoreTyped'
    <2>1. CASE ScriptHotels
        <3>1. \A h \in Hotels : [hotel[h] EXCEPT !.state = "active"] \in [state : States, name : {"old", "new"}]
            BY Parts DEF StoreTyped, States
        <3>2. /\ hotel' = [h \in Hotels |-> IF HotelIs(h, "absent") THEN hotel[h]
                                            ELSE [hotel[h] EXCEPT !.state = "active"]]
              /\ stray' = {} /\ UNCHANGED room
            BY <2>1 DEF ScriptHotels
        <3> QED BY <3>1, <3>2, Parts DEF StoreTyped
    <2>2. CASE ScriptRooms
        <3>1. /\ room' = [r \in Rooms |-> IF RoomIs(r, "absent") THEN "absent" ELSE "active"]
              /\ stray' \subseteq Rooms /\ UNCHANGED hotel
            BY <2>2 DEF ScriptRooms
        <3> QED BY <3>1, Parts DEF StoreTyped, States
    <2> QED BY <2>1, <2>2
<1>5. /\ \A h \in Hotels : HotelIs(h, "absent")' <=> HotelIs(h, "absent")
      /\ \A r \in Rooms : RoomIs(r, "absent")' <=> RoomIs(r, "absent")
    BY Parts DEF StoreTyped, ScriptHotels, ScriptRooms, HotelIs, RoomIs
<1>6. RoomsBelong'
    BY <1>5, Parts, InventoryAssumption DEF RoomsBelong
<1>7. RequestsHold'
    <2>1. ASSUME NEW q \in Requests PROVE RequestHolds(q)'
        <3>1. RequestHolds(q) /\ request'[q] = request[q] /\ Creating(q)' = Creating(q)
              /\ Invalidates(q)' = Invalidates(q)
            BY <1>1, Parts DEF RequestsHold, Creating, Invalidates
        <3>2. ASSUME request[q].pc \in {"write", "rooms"}, request[q].deed \in HotelDeeds
              PROVE  request[q].at \in Hotels /\ (HotelIs(request[q].at, "absent")' <=> Creating(q))
            BY <1>5, <3>1, <3>2 DEF RequestHolds
        <3>3. ASSUME request[q].pc \in {"hotel", "write"}, request[q].deed \in RoomDeeds
              PROVE  /\ request[q].at \in Rooms /\ ~HotelIs(HotelOf[request[q].at], "absent")'
                     /\ request[q].deed \in {"showRoom", "closeRoom"} => ~RoomIs(request[q].at, "absent")'
            BY <1>5, <3>1, <3>3, InventoryAssumption DEF RequestHolds
        <3> QED BY <3>1, <3>2, <3>3 DEF RequestHolds, HotelIs, RoomIs, RoomDeeds
    <2>2. \A p, q \in Requests : Creating(p)' /\ Creating(q)' /\ request'[p].at = request'[q].at => p = q
        BY <1>1, Parts DEF RequestsHold, Creating
    <2> QED BY <2>1, <2>2 DEF RequestsHold
<1>8. NoOrphanRooms'
    <2>1. CASE ScriptHotels
        <3> SUFFICES ASSUME NEW r \in Rooms, RoomIs(r, "active"), ~HotelIs(HotelOf[r], "active")'
                     PROVE  FALSE
            BY <2>1 DEF NoOrphanRooms, ScriptHotels, RoomIs
        <3>1. HotelOf[r] \in Hotels /\ ~HotelIs(HotelOf[r], "absent")
            BY Parts, InventoryAssumption DEF RoomsBelong, RoomIs
        <3>2. hotel' = [h \in Hotels |-> IF HotelIs(h, "absent") THEN hotel[h]
                                         ELSE [hotel[h] EXCEPT !.state = "active"]]
            BY <2>1 DEF ScriptHotels
        <3>3. hotel[HotelOf[r]] \in [state : States, name : {"old", "new"}]
            BY <3>1, Parts DEF StoreTyped
        <3> QED BY <3>1, <3>2, <3>3 DEF HotelIs
    <2>2. CASE ScriptRooms
        BY <2>2 DEF NoOrphanRooms, ScriptRooms, RoomIs, HotelIs
    <2> QED BY <2>1, <2>2
<1> QED BY <1>2, <1>3, <1>4, <1>6, <1>7, <1>8, Together

LEMMA DisturbKeeps ==
    ASSUME Inv, Disturb
    PROVE  Inv'
<1>1. RestTyped' /\ UNCHANGED script
    BY Parts, InventoryServiceAssumption DEF Disturb, RestTyped
<1> QED BY <1>1, RequestFailsKeeps, FillFailsKeeps DEF Disturb

-----------------------------------------------------------------------------
(***************************************************************************)
(* The theorems.                                                           *)
(***************************************************************************)
LEMMA InitHolds ==
    ASSUME Init
    PROVE  Inv
<1>1. /\ \A q \in Requests : request[q] = NewRequest
      /\ \A v \in Viewers : fill[v] = NoFill
      /\ cache = NoList /\ late = {} /\ stray = {} /\ faults = 0
      /\ script \in {"hotels", "done"}
    BY InventoryServiceAssumption DEF Init, RequestsInit, CacheInit, StoreInit
<1>2. \A q \in Requests : request[q].pc = "new"
    BY <1>1 DEF NewRequest
<1>3. StoreTyped
    <2>1. hotel \in [Hotels -> [state : {"absent", "active"}, name : {"old"}]]
          /\ room \in [Rooms -> {"absent", "active"}] /\ stray = {}
        BY DEF Init, StoreInit
    <2> QED BY <2>1 DEF StoreTyped, States
<1>4. /\ \A r \in Rooms : RoomIs(r, "active") => HotelIs(HotelOf[r], "active")
      /\ \A r \in Rooms : RoomIs(r, "active") \/ RoomIs(r, "absent")
    BY DEF Init, StoreInit, RoomIs, HotelIs
<1>5. RoomsBelong /\ NoOrphanRooms
    BY <1>4 DEF RoomsBelong, NoOrphanRooms, HotelIs, RoomIs
<1>6. RequestsHold
    BY <1>2 DEF RequestsHold, RequestHolds, Creating
<1>7. CacheTyped
    BY <1>1, NoFillTyped DEF Init, CacheInit, CacheTyped
<1>8. ListsHold
    BY <1>1, NoFillTyped DEF ListsHold, FillHolds, CachedListIsCurrent
<1>9. request \in [Requests -> RequestRecord] /\ RestTyped
    <2>1. NewRequest \in RequestRecord
        BY DEF NewRequest, RequestRecord, RequestPoints, Apis, Deeds
    <2> QED BY <1>1, <2>1, InventoryServiceAssumption DEF Init, RequestsInit, RestTyped
<1> QED BY <1>3, <1>5, <1>6, <1>7, <1>8, <1>9, TypeParts DEF Inv

LEMMA StepHolds ==
    ASSUME Inv, [Next]_vars
    PROVE  Inv'
<1>1. CASE UNCHANGED vars
    <2>1. UNCHANGED <<storeVars, cacheVars, request, script, faults>>
        BY <1>1 DEF vars
    <2>2. RestTyped'
        BY <2>1, Parts DEF RestTyped
    <2>3. CacheTyped' /\ ListsHold'
        BY <2>1, Parts, CacheStays DEF storeVars, Pending, Invalidates
    <2> QED BY <2>1, <2>2, <2>3, StandsStill
<1> QED BY <1>1, ServeRequestKeeps, ServeListKeeps, CacheTTLKeeps, ScriptKeeps, DisturbKeeps DEF Next

\* The invariant holds in every state of every instance.
THEOREM AlwaysInv == Spec => []Inv
<1> QED BY InitHolds, StepHolds, PTL DEF Spec

\* Every variable of the inventory, its requests and its cache has its type,
\* whatever the hotels, rooms, requests and viewers are.
THEOREM TypeCorrect == Spec => []TypeOK
<1>1. Inv => TypeOK
    BY DEF Inv
<1> QED BY <1>1, AlwaysInv, PTL

\* With no mutation under way the cached list is what the database would
\* answer, but for the exceptions the property names: for any number of list
\* requests and mutations that interleave at every await.
THEOREM CacheCorrect == Spec => []CachedListIsCurrent
<1>1. Inv => CachedListIsCurrent
    BY DEF Inv, ListsHold
<1> QED BY <1>1, AlwaysInv, PTL

\* An active room in a hotel that is not active, and not just being deleted, is one of
\* those the history `stray` names, however many requests work on both: it became active
\* in the inactive hotel (created or activated behind the deletion, or by the activation
\* script), or the hotel was hidden without being deleted (isActive = false in a PATCH, or
\* a rejection), or the deletion died before it came to the rooms.
THEOREM DeletionTakesRooms == Spec => []NoOrphanRooms
<1>1. Inv => NoOrphanRooms
    BY DEF Inv
<1> QED BY <1>1, AlwaysInv, PTL

\* No update under way brings a deleted hotel back.
THEOREM DeletedHotelsStay == Spec => DeletedStaysDeleted
<1>1. ASSUME Inv, [Next]_vars, NEW h \in Hotels, HotelIs(h, "inactive"), HotelIs(h, "active")'
      PROVE  Reopens(h)
    <2>1. hotel[h].state = "inactive" /\ hotel'[h].state = "active" /\ hotel'[h] # hotel[h]
        BY <1>1 DEF HotelIs
    <2>2. CASE ScriptHotels \/ ScriptRooms
        BY <2>1, <2>2 DEF ScriptHotels, ScriptRooms, Reopens
    <2>3. ASSUME NEW q \in Requests, ServeRequest(q) PROVE Reopens(h)
        <3> DEFINE x == request[q].at
        <3>1. CASE SaveHotel(q) \/ ConcealHotel(q) \/ DeleteHotel(q)
            <4>1. hotel'[h].state \in {hotel[h].state, "inactive"}
                BY <1>1, <3>1, Parts
                   DEF StoreTyped, SaveHotel, RenameHotel, ConcealHotel, HideHotel, DeleteHotel,
                       MarkHotelDeleted, SetHotel
            <4> QED BY <2>1, <4>1
        <3>2. CASE InsertHotel(q)
            <4>1. HotelIs(x, "absent") /\ x \in Hotels
                BY <1>1, <3>2, Parts
                   DEF InsertHotel, Writing, RequestsHold, RequestHolds, Creating, HotelDeeds
            <4>2. h = x
                BY <1>1, <2>1, <3>2, Parts DEF StoreTyped, InsertHotel, ActivateHotel, HideHotel, SetHotel
            <4> QED BY <2>1, <4>1, <4>2 DEF HotelIs
        <3>3. CASE ShowHotel(q)
            <4>1. h = x
                BY <1>1, <2>1, <3>3, Parts DEF StoreTyped, ShowHotel, ActivateHotel, SetHotel
            <4>2. request[q].pc = "write" /\ request[q].deed = "showHotel" /\ request'[q].pc # "write"
                BY <1>1, <3>3, Parts, Stepped DEF ShowHotel, Writing, Written, AfterWrite, RequestPoints
            <4> QED BY <4>1, <4>2 DEF Reopens
        <3>4. CASE UNCHANGED hotel
            BY <2>1, <3>4
        <3> QED BY <2>3, <3>1, <3>2, <3>3, <3>4
                DEF ServeRequest, Receive, CreateHotel, OwnerReadsHotel, AdminReadsHotel, ModeratorReadsHotel,
                    ReadHotelOfNewRoom, OwnerReadsRoom, AdminReadsRoom, Ask, Proceed, ReadHotelOfRoom,
                    WriteInventory, DeleteRooms, DeactivateRooms, InsertRoom, ShowRoom, CloseRoom, SetRoom,
                    WriteAudit, FindCacheKeys, DropCacheKeys, DropEntry, storeVars
    <2>4. ASSUME UNCHANGED hotel PROVE FALSE
        BY <2>1, <2>4
    <2>5. CASE \/ \E v \in Viewers : ServeList(v)
               \/ CacheTTL \/ Disturb \/ UNCHANGED vars
        BY <2>4, <2>5
           DEF ServeList, FillStep, MissCache, FindHotels, FindRooms, WriteListCache, CacheTTL, EntryExpires,
               Disturb, RequestFails, FillFails, vars, storeVars
    <2> QED BY <1>1, <2>2, <2>3, <2>5 DEF Next
<1>2. Inv /\ [Next]_vars =>
          [\A h \in Hotels : HotelIs(h, "inactive") /\ HotelIs(h, "active")' => Reopens(h)]_vars
    BY <1>1
<1> QED BY <1>2, AlwaysInv, PTL DEF Spec, DeletedStaysDeleted
=============================================================================
