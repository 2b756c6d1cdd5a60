--------------------------- MODULE CatalogueCache ---------------------------
(***************************************************************************)
(* The catalogue of RestaurantsService (restaurants, menus, popular items) *)
(* behind CacheService, a cache-aside over Redis:                          *)
(*                                                                         *)
(*    reader: get -> miss or error -> (restaurant exists?) -> load from    *)
(*            the database -> set with a time to live                      *)
(*    writer: write to the database -> delete the keys, one await after    *)
(*            the other                                                    *)
(*                                                                         *)
(* Every error of Redis is swallowed.  Requests interleave at each await,  *)
(* so a reader can put back what a writer has just invalidated; orders     *)
(* change the popular items and invalidate nothing.  Only the time to live *)
(* limits how long that lasts.                                             *)
(***************************************************************************)
EXTENDS Naturals, Sequences, Functions

CONSTANTS Restaurants,    \* ids, of rows that exist or will be created
          AllOfThem,      \* in a key: not of one restaurant
          Requesters,     \* processes: requests in flight
          NoKey, NoView,  \* null values
          ReadKeys,       \* bound: the keys that clients read
          MaxVersion,     \* bound on the writes to a restaurant and its menu
          MaxSales,       \* bound on the orders placed
          MaxMishaps      \* bound on failed awaits and deaths of the process

ASSUME CatalogueAssumption ==
    /\ AllOfThem \notin Restaurants
    /\ MaxVersion \in Nat /\ MaxSales \in Nat /\ MaxMishaps \in Nat

\* The cache name with the restaurant of the key, as in restaurants:<id>:menu.
Keys == {"detail", "menu", "popular"} \X Restaurants
        \cup {<<"list", AllOfThem>>, <<"popular", AllOfThem>>}

ASSUME KeyAssumption == NoKey \notin Keys /\ ReadKeys \subseteq Keys

VARIABLES version,   \* version[r]: counts the writes to r and its menu, 0: no row
          sold,      \* sold[r]: counts the orders placed at r
          cache,     \* cache[k]: what Redis holds and whether it expires
          request,   \* request[p]: the frame of the handler in flight
          raced,     \* history: keys of which a stale copy may have got away
          mishaps    \* how much of MaxMishaps is used

vars == <<version, sold, cache, request, raced, mishaps>>

-----------------------------------------------------------------------------
\* The restaurants a key shows, and what the database shows under it now.
Shown(k) == IF k[2] = AllOfThem THEN Restaurants ELSE {k[2]}

View(k) == [r \in Shown(k) |->
              [version |-> version[r],
               sold |-> IF k[1] = "popular" THEN sold[r] ELSE 0]]

Views == UNION {[R -> [version : Nat, sold : Nat]] :
                  R \in {Restaurants} \cup {{r} : r \in Restaurants}}

Absent == [view |-> NoView, expires |-> FALSE]

Idle == [pc |-> "idle", key |-> NoKey, view |-> NoView,
         left |-> <<>>, found |-> {}]

\* left: the sets of keys a writer has yet to delete; found: what SCAN returned.
Frames == [pc : {"idle", "checking", "loading", "filling", "deleting", "sweeping"},
           key : Keys \cup {NoKey},
           view : Views \cup {NoView},
           left : Seq(SUBSET Keys),
           found : SUBSET Keys]

CatalogueTypeOK ==
    /\ version \in [Restaurants -> Nat]
    /\ sold \in [Restaurants -> Nat]
    /\ cache \in [Keys -> [view : Views \cup {NoView}, expires : BOOLEAN]]
    /\ request \in [Requesters -> Frames]
    /\ raced \subseteq Keys
    /\ mishaps \in 0..MaxMishaps

Init ==
    /\ version \in [Restaurants -> {0, 1}]
    /\ sold = [r \in Restaurants |-> 0]
    /\ cache = [k \in Keys |-> Absent]
    /\ request = [p \in Requesters |-> Idle]
    /\ raced = {}
    /\ mishaps = 0

At(p, pc) == request[p].pc = pc
Finish(p) == request' = [request EXCEPT ![p] = Idle]
Mishap == mishaps < MaxMishaps /\ mishaps' = mishaps + 1
NoMishap == UNCHANGED mishaps

-----------------------------------------------------------------------------
(* A reader: findAll, findOne, findMenu, findPopularItems. *)

\* Mutant: the key is built without the id of the restaurant.
MissKeyless(p, k) ==
    /\ At(p, "idle")
    /\ request' = [request EXCEPT ![p].key = <<k[1], AllOfThem>>,
                     ![p].pc = IF k[1] = "menu" THEN "checking" ELSE "loading"]
    /\ UNCHANGED <<version, sold, cache, raced>>

\* getJson found nothing; findMenu goes on to ensureRestaurantExists.
Miss(p, k) ==
    /\ At(p, "idle")
    /\ request' = [request EXCEPT ![p].key = k,
                     ![p].pc = IF k[1] = "menu" THEN "checking" ELSE "loading"]
    /\ UNCHANGED <<version, sold, cache, raced>>

\* (A hit answers the request and changes nothing.)
Get(p, k) == cache[k] = Absent /\ Miss(p, k) /\ NoMishap

\* getJson swallows the error: a hit is treated as a miss.
GetFails(p, k) == cache[k] # Absent /\ Miss(p, k) /\ Mishap

CheckRestaurant(p) ==
    /\ At(p, "checking")
    /\ IF version[request[p].key[2]] > 0
       THEN request' = [request EXCEPT ![p].pc = "loading"]
       ELSE Finish(p)
    /\ NoMishap
    /\ UNCHANGED <<version, sold, cache, raced>>

\* The query; findOne answers 404 for a restaurant without a row.
Load(p) ==
    /\ At(p, "loading")
    /\ LET k == request[p].key IN
         IF k[1] = "detail" /\ version[k[2]] = 0
         THEN Finish(p)
         ELSE request' = [request EXCEPT ![p].pc = "filling", ![p].view = View(k)]
    /\ NoMishap
    /\ UNCHANGED <<version, sold, cache, raced>>

\* Mutant: SET without EX.
FillForEver(p) ==
    /\ At(p, "filling")
    /\ cache' = [cache EXCEPT ![request[p].key] =
                   [view |-> request[p].view, expires |-> FALSE]]
    /\ Finish(p)
    /\ NoMishap
    /\ UNCHANGED <<version, sold, raced>>

\* setJson with CACHE_TTL_SECONDS, and the answer.
Fill(p) ==
    /\ At(p, "filling")
    /\ cache' = [cache EXCEPT ![request[p].key] =
                   [view |-> request[p].view, expires |-> TRUE]]
    /\ Finish(p)
    /\ NoMishap
    /\ UNCHANGED <<version, sold, raced>>

\* The database rejects the query (the request fails), or Redis the set (the
\* error is swallowed and the request answered).
ReadFails(p) ==
    /\ request[p].pc \in {"checking", "loading", "filling"}
    /\ Finish(p)
    /\ Mishap
    /\ UNCHANGED <<version, sold, cache, raced>>

-----------------------------------------------------------------------------
(* A writer.  Its checks and the domain event at its end change nothing    *)
(* here; a write that the database rejects has no effect at all.           *)

PopularOfEach == {"popular"} \X Restaurants

\* Mutant: the keys of the restaurant itself are forgotten.
InvalidationsButDetail(r) ==
    << {<<"list", AllOfThem>>}, PopularOfEach, {<<"popular", AllOfThem>>},
       {<<"menu", r>>} >>

\* What invalidateRestaurantCaches(r) deletes, in its order.
Invalidations(r) ==
    << {<<"list", AllOfThem>>}, PopularOfEach, {<<"popular", AllOfThem>>},
       {<<"detail", r>>}, {<<"menu", r>>} >>

\* The handlers that hold data loaded before the write and will cache it.
OutrunKeys(r) == {request[p].key : p \in {q \in Requesters :
                     At(q, "filling") /\ r \in Shown(request[q].key)}}

Commit(p, r) ==
    /\ At(p, "idle")
    /\ version[r] < MaxVersion
    /\ version' = [version EXCEPT ![r] = @ + 1]
    /\ request' = [request EXCEPT ![p].pc = "deleting", ![p].left = Invalidations(r)]
    /\ raced' = raced \cup OutrunKeys(r)
    /\ NoMishap
    /\ UNCHANGED <<sold, cache>>

\* POST /restaurants.
CreateRestaurant(p, r) == version[r] = 0 /\ Commit(p, r)

\* The restaurant or a menu item of it is written: updateRestaurant,
\* updateRestaurantStatus, createMenuItem, updateMenuItem, removeMenuItem.
UpdateRestaurant(p, r) == version[r] > 0 /\ Commit(p, r)

\* On to the next deletion, or the answer.
NextDeletion(p) ==
    LET left == request[p].left IN
      request' = [request EXCEPT ![p] =
                    IF Len(left) = 1 THEN Idle
                    ELSE [Idle EXCEPT !.pc = "deleting", !.left = Tail(left)]]

Evicted(keys) == [k \in Keys |-> IF k \in keys THEN Absent ELSE cache[k]]

\* delete(key).
DeleteKey(p) ==
    /\ At(p, "deleting")
    /\ Head(request[p].left) # PopularOfEach
    /\ cache' = Evicted(Head(request[p].left))
    /\ NextDeletion(p)
    /\ NoMishap
    /\ UNCHANGED <<version, sold, raced>>

\* deleteByPattern: SCAN ...
ScanKeys(p) ==
    /\ At(p, "deleting")
    /\ Head(request[p].left) = PopularOfEach
    /\ LET found == {k \in PopularOfEach : cache[k] # Absent} IN
         IF found = {}
         THEN NextDeletion(p)
         ELSE request' = [request EXCEPT ![p].pc = "sweeping", ![p].found = found]
    /\ NoMishap
    /\ UNCHANGED <<version, sold, cache, raced>>

\* ... and DEL of what it found.
DeleteFound(p) ==
    /\ At(p, "sweeping")
    /\ cache' = Evicted(request[p].found)
    /\ NextDeletion(p)
    /\ NoMishap
    /\ UNCHANGED <<version, sold, raced>>

\* The keys that p is about to delete at once, and all those it has yet to delete.
NextKeys(p) == IF At(p, "sweeping") THEN request[p].found ELSE Head(request[p].left)

PendingKeys(p) ==
    CASE At(p, "deleting") -> UNION Range(request[p].left)
      [] At(p, "sweeping") -> request[p].found \cup UNION Range(Tail(request[p].left))
      [] OTHER -> {}

\* The deletion fails; the error is swallowed and the next one follows.
DeleteFails(p) ==
    /\ request[p].pc \in {"deleting", "sweeping"}
    /\ raced' = raced \cup NextKeys(p)
    /\ NextDeletion(p)
    /\ Mishap
    /\ UNCHANGED <<version, sold, cache>>

-----------------------------------------------------------------------------
(* Orders, time, and the death of the process. *)

\* createOrder adds to the order items that findPopularItems counts.
Sell(r) ==
    /\ version[r] > 0
    /\ sold[r] < MaxSales
    /\ sold' = [sold EXCEPT ![r] = @ + 1]
    /\ NoMishap
    /\ UNCHANGED <<version, cache, request, raced>>

\* The time to live of a key is over.
Expire(k) ==
    /\ cache[k].expires
    /\ cache' = Evicted({k})
    /\ NoMishap
    /\ UNCHANGED <<version, sold, request, raced>>

\* Frames are lost, the database and Redis stay.
Crash ==
    /\ Mishap
    /\ raced' = raced \cup UNION {PendingKeys(p) : p \in Requesters}
    /\ request' = [p \in Requesters |-> Idle]
    /\ UNCHANGED <<version, sold, cache>>

-----------------------------------------------------------------------------
\* What a request does of itself once it has been accepted.
Step(p) ==
    \/ CheckRestaurant(p) \/ Load(p) \/ Fill(p)
    \/ DeleteKey(p) \/ ScanKeys(p) \/ DeleteFound(p)

Next ==
    \/ \E p \in Requesters : Step(p) \/ ReadFails(p) \/ DeleteFails(p)
    \/ \E p \in Requesters, k \in ReadKeys : Get(p, k) \/ GetFails(p, k)
    \/ \E p \in Requesters, r \in Restaurants :
         CreateRestaurant(p, r) \/ UpdateRestaurant(p, r)
    \/ \E r \in Restaurants : Sell(r)
    \/ \E k \in Keys : Expire(k)
    \/ Crash

\* Promises settle, and Redis expires keys.
Fairness ==
    /\ \A p \in Requesters : WF_vars(Step(p))
    /\ \A k \in Keys : WF_vars(Expire(k))

Spec == Init /\ [][Next]_vars
FairSpec == Spec /\ Fairness

-----------------------------------------------------------------------------
\* A copy shows what the database shows, but for the numbers sold.
Current(k) == \A r \in Shown(k) : cache[k].view[r].version = version[r]

\* A copy of the catalogue is out of date only while a writer has yet to
\* delete it, or because a reader loaded it before that write and stored it
\* after, or because the deletion failed or died with its process
\* (invalidateRestaurantCaches misses no key, and deletes after the write).
StaleMeansRaced ==
    \A k \in Keys \ raced :
        \/ cache[k] = Absent
        \/ Current(k)
        \/ \E p \in Requesters : k \in PendingKeys(p)

\* Once the catalogue is written no more and nothing is sold, the cache comes
\* to show the database again and keeps to it, whatever raced, failed or died
\* before and however often it is read (the time to live of setJson).
CacheHeals ==
    <>[](\A k \in Keys : cache[k] = Absent \/ cache[k].view = View(k))
=============================================================================
