------------------------ MODULE CatalogueCacheProofs ------------------------
(***************************************************************************)
(* Proofs about CatalogueCache for any restaurants, any number of requests *)
(* in flight and any number of failures and restarts.                      *)
(***************************************************************************)
EXTENDS CatalogueCache, TLAPS, SequenceTheorems

-----------------------------------------------------------------------------
(* The strengthening of StaleMeansRaced. *)

\* A reader has a key, a writer has something left to delete.
FramesOK ==
    \A p \in Requesters :
        /\ request[p].pc \in {"checking", "loading", "filling"} => request[p].key \in Keys
        /\ request[p].pc \in {"deleting", "sweeping"} => request[p].left # <<>>

\* What a reader is about to cache is current, or it was outrun by a writer.
LoadsAreCurrent ==
    \A p \in Requesters : At(p, "filling") /\ request[p].key \notin raced =>
        \A r \in Shown(request[p].key) : request[p].view[r].version = version[r]

CatalogueInv ==
    /\ CatalogueTypeOK
    /\ FramesOK
    /\ LoadsAreCurrent
    /\ StaleMeansRaced

-----------------------------------------------------------------------------
(* The keys that a writer deletes. *)

\* Dropping the head of what is left forgets the head and nothing else.
LEMMA TailIsRest ==
  ASSUME NEW S, NEW left \in Seq(SUBSET S), left # <<>>
  PROVE  /\ Tail(left) \in Seq(SUBSET S)
         /\ Len(left) = 1 => UNION Range(Tail(left)) = {}
         /\ Len(left) # 1 => Tail(left) # <<>>
         /\ UNION Range(left) = Head(left) \cup UNION Range(Tail(left))
  <1>1. Len(left) \in Nat /\ Len(left) >= 1 /\ DOMAIN left = 1..Len(left)
    OBVIOUS
  <1>2. /\ Tail(left) \in Seq(SUBSET S)
        /\ Len(Tail(left)) = Len(left) - 1
        /\ DOMAIN Tail(left) = 1..(Len(left) - 1)
        /\ \A i \in 1..(Len(left) - 1) : Tail(left)[i] = left[i + 1]
    BY HeadTailProperties, <1>1
  <1>3. \A i \in DOMAIN left : i = 1 \/ (i - 1 \in DOMAIN Tail(left) /\ Tail(left)[i - 1] = left[i])
    BY <1>1, <1>2
  <1>4. \A i \in DOMAIN Tail(left) : i + 1 \in DOMAIN left /\ Tail(left)[i] = left[i + 1]
    BY <1>1, <1>2
  <1>5. 1 \in DOMAIN left /\ Head(left) = left[1]
    BY <1>1
  <1>6. Range(left) = {Head(left)} \cup Range(Tail(left))
    <2>1. ASSUME NEW i \in DOMAIN left
          PROVE  left[i] \in {Head(left)} \cup Range(Tail(left))
      BY <1>3, <1>5 DEF Range
    <2>2. Head(left) \in Range(left)
      BY <1>5 DEF Range
    <2>3. ASSUME NEW i \in DOMAIN Tail(left)
          PROVE  Tail(left)[i] \in Range(left)
      BY <1>4 DEF Range
    <2>4. QED  BY <2>1, <2>2, <2>3 DEF Range
  <1>7. UNION Range(left) = Head(left) \cup UNION Range(Tail(left))
    <2>1. \A x : x \in UNION Range(left)
                   <=> x \in Head(left) \/ x \in UNION Range(Tail(left))
      BY <1>6
    <2>2. QED  BY <2>1
  <1>8. ASSUME Len(left) = 1 PROVE UNION Range(Tail(left)) = {}
    <2>1. DOMAIN Tail(left) = {}
      BY <1>2, <1>8
    <2>2. QED  BY <2>1 DEF Range
  <1>9. ASSUME Len(left) # 1 PROVE Tail(left) # <<>>
    <2>1. Len(Tail(left)) # 0
      BY <1>1, <1>2, <1>9
    <2>2. QED  BY <2>1, EmptySeq
  <1>10. QED  BY <1>2, <1>7, <1>8, <1>9

\* invalidateRestaurantCaches(r) misses no key that shows r.
LEMMA InvalidationsCover ==
  ASSUME NEW r \in Restaurants
  PROVE  /\ Invalidations(r) \in Seq(SUBSET Keys)
         /\ Invalidations(r) # <<>>
         /\ \A k \in Keys : r \in Shown(k) => k \in UNION Range(Invalidations(r))
  <1> DEFINE inv == Invalidations(r)
  <1>1. /\ {<<"list", AllOfThem>>} \in SUBSET Keys
        /\ PopularOfEach \in SUBSET Keys
        /\ {<<"popular", AllOfThem>>} \in SUBSET Keys
        /\ {<<"detail", r>>} \in SUBSET Keys
        /\ {<<"menu", r>>} \in SUBSET Keys
    BY DEF Keys, PopularOfEach
  <1>2. inv \in Seq(SUBSET Keys) /\ inv # <<>> /\ DOMAIN inv = 1..5
    BY <1>1 DEF Invalidations
  <1>3. /\ inv[1] = {<<"list", AllOfThem>>} /\ inv[2] = PopularOfEach
        /\ inv[3] = {<<"popular", AllOfThem>>} /\ inv[4] = {<<"detail", r>>}
        /\ inv[5] = {<<"menu", r>>}
    BY DEF Invalidations
  <1>4. ASSUME NEW k \in Keys, r \in Shown(k)
        PROVE  \E i \in 1..5 : k \in inv[i]
    <2>1. CASE k = <<"list", AllOfThem>> \/ k = <<"popular", AllOfThem>>
      BY <2>1, <1>3
    <2>2. CASE k \in {"detail", "menu", "popular"} \X Restaurants
      <3>1. k[2] # AllOfThem
        BY <2>2, CatalogueAssumption
      <3>2. k[2] = r
        BY <3>1, <1>4 DEF Shown
      <3>3. k = <<"detail", r>> \/ k = <<"menu", r>> \/ k \in PopularOfEach
        BY <3>2, <2>2 DEF PopularOfEach
      <3>4. QED  BY <3>3, <1>3
    <2>3. QED  BY <2>1, <2>2 DEF Keys
  <1>5. QED  BY <1>2, <1>4 DEF Range

\* No request in flight.
LEMMA IdleIsFrame == Idle \in Frames
  BY EmptySeq DEF Idle, Frames

\* Deleting the next key leaves the others pending.
LEMMA NextDeletionFrames ==
  ASSUME CatalogueInv, NEW p \in Requesters, NextDeletion(p),
         request[p].pc \in {"deleting", "sweeping"}
  PROVE  /\ FramesOK'
         /\ request' \in [Requesters -> Frames]
         /\ \A q \in Requesters : At(q, "filling")' =>
               q # p /\ request'[q] = request[q]
         /\ PendingKeys(p) \subseteq NextKeys(p) \cup PendingKeys(p)'
         /\ \A q \in Requesters : q # p => PendingKeys(q)' = PendingKeys(q)
  <1> DEFINE left == request[p].left
  <1> USE DEF CatalogueInv, CatalogueTypeOK, FramesOK
  <1>1. left \in Seq(SUBSET Keys) /\ left # <<>>
    BY DEF Frames
  <1>2. /\ Tail(left) \in Seq(SUBSET Keys)
        /\ Len(left) = 1 => UNION Range(Tail(left)) = {}
        /\ Len(left) # 1 => Tail(left) # <<>>
        /\ UNION Range(left) = Head(left) \cup UNION Range(Tail(left))
    BY <1>1, TailIsRest
  <1>3. \A q \in Requesters : q # p => request'[q] = request[q]
    BY DEF NextDeletion
  <1>4. \/ Len(left) = 1 /\ request'[p] = Idle
        \/ /\ Len(left) # 1
           /\ request'[p] = [Idle EXCEPT !.pc = "deleting", !.left = Tail(left)]
    BY DEF NextDeletion
  <1>5. /\ request'[p].pc \in {"idle", "deleting"}
        /\ request'[p].pc = "deleting" => Tail(left) # <<>>
        /\ request'[p].pc = "deleting" => request'[p].left = Tail(left)
        /\ request'[p] \in Frames
        /\ Len(left) # 1 => request'[p].pc = "deleting"
    <2>1. CASE Len(left) = 1 /\ request'[p] = Idle
      <3>1. request'[p].pc = "idle"
        BY <2>1 DEF Idle
      <3>2. request'[p] \in Frames
        BY <2>1, IdleIsFrame
      <3>3. request'[p].pc # "deleting"
        BY <3>1
      <3>4. QED  BY <3>1, <3>2, <3>3, <2>1
    <2>2. CASE /\ Len(left) # 1
               /\ request'[p] = [Idle EXCEPT !.pc = "deleting", !.left = Tail(left)]
      <3>1. request'[p] = [pc |-> "deleting", key |-> NoKey, view |-> NoView,
                           left |-> Tail(left), found |-> {}]
        BY <2>2 DEF Idle
      <3>2. QED  BY <3>1, <2>2, <1>2 DEF Frames
    <2>3. QED  BY <2>1, <2>2, <1>4
  <1>6. FramesOK'
    BY <1>3, <1>5
  <1>7. request' \in [Requesters -> Frames]
    BY <1>3, <1>5 DEF NextDeletion
  <1>8. PendingKeys(p) \subseteq NextKeys(p) \cup UNION Range(Tail(left))
    BY <1>2 DEF PendingKeys, NextKeys, At
  <1>9. UNION Range(Tail(left)) \subseteq PendingKeys(p)'
    BY <1>2, <1>5 DEF PendingKeys, At
  <1>10. \A q \in Requesters : q # p => PendingKeys(q)' = PendingKeys(q)
    BY <1>3 DEF PendingKeys, At
  <1>11. \A q \in Requesters : At(q, "filling")' => q # p /\ request'[q] = request[q]
    BY <1>3, <1>5 DEF At
  <1>12. QED  BY <1>6, <1>7, <1>8, <1>9, <1>10, <1>11

-----------------------------------------------------------------------------
(* Every step preserves the invariant. *)

LEMMA CatalogueInitInv == Init => CatalogueInv
  <1> SUFFICES ASSUME Init PROVE CatalogueInv
    OBVIOUS
  <1> USE DEF Init
  <1>1. CatalogueTypeOK
    <2>1. version \in [Restaurants -> Nat] /\ sold \in [Restaurants -> Nat]
      OBVIOUS
    <2>2. cache \in [Keys -> [view : Views \cup {NoView}, expires : BOOLEAN]]
      BY DEF Absent
    <2>3. mishaps \in 0..MaxMishaps
      BY CatalogueAssumption
    <2>4. QED  BY IdleIsFrame, <2>1, <2>2, <2>3 DEF CatalogueTypeOK
  <1>2. FramesOK /\ LoadsAreCurrent
    BY DEF FramesOK, LoadsAreCurrent, Idle, At
  <1>3. StaleMeansRaced
    BY DEF StaleMeansRaced
  <1>4. QED  BY <1>1, <1>2, <1>3 DEF CatalogueInv

\* What a key shows is a view.
LEMMA ViewIsView ==
  ASSUME CatalogueTypeOK, NEW k \in Keys
  PROVE  View(k) \in Views /\ \A r \in Shown(k) : View(k)[r].version = version[r]
  <1>1. Shown(k) \in {Restaurants} \cup {{r} : r \in Restaurants}
    BY DEF Shown, Keys
  <1>2. Shown(k) \subseteq Restaurants
    BY <1>1
  <1>3. View(k) \in [Shown(k) -> [version : Nat, sold : Nat]]
    BY <1>2 DEF View, CatalogueTypeOK
  <1>4. View(k) \in Views
    BY <1>1, <1>3 DEF Views
  <1>5. QED  BY <1>4 DEF View

\* A reader's steps before it fills the cache; giving up.
LEMMA ReaderInv ==
  ASSUME CatalogueInv, NEW p \in Requesters,
         UNCHANGED <<version, sold, cache, raced>>,
         mishaps' \in 0..MaxMishaps,
         NEW frame,
         frame \in Frames, frame.pc \notin {"deleting", "sweeping"},
         frame.pc # "idle" => frame.key \in Keys,
         frame.pc = "filling" =>
            \A r \in Shown(frame.key) : frame.view[r].version = version[r],
         request[p].pc \in {"idle", "checking", "loading", "filling"},
         request' = [request EXCEPT ![p] = frame]
  PROVE  CatalogueInv'
  <1> USE DEF CatalogueInv
  <1>1. /\ request'[p] = frame
        /\ \A q \in Requesters : q # p => request'[q] = request[q]
    BY DEF CatalogueTypeOK
  <1>2. CatalogueTypeOK'
    BY DEF CatalogueTypeOK
  <1>3. FramesOK'
    BY <1>1 DEF FramesOK, Frames
  <1>4. LoadsAreCurrent'
    BY <1>1 DEF LoadsAreCurrent, At
  <1>5. \A q \in Requesters : PendingKeys(q) = PendingKeys(q)'
    BY <1>1 DEF PendingKeys, At
  <1>6. StaleMeansRaced'
    BY <1>5 DEF StaleMeansRaced, Current
  <1>7. QED  BY <1>2, <1>3, <1>4, <1>6

\* A read starts.
LEMMA MissInv ==
  ASSUME CatalogueInv, NEW p \in Requesters, NEW k \in Keys, Miss(p, k),
         mishaps' \in 0..MaxMishaps
  PROVE  CatalogueInv'
  <1> DEFINE pc == IF k[1] = "menu" THEN "checking" ELSE "loading"
             frame == [request[p] EXCEPT !.key = k, !.pc = pc]
  <1>1. request[p] \in Frames
    BY DEF CatalogueInv, CatalogueTypeOK
  <1>2. /\ frame \in Frames /\ frame.pc \in {"checking", "loading"}
        /\ frame.key = k
    BY <1>1 DEF Frames
  <1>3. request' = [request EXCEPT ![p] = frame]
    BY DEF Miss, CatalogueInv, CatalogueTypeOK
  <1>4. UNCHANGED <<version, sold, cache, raced>> /\ request[p].pc = "idle"
    BY DEF Miss, At
  <1> HIDE DEF frame
  <1>5. QED  BY <1>2, <1>3, <1>4, ReaderInv

\* findMenu's check.
LEMMA CheckRestaurantInv ==
  ASSUME CatalogueInv, NEW p \in Requesters, CheckRestaurant(p)
  PROVE  CatalogueInv'
  <1>1. request[p] \in Frames /\ request[p].key \in Keys /\ request[p].pc = "checking"
    BY DEF CatalogueInv, CatalogueTypeOK, FramesOK, CheckRestaurant, At
  <1>2. /\ UNCHANGED <<version, sold, cache, raced>>
        /\ mishaps' \in 0..MaxMishaps
    BY DEF CheckRestaurant, NoMishap, CatalogueInv, CatalogueTypeOK
  <1>3. CASE Finish(p)
    BY <1>1, <1>2, <1>3, IdleIsFrame, ReaderInv DEF Finish, Idle
  <1>4. CASE request' = [request EXCEPT ![p].pc = "loading"]
    <2> DEFINE frame == [request[p] EXCEPT !.pc = "loading"]
    <2>1. frame \in Frames /\ frame.pc = "loading" /\ frame.key \in Keys
      BY <1>1 DEF Frames
    <2>2. request' = [request EXCEPT ![p] = frame]
      BY <1>4 DEF CatalogueInv, CatalogueTypeOK
    <2> HIDE DEF frame
    <2>3. QED  BY <1>1, <1>2, <2>1, <2>2, ReaderInv
  <1>5. QED  BY <1>3, <1>4 DEF CheckRestaurant

\* The query, whose result is what the database shows.
LEMMA LoadInv ==
  ASSUME CatalogueInv, NEW p \in Requesters, Load(p)
  PROVE  CatalogueInv'
  <1> DEFINE k == request[p].key
  <1>1. request[p] \in Frames /\ k \in Keys /\ request[p].pc = "loading"
    BY DEF CatalogueInv, CatalogueTypeOK, FramesOK, Load, At
  <1>2. /\ UNCHANGED <<version, sold, cache, raced>>
        /\ mishaps' \in 0..MaxMishaps
    BY DEF Load, NoMishap, CatalogueInv, CatalogueTypeOK
  <1>3. CASE Finish(p)
    BY <1>1, <1>2, <1>3, IdleIsFrame, ReaderInv DEF Finish, Idle
  <1>4. CASE request' = [request EXCEPT ![p].pc = "filling", ![p].view = View(k)]
    <2> DEFINE frame == [request[p] EXCEPT !.pc = "filling", !.view = View(k)]
    <2>1. View(k) \in Views /\ \A r \in Shown(k) : View(k)[r].version = version[r]
      BY <1>1, ViewIsView DEF CatalogueInv
    <2>2. frame \in Frames /\ frame.pc = "filling" /\ frame.key = k /\ frame.view = View(k)
      BY <1>1, <2>1 DEF Frames
    <2>3. request' = [request EXCEPT ![p] = frame]
      BY <1>4 DEF CatalogueInv, CatalogueTypeOK
    <2> HIDE DEF frame
    <2>4. QED  BY <1>1, <1>2, <2>1, <2>2, <2>3, ReaderInv
  <1>5. QED  BY <1>3, <1>4 DEF Load

\* A rejected await of a reader.
LEMMA ReadFailsInv ==
  ASSUME CatalogueInv, NEW p \in Requesters, ReadFails(p)
  PROVE  CatalogueInv'
  <1>1. /\ UNCHANGED <<version, sold, cache, raced>>
        /\ mishaps' \in 0..MaxMishaps
    BY CatalogueAssumption DEF ReadFails, Mishap, CatalogueInv, CatalogueTypeOK
  <1>2. request[p].pc \in {"checking", "loading", "filling"} /\ Finish(p)
    BY DEF ReadFails
  <1>3. QED  BY <1>1, <1>2, IdleIsFrame, ReaderInv DEF Finish, Idle

\* What is stored was current when no writer outran the reader.
LEMMA FillInv ==
  ASSUME CatalogueInv, NEW p \in Requesters, Fill(p)
  PROVE  CatalogueInv'
  <1> DEFINE k == request[p].key
  <1> USE DEF CatalogueInv
  <1>1. request[p] \in Frames /\ k \in Keys /\ request[p].pc = "filling"
    BY DEF CatalogueTypeOK, FramesOK, Fill, At
  <1>2. /\ cache' = [cache EXCEPT ![k] = [view |-> request[p].view, expires |-> TRUE]]
        /\ request' = [request EXCEPT ![p] = Idle]
        /\ UNCHANGED <<version, sold, raced, mishaps>>
    BY DEF Fill, Finish, NoMishap
  <1>3. request'[p] = Idle /\ \A q \in Requesters : q # p => request'[q] = request[q]
    BY <1>2 DEF CatalogueTypeOK
  <1>4. CatalogueTypeOK'
    BY <1>1, <1>2, IdleIsFrame DEF CatalogueTypeOK, Frames
  <1>5. FramesOK' /\ LoadsAreCurrent'
    BY <1>2, <1>3 DEF FramesOK, LoadsAreCurrent, At, Idle
  <1>6. \A q \in Requesters : PendingKeys(q) \subseteq PendingKeys(q)'
    BY <1>1, <1>3 DEF PendingKeys, At
  <1>7. StaleMeansRaced'
    <2> SUFFICES ASSUME NEW j \in Keys, j \notin raced
                 PROVE  \/ cache'[j] = Absent
                        \/ Current(j)'
                        \/ \E q \in Requesters : j \in PendingKeys(q)'
      BY <1>2 DEF StaleMeansRaced
    <2>1. CASE j = k
      <3>1. cache'[k].view = request[p].view
        BY <1>1, <1>2 DEF CatalogueTypeOK
      <3>2. \A r \in Shown(k) : request[p].view[r].version = version[r]
        BY <1>1, <2>1 DEF LoadsAreCurrent, At
      <3>3. QED  BY <1>2, <2>1, <3>1, <3>2 DEF Current
    <2>2. CASE j # k
      BY <1>2, <1>6, <2>2 DEF StaleMeansRaced, CatalogueTypeOK, Current
    <2>3. QED  BY <2>1, <2>2
  <1>8. QED  BY <1>4, <1>5, <1>7

\* A write: every copy of what it changes is to be deleted, and every reader
\* that it outran is known.
LEMMA CommitInv ==
  ASSUME CatalogueInv, NEW p \in Requesters, NEW r \in Restaurants, Commit(p, r)
  PROVE  CatalogueInv'
  <1> USE DEF CatalogueInv
  <1> DEFINE frame == [request[p] EXCEPT !.pc = "deleting", !.left = Invalidations(r)]
  <1>1. /\ request[p] \in Frames /\ request[p].pc = "idle"
        /\ version' = [version EXCEPT ![r] = @ + 1]
        /\ raced' = raced \cup OutrunKeys(r)
        /\ UNCHANGED <<sold, cache, mishaps>>
    BY DEF Commit, At, NoMishap, CatalogueTypeOK
  <1>2. request' = [request EXCEPT ![p] = frame]
    BY DEF Commit, CatalogueTypeOK
  <1>3. /\ Invalidations(r) \in Seq(SUBSET Keys) /\ Invalidations(r) # <<>>
        /\ \A k \in Keys : r \in Shown(k) => k \in UNION Range(Invalidations(r))
    BY InvalidationsCover
  <1>4. frame \in Frames /\ frame.pc = "deleting" /\ frame.left = Invalidations(r)
    BY <1>1, <1>3 DEF Frames
  <1> HIDE DEF frame
  <1>5. request'[p] = frame /\ \A q \in Requesters : q # p => request'[q] = request[q]
    BY <1>2 DEF CatalogueTypeOK
  <1>6. OutrunKeys(r) \subseteq Keys
    BY DEF OutrunKeys, FramesOK, At
  <1>7. CatalogueTypeOK'
    <2>1. version' \in [Restaurants -> Nat]
      BY <1>1 DEF CatalogueTypeOK
    <2>2. request' \in [Requesters -> Frames]
      BY <1>2, <1>4 DEF CatalogueTypeOK
    <2>3. QED  BY <1>1, <1>6, <2>1, <2>2 DEF CatalogueTypeOK
  <1>8. FramesOK'
    BY <1>3, <1>4, <1>5 DEF FramesOK
  <1>9. \A s \in Restaurants : s # r => version'[s] = version[s]
    BY <1>1 DEF CatalogueTypeOK
  <1>10. \A k \in Keys : Shown(k) \subseteq Restaurants
    BY DEF Shown, Keys
  <1>11. LoadsAreCurrent'
    <2> SUFFICES ASSUME NEW q \in Requesters, At(q, "filling")',
                        request'[q].key \notin raced',
                        NEW s \in Shown(request'[q].key)
                 PROVE  request'[q].view[s].version = version'[s]
      BY DEF LoadsAreCurrent
    <2>1. q # p /\ request'[q] = request[q] /\ At(q, "filling")
      BY <1>4, <1>5 DEF At
    <2>2. request[q].key \in Keys
      BY <2>1 DEF FramesOK, At
    <2>3. r \notin Shown(request[q].key)
      BY <1>1, <2>1 DEF OutrunKeys
    <2>4. s # r /\ s \in Restaurants
      BY <1>10, <2>1, <2>2, <2>3
    <2>5. QED  BY <1>1, <1>9, <2>1, <2>4 DEF LoadsAreCurrent
  <1>12. \A q \in Requesters : PendingKeys(q) \subseteq PendingKeys(q)'
    BY <1>1, <1>5 DEF PendingKeys, At
  <1>13. PendingKeys(p)' = UNION Range(Invalidations(r))
    BY <1>4, <1>5 DEF PendingKeys, At
  <1>14. StaleMeansRaced'
    <2> SUFFICES ASSUME NEW k \in Keys, k \notin raced'
                 PROVE  \/ cache'[k] = Absent
                        \/ Current(k)'
                        \/ \E q \in Requesters : k \in PendingKeys(q)'
      BY DEF StaleMeansRaced
    <2>1. CASE r \in Shown(k)
      BY <1>3, <1>13, <2>1
    <2>2. CASE r \notin Shown(k)
      <3>1. Current(k) => Current(k)'
        BY <1>1, <1>9, <1>10, <2>2 DEF Current
      <3>2. QED  BY <1>1, <1>12, <3>1 DEF StaleMeansRaced
    <2>3. QED  BY <2>1, <2>2
  <1>15. QED  BY <1>7, <1>8, <1>11, <1>14

\* Deleting keys leaves a cache.
LEMMA EvictedIsCache ==
  ASSUME CatalogueTypeOK, NEW keys
  PROVE  Evicted(keys) \in [Keys -> [view : Views \cup {NoView}, expires : BOOLEAN]]
  <1>1. Absent \in [view : Views \cup {NoView}, expires : BOOLEAN]
    BY DEF Absent
  <1>2. QED  BY <1>1 DEF Evicted, CatalogueTypeOK

\* A deletion that succeeds, or finds nothing.
LEMMA EvictInv ==
  ASSUME CatalogueInv, NEW p \in Requesters, NextDeletion(p),
         request[p].pc \in {"deleting", "sweeping"},
         UNCHANGED <<version, sold, raced, mishaps>>,
         NEW keys \in SUBSET Keys, cache' = Evicted(keys),
         \A k \in NextKeys(p) : k \in keys \/ cache[k] = Absent
  PROVE  CatalogueInv'
  <1> USE DEF CatalogueInv
  <1>1. /\ FramesOK' /\ request' \in [Requesters -> Frames]
        /\ \A q \in Requesters : At(q, "filling")' =>
               q # p /\ request'[q] = request[q]
        /\ PendingKeys(p) \subseteq NextKeys(p) \cup PendingKeys(p)'
        /\ \A q \in Requesters : q # p => PendingKeys(q)' = PendingKeys(q)
    BY NextDeletionFrames
  <1>2. CatalogueTypeOK'
    BY <1>1, EvictedIsCache DEF CatalogueTypeOK
  <1>3. LoadsAreCurrent'
    BY <1>1 DEF LoadsAreCurrent, At
  <1>4. \A k \in Keys : cache'[k] = IF k \in keys THEN Absent ELSE cache[k]
    BY DEF Evicted
  <1>5. StaleMeansRaced'
    <2> SUFFICES ASSUME NEW k \in Keys, k \notin raced, k \notin keys
                 PROVE  \/ cache'[k] = Absent
                        \/ Current(k)'
                        \/ \E q \in Requesters : k \in PendingKeys(q)'
      BY <1>4 DEF StaleMeansRaced
    <2>1. cache'[k] = cache[k] /\ (Current(k) => Current(k)')
      BY <1>4 DEF Current
    <2>2. QED  BY <1>1, <2>1 DEF StaleMeansRaced
  <1>6. QED  BY <1>1, <1>2, <1>3, <1>5

\* A deletion that fails: its keys are known.
LEMMA DeleteFailsInv ==
  ASSUME CatalogueInv, NEW p \in Requesters, DeleteFails(p)
  PROVE  CatalogueInv'
  <1> USE DEF CatalogueInv
  <1>1. /\ request[p].pc \in {"deleting", "sweeping"} /\ NextDeletion(p)
        /\ raced' = raced \cup NextKeys(p)
        /\ UNCHANGED <<version, sold, cache>>
        /\ mishaps' \in 0..MaxMishaps
    BY CatalogueAssumption DEF DeleteFails, Mishap, CatalogueTypeOK
  <1>2. /\ FramesOK' /\ request' \in [Requesters -> Frames]
        /\ \A q \in Requesters : At(q, "filling")' =>
               q # p /\ request'[q] = request[q]
        /\ PendingKeys(p) \subseteq NextKeys(p) \cup PendingKeys(p)'
        /\ \A q \in Requesters : q # p => PendingKeys(q)' = PendingKeys(q)
    BY <1>1, NextDeletionFrames
  <1>3. NextKeys(p) \subseteq Keys
    <2>1. request[p] \in Frames /\ request[p].left # <<>>
      BY <1>1 DEF CatalogueTypeOK, FramesOK
    <2>2. Head(request[p].left) \in SUBSET Keys
      BY <2>1, HeadTailProperties DEF Frames
    <2>3. QED  BY <2>1, <2>2 DEF NextKeys, Frames
  <1>4. CatalogueTypeOK'
    BY <1>1, <1>2, <1>3 DEF CatalogueTypeOK
  <1>5. LoadsAreCurrent'
    BY <1>1, <1>2 DEF LoadsAreCurrent, At
  <1>6. StaleMeansRaced'
    BY <1>1, <1>2 DEF StaleMeansRaced, Current
  <1>7. QED  BY <1>2, <1>4, <1>5, <1>6

\* The deletions of a writer.
LEMMA WriterInv ==
  ASSUME CatalogueInv, NEW p \in Requesters,
         DeleteKey(p) \/ ScanKeys(p) \/ DeleteFound(p)
  PROVE  CatalogueInv'
  <1> USE DEF CatalogueInv
  <1>1. request[p] \in Frames
    BY DEF CatalogueTypeOK
  <1>2. request[p].pc \in {"deleting", "sweeping"} => Head(request[p].left) \subseteq Keys
    BY <1>1, HeadTailProperties DEF Frames, FramesOK
  <1>3. CASE DeleteKey(p)
    <2>1. NextKeys(p) = Head(request[p].left)
      BY <1>3 DEF DeleteKey, NextKeys, At
    <2>2. QED  BY <1>2, <1>3, <2>1, EvictInv DEF DeleteKey, NoMishap, At
  <1>4. CASE DeleteFound(p)
    <2>1. NextKeys(p) = request[p].found /\ request[p].found \subseteq Keys
      BY <1>1, <1>4 DEF DeleteFound, NextKeys, At, Frames
    <2>2. QED  BY <1>4, <2>1, EvictInv DEF DeleteFound, NoMishap, At
  <1>5. CASE ScanKeys(p)
    <2> DEFINE found == {k \in PopularOfEach : cache[k] # Absent}
    <2>1. /\ request[p].pc = "deleting" /\ Head(request[p].left) = PopularOfEach
          /\ NextKeys(p) = PopularOfEach
          /\ UNCHANGED <<version, sold, cache, raced, mishaps>>
          /\ PopularOfEach \subseteq Keys
      BY <1>5 DEF ScanKeys, NextKeys, At, NoMishap, PopularOfEach, Keys
    <2>2. CASE found = {} /\ NextDeletion(p)
      <3>1. cache' = Evicted({})
        BY <2>1 DEF Evicted, CatalogueTypeOK
      <3>2. \A k \in NextKeys(p) : cache[k] = Absent
        BY <2>1, <2>2
      <3>3. QED  BY <2>1, <2>2, <3>1, <3>2, EvictInv
    <2>3. CASE request' = [request EXCEPT ![p].pc = "sweeping", ![p].found = found]
      <3> DEFINE frame == [request[p] EXCEPT !.pc = "sweeping", !.found = found]
      <3>1. /\ frame \in Frames /\ frame.pc = "sweeping" /\ frame.found = found
            /\ frame.left = request[p].left
        BY <1>1, <2>1 DEF Frames
      <3>2. request' = [request EXCEPT ![p] = frame]
        BY <2>3 DEF CatalogueTypeOK
      <3> HIDE DEF frame
      <3>3. /\ request'[p] = frame
            /\ \A q \in Requesters : q # p => request'[q] = request[q]
        BY <3>2 DEF CatalogueTypeOK
      <3>4. CatalogueTypeOK'
        BY <2>1, <3>1, <3>2 DEF CatalogueTypeOK
      <3>5. FramesOK' /\ LoadsAreCurrent'
        BY <2>1, <3>1, <3>3 DEF FramesOK, LoadsAreCurrent, At
      <3>6. UNION Range(request[p].left)
              = PopularOfEach \cup UNION Range(Tail(request[p].left))
        BY <1>1, <2>1, TailIsRest DEF Frames, FramesOK
      <3>7. \A k \in PendingKeys(p) : cache[k] = Absent \/ k \in PendingKeys(p)'
        BY <2>1, <3>1, <3>3, <3>6 DEF PendingKeys, At
      <3>8. \A q \in Requesters : q # p => PendingKeys(q)' = PendingKeys(q)
        BY <3>3 DEF PendingKeys, At
      <3>9. StaleMeansRaced'
        BY <2>1, <3>7, <3>8 DEF StaleMeansRaced, Current
      <3>10. QED  BY <3>4, <3>5, <3>9
    <2>4. QED  BY <1>5, <2>2, <2>3 DEF ScanKeys
  <1>6. QED  BY <1>3, <1>4, <1>5

\* A key expires.
LEMMA ExpireInv ==
  ASSUME CatalogueInv, NEW k \in Keys, Expire(k)
  PROVE  CatalogueInv'
  <1> USE DEF CatalogueInv
  <1>1. cache' = Evicted({k}) /\ UNCHANGED <<version, sold, request, raced, mishaps>>
    BY DEF Expire, NoMishap
  <1>2. \A j \in Keys : cache'[j] = Absent \/ cache'[j] = cache[j]
    BY <1>1 DEF Evicted
  <1>3. CatalogueTypeOK'
    BY <1>1, EvictedIsCache DEF CatalogueTypeOK
  <1>4. FramesOK' /\ LoadsAreCurrent'
    BY <1>1 DEF FramesOK, LoadsAreCurrent, At
  <1>5. StaleMeansRaced'
    <2> SUFFICES ASSUME NEW j \in Keys, j \notin raced
                 PROVE  \/ cache'[j] = Absent
                        \/ Current(j)'
                        \/ \E q \in Requesters : j \in PendingKeys(q)'
      BY <1>1 DEF StaleMeansRaced
    <2>1. cache'[j] = cache[j] => (Current(j) => Current(j)')
      BY <1>1 DEF Current
    <2>2. \A q \in Requesters : PendingKeys(q)' = PendingKeys(q)
      BY <1>1 DEF PendingKeys, At
    <2>3. QED  BY <1>1, <1>2, <2>1, <2>2 DEF StaleMeansRaced
  <1>6. QED  BY <1>3, <1>4, <1>5

\* An order is placed.
LEMMA SellInv ==
  ASSUME CatalogueInv, NEW r \in Restaurants, Sell(r)
  PROVE  CatalogueInv'
  <1> USE DEF CatalogueInv
  <1>1. UNCHANGED <<version, cache, request, raced, mishaps>>
    BY DEF Sell, NoMishap
  <1>2. CatalogueTypeOK'
    BY <1>1 DEF Sell, CatalogueTypeOK
  <1>3. FramesOK' /\ LoadsAreCurrent'
    BY <1>1 DEF FramesOK, LoadsAreCurrent, At
  <1>4. StaleMeansRaced'
    BY <1>1 DEF StaleMeansRaced, Current, PendingKeys, At
  <1>5. QED  BY <1>2, <1>3, <1>4

\* The process dies: the keys its writers had still to delete are known.
LEMMA CrashInv ==
  ASSUME CatalogueInv, Crash
  PROVE  CatalogueInv'
  <1> USE DEF CatalogueInv
  <1>1. /\ raced' = raced \cup UNION {PendingKeys(p) : p \in Requesters}
        /\ request' = [p \in Requesters |-> Idle]
        /\ UNCHANGED <<version, sold, cache>>
        /\ mishaps' \in 0..MaxMishaps
    BY CatalogueAssumption DEF Crash, Mishap, CatalogueTypeOK
  <1>2. \A p \in Requesters : PendingKeys(p) \subseteq Keys
    <2> SUFFICES ASSUME NEW p \in Requesters PROVE PendingKeys(p) \subseteq Keys
      OBVIOUS
    <2>1. request[p] \in Frames
      BY DEF CatalogueTypeOK
    <2>2. \A left \in Seq(SUBSET Keys) : UNION Range(left) \subseteq Keys
      BY ElementOfSeq, LenProperties DEF Range
    <2>3. request[p].pc \in {"deleting", "sweeping"} =>
            Tail(request[p].left) \in Seq(SUBSET Keys)
      BY <2>1, HeadTailProperties DEF Frames, FramesOK
    <2>4. QED  BY <2>1, <2>2, <2>3 DEF PendingKeys, Frames, At
  <1>3. CatalogueTypeOK'
    BY <1>1, <1>2, IdleIsFrame DEF CatalogueTypeOK
  <1>4. FramesOK' /\ LoadsAreCurrent'
    BY <1>1 DEF FramesOK, LoadsAreCurrent, At, Idle
  <1>5. StaleMeansRaced'
    BY <1>1 DEF StaleMeansRaced, Current
  <1>6. QED  BY <1>3, <1>4, <1>5

-----------------------------------------------------------------------------
\* Each step of Next preserves the invariant, and so does stuttering.
LEMMA CatalogueStep == CatalogueInv /\ [Next]_vars => CatalogueInv'
  <1> SUFFICES ASSUME CatalogueInv, [Next]_vars PROVE CatalogueInv'
    OBVIOUS
  <1>1. ASSUME NEW p \in Requesters, NEW k \in ReadKeys, Get(p, k) \/ GetFails(p, k)
        PROVE  CatalogueInv'
    <2>1. mishaps' \in 0..MaxMishaps
      BY <1>1, CatalogueAssumption
         DEF Get, GetFails, NoMishap, Mishap, CatalogueInv, CatalogueTypeOK
    <2>2. QED  BY <1>1, <2>1, KeyAssumption, MissInv DEF Get, GetFails
  <1>2. ASSUME NEW p \in Requesters, Step(p) \/ ReadFails(p) \/ DeleteFails(p)
        PROVE  CatalogueInv'
    BY <1>2, CheckRestaurantInv, LoadInv, FillInv, WriterInv, ReadFailsInv, DeleteFailsInv
       DEF Step
  <1>3. ASSUME NEW p \in Requesters, NEW r \in Restaurants,
               CreateRestaurant(p, r) \/ UpdateRestaurant(p, r)
        PROVE  CatalogueInv'
    BY <1>3, CommitInv DEF CreateRestaurant, UpdateRestaurant
  <1>4. CASE UNCHANGED vars
    BY <1>4 DEF vars, CatalogueInv, CatalogueTypeOK, FramesOK, LoadsAreCurrent,
                StaleMeansRaced, Current, PendingKeys, At
  <1>5. QED  BY <1>1, <1>2, <1>3, <1>4, SellInv, ExpireInv, CrashInv DEF Next

\* The invariant holds throughout.
LEMMA CatalogueInvariant == Spec => []CatalogueInv
  BY CatalogueInitInv, CatalogueStep, PTL DEF Spec

\* However requests race, fail or die, a copy of the catalogue that is out of
\* date is one that a writer is about to delete or one that got away.
THEOREM OnlyRacesLeaveStaleCopies == Spec => []StaleMeansRaced
  <1>1. CatalogueInv => StaleMeansRaced
    BY DEF CatalogueInv
  <1>2. QED  BY <1>1, CatalogueInvariant, PTL

\* The types of every variable, for any restaurants, requests and bounds.
THEOREM CatalogueTypes == Spec => []CatalogueTypeOK
  <1>1. CatalogueInv => CatalogueTypeOK
    BY DEF CatalogueInv
  <1>2. QED  BY <1>1, CatalogueInvariant, PTL
=============================================================================
