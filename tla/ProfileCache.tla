---------------------------- MODULE ProfileCache ----------------------------
(***************************************************************************)
(* The client's cache of public profiles (js/user-profiles.js): requests   *)
(* of one tick go out together, a request under way is shared, and what    *)
(* comes back is cached for five minutes unless a profile was changed or   *)
(* the session ended meanwhile.  A profile is the number of times it was   *)
(* saved.                                                                  *)
(***************************************************************************)
EXTENDS Naturals, FiniteSets, Sequences

CONSTANTS
    Names,              \* usernames
    MaxEntries,         \* PROFILE_CACHE_MAX_ENTRIES
    MaxSaves,           \* bound of the model on saves of each profile
    MaxProfileRequests  \* bound of the model on requests

\* The cache has room for a profile, and the bounds are counts.
ASSUME EntriesAssumption == MaxEntries \in Nat \ {0}
ASSUME SavesAssumption == MaxSaves \in Nat
ASSUME RequestsAssumption == MaxProfileRequests \in Nat

VARIABLES
    saved,              \* the profiles the server has
    profileCache,       \* Map, in its order: <<[user, profile, expired]>>
    profileRequests,    \* Map: the request of each user, or 0
    profileCacheGeneration,
    lookups,            \* requests: [id, user, generation, at, answer], those of
                        \* profileBatchQueue at queued
    requested,          \* requests so far
    saves,              \* saves of this client that are done and not yet answered
    changed             \* history: the profile of the last answer to a save here

profileVars == <<saved, profileCache, profileRequests, profileCacheGeneration, lookups,
                 requested, saves, changed>>

ProfileTypeOK ==
    /\ saved \in [Names -> 0..MaxSaves]
    /\ profileCache \in Seq([user : Names, profile : 0..MaxSaves, expired : BOOLEAN])
    /\ profileRequests \in [Names -> 0..MaxProfileRequests]
    /\ profileCacheGeneration \in Nat
    /\ lookups \subseteq [id : 1..MaxProfileRequests, user : Names, generation : Nat,
                          at : {"queued", "sent", "answered"}, answer : 0..MaxSaves]
    /\ requested \in 0..MaxProfileRequests
    /\ saves \subseteq [user : Names, profile : 0..MaxSaves]
    /\ changed \in [Names -> 0..MaxSaves]

ProfileInit ==
    /\ saved = [u \in Names |-> 0]
    /\ profileCache = <<>>
    /\ profileRequests = [u \in Names |-> 0]
    /\ profileCacheGeneration = 0
    /\ lookups = {}
    /\ requested = 0
    /\ saves = {}
    /\ changed = [u \in Names |-> 0]

\* What is left of a sequence at the places K, in order.
Place(K, j) == CHOOSE i \in K : Cardinality({h \in K : h < i}) = j - 1
Only(s, K) == [j \in 1..Cardinality(K) |-> s[Place(K, j)]]

Forget(cache, u) == Only(cache, {i \in DOMAIN cache : cache[i].user # u})
Entries(u) == {i \in DOMAIN profileCache : profileCache[i].user = u}

\* The entry of the user and expired ones go, and the oldest when the cache is full.
CacheUserProfile(cache, u, p) ==
    LET fresh == Only(cache, {i \in DOMAIN cache : cache[i].user # u /\ ~cache[i].expired})
        room == IF Len(fresh) >= MaxEntries THEN Tail(fresh) ELSE fresh
    IN Append(room, [user |-> u, profile |-> p, expired |-> FALSE])

\* getUserProfile beyond the cache: it joins the request under way or makes one; a
\* refresh joins nothing and does not wait for the batch.
GetUserProfile(u, refresh) ==
    /\ refresh \/ \A i \in Entries(u) : profileCache[i].expired
    /\ profileCache' = Forget(profileCache, u)
    /\ \/ /\ ~refresh /\ profileRequests[u] # 0
          /\ UNCHANGED <<requested, profileRequests, lookups>>
       \/ /\ refresh \/ profileRequests[u] = 0
          /\ requested < MaxProfileRequests
          /\ requested' = requested + 1
          /\ profileRequests' = [profileRequests EXCEPT ![u] = requested']
          /\ lookups' = lookups \union {[id |-> requested', user |-> u, answer |-> 0,
                                         generation |-> profileCacheGeneration,
                                         at |-> IF refresh THEN "sent" ELSE "queued"]}
    /\ UNCHANGED <<saved, profileCacheGeneration, saves, changed>>

\* flushUserProfileBatch, in a microtask, sends what is queued; a batch of more than
\* 50 goes out in parts.
FlushUserProfileBatch ==
    /\ \E l \in lookups : l.at = "queued"
    /\ lookups' = {IF l.at = "queued" THEN [l EXCEPT !.at = "sent"] ELSE l : l \in lookups}
    /\ UNCHANGED <<saved, profileCache, profileRequests, profileCacheGeneration, requested,
                   saves, changed>>

\* The server reads the profile.
ServerReadsProfile(l) ==
    /\ l \in lookups /\ l.at = "sent"
    /\ lookups' = (lookups \ {l}) \union {[l EXCEPT !.at = "answered", !.answer = saved[l.user]]}
    /\ UNCHANGED <<saved, profileCache, profileRequests, profileCacheGeneration, requested,
                   saves, changed>>

\* Mutant of LookupEnds: the generation is not compared.
LookupEndsCached(l) ==
    /\ l \in lookups /\ l.at # "queued"
    /\ lookups' = lookups \ {l}
    /\ profileCache' = IF l.at = "answered"
                       THEN CacheUserProfile(profileCache, l.user, l.answer) ELSE profileCache
    /\ profileRequests' = [profileRequests EXCEPT ![l.user] = IF @ = l.id THEN 0 ELSE @]
    /\ UNCHANGED <<saved, profileCacheGeneration, requested, saves, changed>>

\* The answer or the error reaches the page.
LookupEnds(l) ==
    /\ l \in lookups /\ l.at # "queued"
    /\ lookups' = lookups \ {l}
    /\ profileCache' = IF l.at = "answered" /\ l.generation = profileCacheGeneration
                       THEN CacheUserProfile(profileCache, l.user, l.answer) ELSE profileCache
    /\ profileRequests' = [profileRequests EXCEPT ![l.user] = IF @ = l.id THEN 0 ELSE @]
    /\ UNCHANGED <<saved, profileCacheGeneration, requested, saves, changed>>

\* Five minutes pass for an entry.
EntryExpires(i) ==
    /\ i \in DOMAIN profileCache /\ ~profileCache[i].expired
    /\ profileCache' = [profileCache EXCEPT ![i].expired = TRUE]
    /\ UNCHANGED <<saved, profileRequests, profileCacheGeneration, lookups,
                   requested, saves, changed>>

\* The server saves a profile for a page of this client; the answer has the profile of that
\* moment.
SaveHere(u) ==
    /\ saved[u] < MaxSaves
    /\ saved' = [saved EXCEPT ![u] = @ + 1]
    /\ saves' = saves \union {[user |-> u, profile |-> saved'[u]]}
    /\ UNCHANGED <<profileCache, profileRequests, profileCacheGeneration, lookups, requested, changed>>

\* A save is answered: what is under way for the user is forgotten, and nothing asked for
\* before is cached.
SaveAnswered(s) ==
    /\ saves' = saves \ {s}
    /\ profileCacheGeneration' = profileCacheGeneration + 1
    /\ profileRequests' = [profileRequests EXCEPT ![s.user] = 0]
    /\ changed' = [changed EXCEPT ![s.user] = s.profile]
    /\ UNCHANGED <<saved, lookups, requested>>

\* syncUserProfile with the answer.
SyncUserProfile(s) ==
    /\ SaveAnswered(s)
    /\ profileCache' = CacheUserProfile(profileCache, s.user, s.profile)

\* Or the page drops what it knows: invalidateUserProfiles.
InvalidateUserProfile(s) ==
    /\ SaveAnswered(s)
    /\ profileCache' = Forget(profileCache, s.user)

\* Another client saves a profile, or the answer to a save here is lost; nothing tells this
\* page.
SaveElsewhere(u) ==
    /\ saved[u] < MaxSaves
    /\ saved' = [saved EXCEPT ![u] = @ + 1]
    /\ UNCHANGED <<profileCache, profileRequests, profileCacheGeneration, lookups, requested,
                   saves, changed>>

\* clearUserProfileCache, when a session ends; bounded like the saves.
ClearUserProfileCache ==
    /\ profileCacheGeneration <= MaxSaves
    /\ profileCacheGeneration' = profileCacheGeneration + 1
    /\ profileCache' = <<>>
    /\ profileRequests' = [u \in Names |-> 0]
    /\ UNCHANGED <<saved, lookups, requested, saves, changed>>

LookupNext ==
    \/ FlushUserProfileBatch
    \/ \E l \in lookups : ServerReadsProfile(l) \/ LookupEnds(l)

ProfileNext ==
    \/ LookupNext \/ ClearUserProfileCache
    \/ \E u \in Names : SaveHere(u) \/ SaveElsewhere(u)
    \/ \E s \in saves : SyncUserProfile(s) \/ InvalidateUserProfile(s)
    \/ \E u \in Names, refresh \in BOOLEAN : GetUserProfile(u, refresh)
    \/ \E i \in DOMAIN profileCache : EntryExpires(i)

-----------------------------------------------------------------------------
(* Properties.                                                             *)

\* The cache never goes back behind the last answer to a save of this page: a request that
\* was under way when the answer came does not put the old profile back (syncUserProfile,
\* invalidateUserProfiles, getUserProfile).
CacheNotBehind == \A i \in DOMAIN profileCache :
                      profileCache[i].profile >= changed[profileCache[i].user]

\* The cache keeps one entry for a user and stays within its bound.
CacheBounded ==
    /\ Len(profileCache) <= MaxEntries
    /\ \A u \in Names : Cardinality(Entries(u)) <= 1

\* A request that getUserProfile joins is under way: nobody waits for a dead one,
\* and a user whose request ended can be asked for again (profileRequests).
SharedIsLive == \A u \in Names :
                    profileRequests[u] # 0 => \E l \in lookups : l.id = profileRequests[u]
=============================================================================
