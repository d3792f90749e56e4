--------------------------- MODULE Exclusion_proofs ---------------------------
(***************************************************************************)
(* What keeps the mutations of the server apart, for any number of         *)
(* goroutines, paths, processes, jobs and restarts.  Of the locks: the     *)
(* types, the exclusion a migration relies on, and the absence of deadlock *)
(* where the handlers agree on an order.  Of the mail queue: no message is *)
(* submitted twice, and the tables, the workers and the provider stay      *)
(* consistent.                                                             *)
(***************************************************************************)
EXTENDS RepositoryLocks, MailQueue, FiniteSetTheorems, TLAPS

(***************************************************************************)
(* The locks of a process                                                  *)
(***************************************************************************)

\* Handlers that take no other lock before the repository gate.
GateFirst == \A p \in Procs :
    Kind[p] \in {"put", "putNative", "generatePom", "delete", "deleteNative", "publish", "cleanUp",
                "migrate", "removeRepository"}

\* No goroutine changes the configuration.
NoConfigChange == \A p \in Procs :
    Kind[p] \in {"put", "putNative", "generatePom", "complete", "completeNative", "proxy", "delete",
                "deleteNative", "publish", "cleanUp"}

Steps == Locks \union Works \union {"drop"}

\* What is known of every script: its locks, its length, and that the writer of
\* the gate announces itself just before.
LEMMA ScriptFacts ==
    ASSUME NEW k \in Kinds
    PROVE  /\ Len(Script(k)) \in 0..9
           /\ \A n \in 1..Len(Script(k)) : Script(k)[n] \in Steps
           /\ \A n \in 1..Len(Script(k)) : Script(k)[n] = "write" =>
                 n > 1 /\ Script(k)[n - 1] = "announce"
<1> DEFINE Good(s) ==
       /\ Len(s) \in 0..9
       /\ \A n \in 1..Len(s) : s[n] \in Steps
       /\ \A n \in 1..Len(s) : s[n] = "write" => n > 1 /\ s[n - 1] = "announce"
<1>1. Good(PutLocks) BY DEF PutLocks, Steps, Locks, Works
<1>2. Good(NativePutLocks) BY DEF NativePutLocks, Steps, Locks, Works
<1>3. Good(PomLocks) BY DEF PomLocks, Steps, Locks, Works
<1>4. Good(CompleteLocks) BY DEF CompleteLocks, Steps, Locks, Works
<1>5. Good(NativeCompleteLocks) BY DEF NativeCompleteLocks, Steps, Locks, Works
<1>6. Good(ProxyLocks) BY DEF ProxyLocks, Steps, Locks, Works
<1>7. Good(DeleteLocks) BY DEF DeleteLocks, Steps, Locks, Works
<1>8. Good(NativeDeleteLocks) BY DEF NativeDeleteLocks, Steps, Locks, Works
<1>9. Good(PublishLocks) BY DEF PublishLocks, Steps, Locks, Works
<1>10. Good(CleanUpLocks) BY DEF CleanUpLocks, Steps, Locks, Works
<1>11. Good(MigrateLocks) BY DEF MigrateLocks, Steps, Locks, Works
<1>12. Good(RemoveLocks) BY DEF RemoveLocks, Steps, Locks, Works
<1>13. Good(ChangeStorageLocks) BY DEF ChangeStorageLocks, Steps, Locks, Works
<1> HIDE DEF Good
<1>14. Good(Script(k))
  BY <1>1, <1>2, <1>3, <1>4, <1>5, <1>6, <1>7, <1>8, <1>9, <1>10, <1>11, <1>12, <1>13
     DEF Script, Kinds
<1> QED BY <1>14 DEF Good

-----------------------------------------------------------------------------
(* Type correctness.                                                       *)

\* A goroutine that waits has a lock to wait for, and never runs off its script.
Progress == \A p \in Procs :
    /\ pos[p] <= Len(Script(Kind[p]))
    /\ pc[p] = "wait" => HasNext(p) /\ Wanted(p) \in Locks

\* A step keeps the types and the relation of a goroutine's place to its script.
LEMMA TypeStep == TypeOK /\ Progress /\ [Next]_vars => TypeOK' /\ Progress'
<1> SUFFICES ASSUME TypeOK, Progress, [Next]_vars PROVE TypeOK' /\ Progress'
  OBVIOUS
<1> USE KindAssumption
<1>0. \A p \in Procs : Kind[p] \in Kinds /\ pos[p] \in 0..9
  BY DEF TypeOK
<1>1. \A p \in Procs : Len(Script(Kind[p])) \in 0..9
  BY <1>0, ScriptFacts
<1>3. CASE UNCHANGED vars
  BY <1>3 DEF vars, TypeOK, Progress, HasNext, Wanted
<1>4. ASSUME NEW p \in Procs, Begin(p) PROVE TypeOK' /\ Progress'
  BY <1>4 DEF Begin, TypeOK, Progress, HasNext, Wanted
<1>5. ASSUME NEW p \in Procs, Request(p) PROVE TypeOK' /\ Progress'
  BY <1>5 DEF Request, TypeOK, Progress, HasNext, Wanted
<1>6. ASSUME NEW p \in Procs, Acquire(p) PROVE TypeOK' /\ Progress'
  <2>1. HasNext(p) /\ Wanted(p) \in Locks
    BY <1>6 DEF Acquire, Progress
  <2>2. pos[p] + 1 \in 0..9 /\ pos[p] + 1 <= Len(Script(Kind[p]))
    <3>1. pos[p] < Len(Script(Kind[p])) /\ pos[p] \in 0..9 /\ Len(Script(Kind[p])) \in 0..9
      BY <2>1, <1>0, <1>1 DEF HasNext
    <3>2. \A m, n \in 0..9 : m < n => m + 1 \in 0..9 /\ m + 1 <= n
      OBVIOUS
    <3> QED BY <3>1, <3>2
  <2>4. TypeOK'
    BY <1>6, <2>1, <2>2 DEF Acquire, TypeOK
  <2>5. pos'[p] = pos[p] + 1 /\ pc'[p] = "run" /\ \A q \in Procs \ {p} : pos'[q] = pos[q] /\ pc'[q] = pc[q]
    BY <1>6 DEF Acquire, TypeOK
  <2>3. Progress'
    BY <2>2, <2>5 DEF Progress, HasNext, Wanted
  <2> QED BY <2>3, <2>4
<1>7. ASSUME NEW p \in Procs, Proceed(p) \/ Drop(p) PROVE TypeOK' /\ Progress'
  <2>1. HasNext(p) /\ pos[p] < Len(Script(Kind[p])) /\ pc[p] = "run"
    BY <1>7 DEF Proceed, Drop, At, HasNext
  <2>2. pos[p] + 1 \in 0..9 /\ pos[p] + 1 <= Len(Script(Kind[p]))
    <3>1. pos[p] \in 0..9 /\ Len(Script(Kind[p])) \in 0..9
      BY <1>0, <1>1
    <3>2. \A m, n \in 0..9 : m < n => m + 1 \in 0..9 /\ m + 1 <= n
      OBVIOUS
    <3> QED BY <2>1, <3>1, <3>2
  <2>3. TypeOK'
    BY <1>7, <2>2 DEF Proceed, Drop, TypeOK
  <2>4. pos'[p] = pos[p] + 1 /\ pc' = pc /\ \A q \in Procs \ {p} : pos'[q] = pos[q]
    BY <1>7 DEF Proceed, Drop, TypeOK
  <2>5. Progress'
    BY <2>1, <2>2, <2>4 DEF Progress, HasNext, Wanted
  <2> QED BY <2>3, <2>5
<1>8. ASSUME NEW p \in Procs, Return(p) PROVE TypeOK' /\ Progress'
  BY <1>8 DEF Return, TypeOK, Progress, HasNext, Wanted
<1>9. ASSUME NEW p \in Procs, Finish(p) PROVE TypeOK' /\ Progress'
  BY <1>9, <1>1 DEF Finish, TypeOK, Progress, HasNext, Wanted
<1>10. ASSUME NEW p \in Procs, NEW l \in Locks, Unlock(p, l) PROVE TypeOK' /\ Progress'
  BY <1>10 DEF Unlock, TypeOK, Progress, HasNext, Wanted
<1> QED BY <1>3, <1>4, <1>5, <1>6, <1>7, <1>8, <1>9, <1>10 DEF Next

\* The types hold before any handler starts.
LEMMA TypeInit == Init => TypeOK /\ Progress
<1> SUFFICES ASSUME Init PROVE TypeOK /\ Progress
  OBVIOUS
<1>1. \A p \in Procs : Len(Script(Kind[p])) \in 0..9
  BY KindAssumption, ScriptFacts
<1> QED BY <1>1 DEF Init, TypeOK, Progress

\* Every variable of the lock model keeps its type, whatever the handlers.
THEOREM TypeCorrect == Spec => []TypeOK
<1>1. Init => TypeOK /\ Progress
  BY TypeInit
<1>2. TypeOK /\ Progress /\ [Next]_vars => TypeOK' /\ Progress'
  BY TypeStep
<1> QED BY <1>1, <1>2, PTL DEF Spec

-----------------------------------------------------------------------------
(* A writer is alone in the gate.                                          *)

Announced == \A p \in Procs :
    /\ "write" \in held[p] => "announce" \in held[p]
    /\ pc[p] \in {"run", "wait"} /\ HasNext(p) /\ Wanted(p) = "write" => "announce" \in held[p]

OneWriter == \A p, q \in Procs : "announce" \in held[p] /\ "announce" \in held[q] => p = q

IdleHoldsNothing == \A p \in Procs : pc[p] = "idle" => held[p] = {} /\ pos[p] = 0

\* Who holds the gate as a writer holds it alone.
GateExclusive ==
    \A p, q \in Procs : "write" \in held[p] /\ "read" \in held[q] => p = q

GateInv == TypeOK /\ Progress /\ IdleHoldsNothing /\ Announced /\ OneWriter /\ GateExclusive

\* A step keeps who may be inside the gate together.
LEMMA GateStep == GateInv /\ [Next]_vars => GateInv'
<1> SUFFICES ASSUME GateInv, [Next]_vars PROVE GateInv'
  OBVIOUS
<1> USE KindAssumption
<1>0. TypeOK' /\ Progress'
  BY TypeStep DEF GateInv
<1>1. \A p \in Procs : \A n \in 1..Len(Script(Kind[p])) :
         Script(Kind[p])[n] = "write" => n > 1 /\ Script(Kind[p])[n - 1] = "announce"
  BY ScriptFacts
<1>a. \A p \in Procs : pos[p] \in 0..9 /\ Len(Script(Kind[p])) \in 0..9
  BY ScriptFacts DEF GateInv, TypeOK
<1>2. CASE UNCHANGED vars
  BY <1>2, <1>0 DEF vars, GateInv, IdleHoldsNothing, Announced, OneWriter, GateExclusive, HasNext, Wanted
<1>3. ASSUME NEW p \in Procs, Begin(p) PROVE GateInv'
  <2>1. Announced'
    BY <1>3, <1>1, <1>a DEF Begin, GateInv, TypeOK, IdleHoldsNothing, Announced, HasNext, Wanted
  <2> QED
    BY <1>0, <1>3, <2>1 DEF Begin, GateInv, TypeOK, IdleHoldsNothing, OneWriter, GateExclusive
<1>4. ASSUME NEW p \in Procs, Request(p) PROVE GateInv'
  BY <1>0, <1>4 DEF Request, GateInv, TypeOK, IdleHoldsNothing, Announced, OneWriter, GateExclusive, HasNext, Wanted
<1>5. ASSUME NEW p \in Procs, Acquire(p) PROVE GateInv'
  <2>1. HasNext(p) /\ Blockers(p, Wanted(p)) = {}
    BY <1>5 DEF Acquire, GateInv, Progress
  <2>2. \A q \in Procs \ {p} :
           /\ Wanted(p) = "read" => "announce" \notin held[q]
           /\ Wanted(p) = "write" => "read" \notin held[q]
           /\ Wanted(p) = "announce" => "announce" \notin held[q]
    BY <2>1 DEF Blockers
  <2>3. held' = [held EXCEPT ![p] = held[p] \union {Wanted(p)}] /\ held \in [Procs -> SUBSET Locks]
    BY <1>5 DEF Acquire, GateInv, TypeOK
  <2>4. OneWriter'
    BY <2>2, <2>3 DEF GateInv, OneWriter
  <2>5. GateExclusive'
    BY <2>2, <2>3 DEF GateInv, GateExclusive, Announced
  <2>6. IdleHoldsNothing'
    BY <1>5 DEF Acquire, GateInv, TypeOK, IdleHoldsNothing
  <2>7. Announced'
    <3>1. \A q \in Procs : "write" \in held'[q] => "announce" \in held'[q]
      BY <2>1, <2>3, <1>5 DEF GateInv, Announced, Acquire
    <3>2. /\ \A q \in Procs \ {p} : pos'[q] = pos[q] /\ pc'[q] = pc[q] /\ held'[q] = held[q]
          /\ pos'[p] = pos[p] + 1
      BY <1>5, <2>3 DEF Acquire, GateInv, TypeOK
    <3>3. \A q \in Procs \ {p} : pc'[q] \in {"run", "wait"} /\ HasNext(q)' /\ Wanted(q)' = "write"
                                  => "announce" \in held'[q]
      BY <3>2 DEF GateInv, Announced, HasNext, Wanted
    <3>4. HasNext(p)' /\ Wanted(p)' = "write" => Wanted(p) = "announce"
      BY <1>1, <1>a, <3>2 DEF HasNext, Wanted
    <3> QED BY <3>1, <3>3, <3>4, <2>3 DEF Announced
  <2> QED BY <1>0, <2>4, <2>5, <2>6, <2>7 DEF GateInv
<1>6. ASSUME NEW p \in Procs, Proceed(p) \/ Drop(p) PROVE GateInv'
  <2>1. /\ \A q \in Procs \ {p} : pos'[q] = pos[q] /\ held'[q] = held[q]
        /\ pos'[p] = pos[p] + 1 /\ pc' = pc /\ pc[p] = "run"
        /\ held'[p] \in {held[p], held[p] \ {"config", "metadata"}}
    BY <1>6 DEF Proceed, Drop, At, GateInv, TypeOK
  <2>2. HasNext(p)' => Wanted(p)' # "write"
    <3>1. Wanted(p) # "announce" /\ Wanted(p) = Script(Kind[p])[pos[p] + 1]
      BY <1>6 DEF Proceed, Drop, At, Works, Wanted
    <3>2. HasNext(p)' => pos[p] + 2 \in 1..Len(Script(Kind[p])) /\ pos[p] + 2 > 1
                         /\ (pos[p] + 2) - 1 = pos[p] + 1 /\ Wanted(p)' = Script(Kind[p])[pos[p] + 2]
      BY <1>a, <2>1 DEF HasNext, Wanted
    <3> QED BY <1>1, <3>1, <3>2
  <2>3. Announced'
    BY <2>1, <2>2 DEF GateInv, Announced, HasNext, Wanted
  <2> QED BY <1>0, <2>1, <2>3 DEF GateInv, IdleHoldsNothing, OneWriter, GateExclusive
<1>7. ASSUME NEW p \in Procs, Return(p) PROVE GateInv'
  BY <1>0, <1>7 DEF Return, GateInv, TypeOK, IdleHoldsNothing, Announced, OneWriter, GateExclusive, HasNext, Wanted
<1>8. ASSUME NEW p \in Procs, Finish(p) PROVE GateInv'
  BY <1>0, <1>8 DEF Finish, GateInv, TypeOK, IdleHoldsNothing, Announced, OneWriter, GateExclusive, HasNext, Wanted
<1>9. ASSUME NEW p \in Procs, NEW l \in Locks, Unlock(p, l) PROVE GateInv'
  <2>1. /\ \A q \in Procs \ {p} : held'[q] = held[q]
        /\ held'[p] = held[p] \ (IF l = "write" THEN {"announce", "write"} ELSE {l})
        /\ l # "announce" /\ pc[p] = "return" /\ pc' = pc /\ pos' = pos
    BY <1>9 DEF Unlock, GateInv, TypeOK
  <2>2. Announced'
    BY <2>1 DEF GateInv, Announced, HasNext, Wanted
  <2> QED BY <1>0, <2>1, <2>2 DEF GateInv, IdleHoldsNothing, OneWriter, GateExclusive
<1> QED BY <1>2, <1>3, <1>4, <1>5, <1>6, <1>7, <1>8, <1>9 DEF Next

\* The gate is empty at first.
LEMMA GateInit == Init => GateInv
<1> SUFFICES ASSUME Init PROVE GateInv
  OBVIOUS
<1>1. TypeOK /\ Progress
  BY TypeInit
<1>2. IdleHoldsNothing /\ Announced /\ OneWriter /\ GateExclusive
  BY DEF Init, IdleHoldsNothing, Announced, OneWriter, GateExclusive
<1> QED BY <1>1, <1>2 DEF GateInv

-----------------------------------------------------------------------------
(* Deadlock freedom.  The locks have levels, and a goroutine only waits    *)
(* for a lock above all those it holds.  Level of a held lock and level of *)
(* a wanted one agree where the first keeps others from the second.        *)
(* Without configuration changes nobody is ever kept from the gate, so     *)
(* entering it needs no level of its own.                                  *)

HeldLevel(l) ==
    CASE l = "announce" -> 1
      [] l = "read"     -> IF GateFirst THEN 2 ELSE 0
      [] l = "write"    -> 2
      [] l = "path"     -> 3
      [] l = "config"   -> 4
      [] l = "native"   -> 5
      [] l = "storage"  -> 6
      [] OTHER          -> 7

WantedLevel(l) ==
    CASE l = "announce" -> 1
      [] l = "read"     -> IF GateFirst THEN 1 ELSE 4
      [] l = "write"    -> 2
      [] l = "path"     -> 3
      [] l = "config"   -> 4
      [] l = "native"   -> 5
      [] l = "storage"  -> 6
      [] OTHER          -> 7

\* Locks a change of the configuration has given back when it has n steps behind it.
Dropped(k, n) ==
    IF (k = "removeRepository" /\ n >= 6) \/ (k = "migrate" /\ n >= 7) THEN {"config", "metadata"} ELSE {}

\* A running goroutine holds locks of the part of its script it has behind it.
HeldFromScript == \A p \in Procs : pc[p] \in {"run", "wait"} =>
    \A l \in held[p] :
        /\ \E n \in 1..pos[p] : l = Script(Kind[p])[n]
        /\ l \notin Dropped(Kind[p], pos[p])

\* It holds all of them that it has not given back.
ScriptHeld == \A p \in Procs : pc[p] \in {"run", "wait"} =>
    \A n \in 1..pos[p] : Script(Kind[p])[n] \in Locks \ Dropped(Kind[p], pos[p])
                          => Script(Kind[p])[n] \in held[p]

\* Only goroutines that change a configuration announce themselves at the gate.
OnlyConfigAnnounces == NoConfigChange => \A p \in Procs : "announce" \notin held[p]

OrderInv == GateInv /\ HeldFromScript /\ ScriptHeld /\ OnlyConfigAnnounces

\* The scripts respect the levels.
LEMMA ScriptOrder ==
    ASSUME GateFirst \/ NoConfigChange,
           NEW p \in Procs, NEW n \in 1..Len(Script(Kind[p])), Script(Kind[p])[n] \in Locks,
           NEW m \in 1..(n - 1), Script(Kind[p])[m] \in Locks,
           Script(Kind[p])[m] \notin Dropped(Kind[p], n - 1)
    PROVE  HeldLevel(Script(Kind[p])[m]) < WantedLevel(Script(Kind[p])[n])
<1> DEFINE k == Kind[p]
<1>0. k \in Kinds
  BY KindAssumption
<1>1. CASE k = "put"
  BY <1>1 DEF Script, PutLocks, Locks, HeldLevel, WantedLevel
<1>2. CASE k = "putNative"
  BY <1>2 DEF Script, NativePutLocks, Locks, HeldLevel, WantedLevel
<1>3. CASE k = "generatePom"
  BY <1>3 DEF Script, PomLocks, Locks, HeldLevel, WantedLevel
<1>4. CASE k = "complete"
  BY <1>4 DEF Script, CompleteLocks, Locks, HeldLevel, WantedLevel, GateFirst
<1>5. CASE k = "completeNative"
  BY <1>5 DEF Script, NativeCompleteLocks, Locks, HeldLevel, WantedLevel, GateFirst
<1>6. CASE k = "proxy"
  BY <1>6 DEF Script, ProxyLocks, Locks, HeldLevel, WantedLevel, GateFirst
<1>7. CASE k = "delete"
  BY <1>7 DEF Script, DeleteLocks, Locks, HeldLevel, WantedLevel
<1>8. CASE k = "deleteNative"
  BY <1>8 DEF Script, NativeDeleteLocks, Locks, HeldLevel, WantedLevel
<1>9. CASE k = "publish"
  BY <1>9 DEF Script, PublishLocks, Locks, HeldLevel, WantedLevel
<1>10. CASE k = "cleanUp"
  BY <1>10 DEF Script, CleanUpLocks, Locks, HeldLevel, WantedLevel
<1>11. CASE k = "migrate"
  BY <1>11 DEF Script, MigrateLocks, Locks, HeldLevel, WantedLevel, Dropped
<1>12. CASE k = "removeRepository"
  BY <1>12 DEF Script, RemoveLocks, Locks, HeldLevel, WantedLevel, Dropped
<1>13. CASE k = "changeStorage"
  BY <1>13 DEF GateFirst, NoConfigChange
<1> QED
  BY <1>0, <1>1, <1>2, <1>3, <1>4, <1>5, <1>6, <1>7,
       <1>8, <1>9, <1>10, <1>11, <1>12, <1>13 DEF Kinds

\* Where no configuration changes no script announces a writer.
LEMMA NoAnnouncement ==
    ASSUME NoConfigChange, NEW p \in Procs, NEW n \in 1..Len(Script(Kind[p]))
    PROVE  Script(Kind[p])[n] \notin {"announce", "write", "drop"}
<1>1. CASE Kind[p] = "put"
  BY <1>1 DEF Script, PutLocks
<1>2. CASE Kind[p] = "putNative"
  BY <1>2 DEF Script, NativePutLocks
<1>3. CASE Kind[p] = "generatePom"
  BY <1>3 DEF Script, PomLocks
<1>4. CASE Kind[p] = "complete"
  BY <1>4 DEF Script, CompleteLocks
<1>5. CASE Kind[p] = "completeNative"
  BY <1>5 DEF Script, NativeCompleteLocks
<1>6. CASE Kind[p] = "proxy"
  BY <1>6 DEF Script, ProxyLocks
<1>7. CASE Kind[p] = "delete"
  BY <1>7 DEF Script, DeleteLocks
<1>8. CASE Kind[p] = "deleteNative"
  BY <1>8 DEF Script, NativeDeleteLocks
<1>9. CASE Kind[p] = "publish"
  BY <1>9 DEF Script, PublishLocks
<1>10. CASE Kind[p] = "cleanUp"
  BY <1>10 DEF Script, CleanUpLocks
<1> QED
  BY <1>1, <1>2, <1>3, <1>4, <1>5, <1>6, <1>7, <1>8, <1>9, <1>10 DEF NoConfigChange

\* A lock that is given up early is the one the script names at that place.
LEMMA DropPlace ==
    ASSUME NEW k \in Kinds, NEW n \in 1..Len(Script(k))
    PROVE  /\ Script(k)[n] = "drop" => Dropped(k, n) = {"config", "metadata"}
           /\ Script(k)[n] # "drop" => Dropped(k, n) = Dropped(k, n - 1)
           /\ Script(k)[n] \notin Dropped(k, n)
<1>1. CASE k = "removeRepository"
  <2>1. Script(k) = RemoveLocks /\ n \in 1..9
    BY <1>1 DEF Script, RemoveLocks
  <2>2. RemoveLocks[n] = "drop" <=> n = 6
    BY <2>1 DEF RemoveLocks
  <2>3. n >= 6 => RemoveLocks[n] \notin {"config", "metadata"}
    BY <2>1 DEF RemoveLocks
  <2>4. /\ n >= 6 => Dropped(k, n) = {"config", "metadata"}
        /\ n > 6 => Dropped(k, n - 1) = {"config", "metadata"}
        /\ n < 6 => Dropped(k, n) = {} /\ Dropped(k, n - 1) = {}
    BY <1>1, <2>1 DEF Dropped
  <2>5. CASE n < 6
    BY <2>1, <2>2, <2>4, <2>5
  <2>6. CASE n = 6
    BY <2>1, <2>2, <2>3, <2>4, <2>6
  <2>7. CASE n > 6
    <3>1. Dropped(k, n) = {"config", "metadata"} /\ Dropped(k, n - 1) = {"config", "metadata"}
      BY <2>1, <2>4, <2>7
    <3>2. Script(k)[n] # "drop" /\ Script(k)[n] \notin {"config", "metadata"}
      BY <2>1, <2>2, <2>3, <2>7
    <3> QED BY <3>1, <3>2
  <2>8. n < 6 \/ n = 6 \/ n > 6
    BY <2>1
  <2> QED BY <2>5, <2>6, <2>7, <2>8
<1>2. CASE k = "migrate"
  <2>1. Script(k) = MigrateLocks /\ n \in 1..8
    BY <1>2 DEF Script, MigrateLocks
  <2>2. MigrateLocks[n] = "drop" <=> n = 7
    BY <2>1 DEF MigrateLocks
  <2>3. n >= 7 => MigrateLocks[n] \notin {"config", "metadata"}
    BY <2>1 DEF MigrateLocks
  <2>4. /\ n >= 7 => Dropped(k, n) = {"config", "metadata"}
        /\ n > 7 => Dropped(k, n - 1) = {"config", "metadata"}
        /\ n < 7 => Dropped(k, n) = {} /\ Dropped(k, n - 1) = {}
    BY <1>2, <2>1 DEF Dropped
  <2>5. CASE n < 7
    BY <2>1, <2>2, <2>4, <2>5
  <2>6. CASE n = 7
    BY <2>1, <2>2, <2>3, <2>4, <2>6
  <2>7. CASE n > 7
    <3>1. Dropped(k, n) = {"config", "metadata"} /\ Dropped(k, n - 1) = {"config", "metadata"}
      BY <2>1, <2>4, <2>7
    <3>2. Script(k)[n] # "drop" /\ Script(k)[n] \notin {"config", "metadata"}
      BY <2>1, <2>2, <2>3, <2>7
    <3> QED BY <3>1, <3>2
  <2>8. n < 7 \/ n = 7 \/ n > 7
    BY <2>1
  <2> QED BY <2>5, <2>6, <2>7, <2>8
<1>3. CASE k \notin {"removeRepository", "migrate"}
  <2>1. Dropped(k, n) = {} /\ Dropped(k, n - 1) = {}
    BY <1>3 DEF Dropped
  <2>2. Script(k)[n] # "drop"
    BY <1>3 DEF Kinds, Script, PutLocks, NativePutLocks, PomLocks, CompleteLocks, NativeCompleteLocks,
       ProxyLocks, DeleteLocks, NativeDeleteLocks, PublishLocks, CleanUpLocks, ChangeStorageLocks
  <2> QED BY <2>1, <2>2
<1> QED BY <1>1, <1>2, <1>3

\* A step keeps the held locks those of the script up to the place its goroutine has reached.
LEMMA OrderStep == OrderInv /\ [Next]_vars => OrderInv'
<1> SUFFICES ASSUME OrderInv, [Next]_vars PROVE OrderInv'
  OBVIOUS
<1> USE KindAssumption
<1>0. GateInv' /\ TypeOK
  BY GateStep DEF OrderInv, GateInv
<1>a. \A p \in Procs : pos[p] \in 0..9 /\ Len(Script(Kind[p])) \in 0..9 /\ Kind[p] \in Kinds
  BY <1>0, ScriptFacts DEF TypeOK
<1> DEFINE FromScript(p) ==
       pc[p] \in {"run", "wait"} =>
         \A l \in held[p] :
            /\ \E n \in 1..pos[p] : l = Script(Kind[p])[n]
            /\ l \notin Dropped(Kind[p], pos[p])
           HasScript(p) ==
       pc[p] \in {"run", "wait"} =>
         \A n \in 1..pos[p] : Script(Kind[p])[n] \in Locks \ Dropped(Kind[p], pos[p])
                               => Script(Kind[p])[n] \in held[p]
           Quiet(p) == NoConfigChange => "announce" \notin held[p]
<1>b. \A p \in Procs : FromScript(p) /\ HasScript(p) /\ Quiet(p)
  BY DEF OrderInv, HeldFromScript, ScriptHeld, OnlyConfigAnnounces
<1>c. SUFFICES ASSUME NEW p \in Procs PROVE FromScript(p)' /\ HasScript(p)' /\ Quiet(p)'
  BY <1>0, <1>c DEF OrderInv, HeldFromScript, ScriptHeld, OnlyConfigAnnounces
<1>1. CASE pc'[p] = pc[p] /\ pos'[p] = pos[p] /\ held'[p] = held[p]
  BY <1>1, <1>b
<1>2. CASE Begin(p)
  <2>1. pos'[p] = 0 /\ held'[p] = {}
    BY <1>0, <1>2 DEF Begin, TypeOK, OrderInv, GateInv, IdleHoldsNothing
  <2> QED BY <2>1
<1>3. CASE Request(p)
  BY <1>0, <1>3, <1>b DEF Request, TypeOK
<1>p. ASSUME pos'[p] = pos[p] + 1, HasNext(p)
      PROVE  /\ pos[p] + 1 \in 1..Len(Script(Kind[p])) /\ Wanted(p) = Script(Kind[p])[pos[p] + 1]
             /\ (pos[p] + 1) - 1 = pos[p] /\ \A n \in 1..(pos[p] + 1) : n = pos[p] + 1 \/ n \in 1..pos[p]
             /\ \A n \in 1..pos[p] : n \in 1..(pos[p] + 1)
  <2>1. pos[p] < Len(Script(Kind[p])) /\ Wanted(p) = Script(Kind[p])[pos[p] + 1]
    BY <1>p DEF HasNext, Wanted
  <2>2. ASSUME NEW x \in 0..9, NEW y \in 0..9, x < y
        PROVE  /\ x + 1 \in 1..y /\ (x + 1) - 1 = x
               /\ \A n \in 1..(x + 1) : n = x + 1 \/ n \in 1..x
               /\ \A n \in 1..x : n \in 1..(x + 1)
    BY <2>2
  <2> QED BY <1>a, <2>1, <2>2
<1>k. Kind[p] \in Kinds /\ \A n : Dropped(Kind[p], n) \subseteq {"config", "metadata"}
  BY <1>a DEF Dropped
<1>4. CASE Acquire(p)
  <2>1. /\ pc'[p] = "run" /\ pos'[p] = pos[p] + 1 /\ held'[p] = held[p] \union {Wanted(p)}
        /\ pc[p] = "wait" /\ HasNext(p) /\ Wanted(p) \in Locks
    BY <1>0, <1>4 DEF Acquire, TypeOK, OrderInv, GateInv, Progress
  <2> DEFINE d == pos[p] + 1
  <2>2. d \in 1..Len(Script(Kind[p])) /\ Wanted(p) = Script(Kind[p])[d] /\ d - 1 = pos[p]
    BY <2>1, <1>p
  <2>d. Wanted(p) # "drop" /\ Wanted(p) \notin Dropped(Kind[p], d)
    <3>1. "drop" \notin Locks
      BY DEF Locks
    <3> QED BY <2>1, <2>2, <3>1, <1>k, DropPlace
  <2>e. Dropped(Kind[p], d) = Dropped(Kind[p], pos[p])
    BY <2>2, <2>d, <1>k, DropPlace
  <2>3. FromScript(p)'
    BY <2>1, <2>2, <2>d, <2>e, <1>p, <1>b
  <2>4. HasScript(p)'
    BY <2>1, <2>2, <2>e, <1>p, <1>b
  <2>5. Quiet(p)'
    BY <2>1, <2>2, <1>b, NoAnnouncement
  <2> QED BY <2>3, <2>4, <2>5
<1>5. CASE Proceed(p) \/ Drop(p)
  <2> DEFINE d == pos[p] + 1
  <2>1. /\ pos'[p] = d /\ HasNext(p) /\ pc'[p] = "run" /\ pc[p] = "run" /\ Wanted(p) \notin Locks
        /\ \/ Wanted(p) # "drop" /\ held'[p] = held[p]
           \/ Wanted(p) = "drop" /\ held'[p] = held[p] \ {"config", "metadata"}
    BY <1>0, <1>5 DEF Proceed, Drop, At, TypeOK, Locks, Works
  <2>2. d \in 1..Len(Script(Kind[p])) /\ Wanted(p) = Script(Kind[p])[d] /\ d - 1 = pos[p]
    BY <2>1, <1>p
  <2>3. CASE Wanted(p) # "drop" /\ held'[p] = held[p]
    <3>1. Dropped(Kind[p], d) = Dropped(Kind[p], pos[p])
      BY <2>2, <2>3, <1>k, DropPlace
    <3>2. FromScript(p)' /\ Quiet(p)'
      BY <2>1, <2>2, <2>3, <3>1, <1>p, <1>b
    <3>3. HasScript(p)'
      BY <2>1, <2>2, <2>3, <3>1, <1>p, <1>b
    <3> QED BY <3>2, <3>3
  <2>4. CASE Wanted(p) = "drop" /\ held'[p] = held[p] \ {"config", "metadata"}
    <3>1. Dropped(Kind[p], d) = {"config", "metadata"}
      BY <2>2, <2>4, <1>k, DropPlace
    <3>2. FromScript(p)' /\ Quiet(p)'
      BY <2>1, <2>2, <2>4, <3>1, <1>p, <1>b
    <3>3. HasScript(p)'
      BY <2>1, <2>2, <2>4, <3>1, <1>k, <1>p, <1>b
    <3> QED BY <3>2, <3>3
  <2> QED BY <2>1, <2>3, <2>4
<1>6. CASE Return(p)
  BY <1>0, <1>6, <1>b DEF Return, TypeOK
<1>7. CASE Finish(p)
  BY <1>0, <1>7, <1>b DEF Finish, TypeOK
<1>8. ASSUME NEW l \in Locks, Unlock(p, l) PROVE FromScript(p)' /\ HasScript(p)' /\ Quiet(p)'
  BY <1>0, <1>8, <1>b DEF Unlock, TypeOK
<1>9. ASSUME NEW q \in Procs, q # p,
             \/ Begin(q) \/ Request(q) \/ Acquire(q) \/ Proceed(q) \/ Drop(q) \/ Return(q) \/ Finish(q)
             \/ \E l \in Locks : Unlock(q, l)
      PROVE  pc'[p] = pc[p] /\ pos'[p] = pos[p] /\ held'[p] = held[p]
  BY <1>0, <1>9 DEF TypeOK, Begin, Request, Acquire, Proceed, Drop, Return, Finish, Unlock
<1>10. CASE UNCHANGED vars
  BY <1>1, <1>10 DEF vars
<1> QED BY <1>1, <1>2, <1>3, <1>4, <1>5, <1>6, <1>7, <1>8, <1>9, <1>10 DEF Next

\* No lock is held at first.
LEMMA OrderInit == Init => OrderInv
<1> SUFFICES ASSUME Init PROVE OrderInv
  OBVIOUS
<1>1. GateInv
  BY GateInit
<1> QED BY <1>1 DEF Init, OrderInv, HeldFromScript, ScriptHeld, OnlyConfigAnnounces

\* The script index after the last lock taken stays within the script.
LEMMA NextIndex == \A a, b \in 0..9 : a < b => a + 1 \in 1..b /\ (a + 1) - 1 = a
OBVIOUS

\* A goroutine that is kept waiting in the set S is kept by one that waits, if at
\* all, for a lock of a higher level; the levels are finite.
LEMMA OrderNoCircle ==
    ASSUME OrderInv, GateFirst \/ NoConfigChange PROVE NoCircularWait
<1> SUFFICES ASSUME NEW S \in (SUBSET Procs) \ {{}},
                    \A p \in S : pc[p] = "wait" /\ Blockers(p, Wanted(p)) \intersect S # {}
             PROVE  FALSE
  BY DEF NoCircularWait
<1> DEFINE Level(p) == WantedLevel(Wanted(p))
<1>0. TypeOK /\ Progress /\ HeldFromScript /\ OnlyConfigAnnounces
  BY DEF OrderInv, GateInv
<1>s. S \subseteq Procs /\ S # {}
  OBVIOUS
<1>w. \A p \in S : p \in Procs /\ pc[p] = "wait"
  BY <1>s
<1>1. \A p \in S : p \in Procs /\ pos[p] < Len(Script(Kind[p])) /\ Wanted(p) \in Locks
  <2> SUFFICES ASSUME NEW p \in S PROVE p \in Procs /\ pos[p] < Len(Script(Kind[p])) /\ Wanted(p) \in Locks
    OBVIOUS
  <2>1. p \in Procs /\ pc[p] = "wait"
    BY <1>w
  <2>2. HasNext(p) /\ Wanted(p) \in Locks
    BY <1>0, <2>1 DEF Progress
  <2> QED BY <2>1, <2>2 DEF HasNext
<1>2. \A p \in S : Level(p) \in 1..7
  BY DEF WantedLevel
<1>3. ASSUME NEW p \in S, NEW l \in held[p] PROVE HeldLevel(l) < Level(p)
  <2>1. PICK m \in 1..pos[p] : l = Script(Kind[p])[m] /\ l \notin Dropped(Kind[p], pos[p])
    BY <1>0, <1>3 DEF HeldFromScript
  <2>2. pos[p] \in 0..9 /\ Len(Script(Kind[p])) \in 0..9 /\ l \in Locks
    BY <1>0, KindAssumption, ScriptFacts DEF TypeOK
  <2>3. pos[p] + 1 \in 1..Len(Script(Kind[p])) /\ m \in 1..((pos[p] + 1) - 1)
    BY <1>1, <2>1, <2>2, NextIndex
  <2>4. (pos[p] + 1) - 1 = pos[p]
    BY <2>2
  <2> QED BY <1>1, <2>1, <2>2, <2>3, <2>4, ScriptOrder DEF Wanted
<1>4. ASSUME NEW p \in S, NEW q \in Blockers(p, Wanted(p)) PROVE \E l \in held[q] : HeldLevel(l) = Level(p)
  <2>1. CASE Wanted(p) = "read"
    <3>1. "announce" \in held[q] /\ q \in Procs
      BY <1>4, <2>1 DEF Blockers
    <3>2. GateFirst
      BY <1>0, <3>1 DEF OnlyConfigAnnounces
    <3> QED BY <2>1, <3>1, <3>2 DEF HeldLevel, WantedLevel
  <2>2. CASE Wanted(p) = "write"
    <3>1. "read" \in held[q] /\ q \in Procs
      BY <1>4, <2>2 DEF Blockers
    <3>2. pos[p] + 1 \in 1..Len(Script(Kind[p]))
      <4>1. pos[p] \in 0..9 /\ Len(Script(Kind[p])) \in 0..9
        BY <1>0, <1>1, KindAssumption, ScriptFacts DEF TypeOK
      <4> QED BY <4>1, <1>1, NextIndex
    <3>3. GateFirst
      BY <1>1, <2>2, <3>2, NoAnnouncement DEF Wanted
    <3> QED BY <2>2, <3>1, <3>3 DEF HeldLevel, WantedLevel
  <2>3. CASE Wanted(p) \notin {"read", "write"}
    <3>1. Wanted(p) \in held[q]
      BY <1>4, <2>3 DEF Blockers
    <3> QED BY <2>3, <3>1 DEF HeldLevel, WantedLevel
  <2> QED BY <2>1, <2>2, <2>3
<1>5. \A p \in S : \E q \in S : Level(p) < Level(q)
  BY <1>3, <1>4
<1> HIDE DEF Level
<1>n. ASSUME NEW p \in S PROVE Level(p) <= 6
  <2>1. PICK q \in S : Level(p) < Level(q)
    BY <1>5
  <2>2. Level(p) \in 1..7 /\ Level(q) \in 1..7
    BY <1>2
  <2> QED BY <2>1, <2>2
<1>6. ASSUME NEW p \in S PROVE Level(p) <= 5
  <2>1. PICK q \in S : Level(p) < Level(q)
    BY <1>5
  <2>2. Level(p) \in 1..7 /\ Level(q) \in 1..7 /\ Level(q) <= 6
    BY <1>2, <1>n
  <2> QED BY <2>1, <2>2
<1>7. ASSUME NEW p \in S PROVE Level(p) <= 4
  <2>1. PICK q \in S : Level(p) < Level(q)
    BY <1>5
  <2>2. Level(p) \in 1..7 /\ Level(q) \in 1..7 /\ Level(q) <= 5
    BY <1>2, <1>6
  <2> QED BY <2>1, <2>2
<1>8. ASSUME NEW p \in S PROVE Level(p) <= 3
  <2>1. PICK q \in S : Level(p) < Level(q)
    BY <1>5
  <2>2. Level(p) \in 1..7 /\ Level(q) \in 1..7 /\ Level(q) <= 4
    BY <1>2, <1>7
  <2> QED BY <2>1, <2>2
<1>9. ASSUME NEW p \in S PROVE Level(p) <= 2
  <2>1. PICK q \in S : Level(p) < Level(q)
    BY <1>5
  <2>2. Level(p) \in 1..7 /\ Level(q) \in 1..7 /\ Level(q) <= 3
    BY <1>2, <1>8
  <2> QED BY <2>1, <2>2
<1>10. ASSUME NEW p \in S PROVE Level(p) <= 1
  <2>1. PICK q \in S : Level(p) < Level(q)
    BY <1>5
  <2>2. Level(p) \in 1..7 /\ Level(q) \in 1..7 /\ Level(q) <= 2
    BY <1>2, <1>9
  <2> QED BY <2>1, <2>2
<1>11. PICK p \in S : TRUE
  BY <1>s
<1>12. PICK q \in S : Level(p) < Level(q)
  BY <1>5
<1>13. Level(p) \in 1..7 /\ Level(q) \in 1..7 /\ Level(q) <= 1
  BY <1>2, <1>10
<1> QED BY <1>12, <1>13

\* The locks of a repository never deadlock, however many goroutines meet, when
\* every handler enters the gate first or when no configuration changes: the two
\* situations outside which a handler's lock order is reversed.
THEOREM DeadlockFreedom ==
    ASSUME GateFirst \/ NoConfigChange PROVE Spec => []NoCircularWait
<1>1. Init => OrderInv
  BY OrderInit
<1>2. OrderInv /\ [Next]_vars => OrderInv'
  BY OrderStep
<1>3. OrderInv => NoCircularWait
  BY OrderNoCircle
<1> QED BY <1>1, <1>2, <1>3, PTL DEF Spec

-----------------------------------------------------------------------------
(* A change of the configuration is alone.                                 *)

\* The scripts enter the gate before they do their work, as readers or as
\* writers; files are tidied up and removed under the release mutex.
LEMMA WorkIsGated ==
    ASSUME NEW k \in Kinds, NEW n \in 1..Len(Script(k))
    PROVE  /\ Script(k)[n] = "files" => \E m \in 1..(n - 1) : Script(k)[m] = "read"
           /\ Script(k)[n] \in {"change", "remove"} => \E m \in 1..(n - 1) : Script(k)[m] = "write"
           /\ Script(k)[n] \in {"tidy", "remove"} => \E m \in 1..(n - 1) : Script(k)[m] = "storage"
<1> DEFINE Gated(s) == \A i \in 1..Len(s) :
       /\ s[i] = "files" => \E m \in 1..(i - 1) : s[m] = "read"
       /\ s[i] \in {"change", "remove"} => \E m \in 1..(i - 1) : s[m] = "write"
       /\ s[i] \in {"tidy", "remove"} => \E m \in 1..(i - 1) : s[m] = "storage"
<1>1. Gated(PutLocks) BY DEF PutLocks
<1>2. Gated(NativePutLocks) BY DEF NativePutLocks
<1>3. Gated(PomLocks) BY DEF PomLocks
<1>4. Gated(CompleteLocks) BY DEF CompleteLocks
<1>5. Gated(NativeCompleteLocks) BY DEF NativeCompleteLocks
<1>6. Gated(ProxyLocks) BY DEF ProxyLocks
<1>7. Gated(DeleteLocks) BY DEF DeleteLocks
<1>8. Gated(NativeDeleteLocks) BY DEF NativeDeleteLocks
<1>9. Gated(PublishLocks) BY DEF PublishLocks
<1>10. Gated(CleanUpLocks) BY DEF CleanUpLocks
<1>11. Gated(MigrateLocks) BY DEF MigrateLocks
<1>12. Gated(RemoveLocks) BY DEF RemoveLocks
<1>13. Gated(ChangeStorageLocks) BY DEF ChangeStorageLocks
<1> HIDE DEF Gated
<1>14. Gated(Script(k))
  BY <1>1, <1>2, <1>3, <1>4, <1>5, <1>6, <1>7, <1>8, <1>9, <1>10, <1>11, <1>12, <1>13
     DEF Script, Kinds
<1> QED BY <1>14 DEF Gated

\* Work is done with the locks in hand that the script names before it.
LEMMA WorkHolds ==
    ASSUME OrderInv, NEW p \in Procs
    PROVE  /\ At(p, {"files"}) => "read" \in held[p]
           /\ At(p, {"change", "remove"}) => "write" \in held[p]
           /\ At(p, {"tidy", "remove"}) => "storage" \in held[p]
<1>1. Kind[p] \in Kinds /\ pos[p] \in 0..9 /\ Len(Script(Kind[p])) \in 0..9
  BY KindAssumption, ScriptFacts DEF OrderInv, GateInv, TypeOK
<1>2. HasNext(p) => pos[p] + 1 \in 1..Len(Script(Kind[p])) /\ (pos[p] + 1) - 1 = pos[p]
  BY <1>1 DEF HasNext
<1>3. ASSUME NEW l \in {"read", "write", "storage"}, pc[p] = "run",
             NEW m \in 1..pos[p], Script(Kind[p])[m] = l
      PROVE  l \in held[p]
  <2>1. l \in Locks \ Dropped(Kind[p], pos[p])
    BY DEF Locks, Dropped
  <2> QED BY <1>3, <2>1 DEF OrderInv, ScriptHeld
<1> QED BY <1>1, <1>2, <1>3, WorkIsGated DEF At, Wanted

\* The release mutex has one holder.
StorageAlone == \A p, q \in Procs : "storage" \in held[p] /\ "storage" \in held[q] => p = q

\* A step keeps it so.
LEMMA StorageStep == TypeOK /\ StorageAlone /\ [Next]_vars => StorageAlone'
<1> SUFFICES ASSUME TypeOK, StorageAlone, [Next]_vars PROVE StorageAlone'
  OBVIOUS
<1>1. ASSUME NEW p \in Procs, Acquire(p) PROVE StorageAlone'
  <2>1. Wanted(p) = "storage" => \A q \in Procs \ {p} : "storage" \notin held[q]
    BY <1>1 DEF Acquire, Blockers
  <2> QED BY <1>1, <2>1 DEF Acquire, TypeOK, StorageAlone
<1>2. ASSUME NEW p \in Procs,
             \/ Begin(p) \/ Request(p) \/ Proceed(p) \/ Drop(p) \/ Return(p) \/ Finish(p)
             \/ \E l \in Locks : Unlock(p, l)
      PROVE  \A q \in Procs : held'[q] \subseteq held[q]
  BY <1>2 DEF TypeOK, Begin, Request, Proceed, Drop, Return, Finish, Unlock
<1>3. CASE UNCHANGED vars
  BY <1>3 DEF vars, StorageAlone
<1> QED BY <1>1, <1>2, <1>3 DEF Next, StorageAlone

\* A change of the configuration of a repository meets no change of its files by a
\* handler and no other change of the configuration, and the removal of the files
\* no clean-up, whatever handlers run, however many, and in whatever order they
\* take their locks: each of them is in the gate, or has the release mutex, while
\* it works.
THEOREM MigrationExclusive == Spec => []MigrationAlone
<1> DEFINE Inv == OrderInv /\ StorageAlone
<1>1. Init => Inv
  BY OrderInit DEF Init, StorageAlone
<1>2. Inv /\ [Next]_vars => Inv'
  BY OrderStep, StorageStep DEF OrderInv, GateInv
<1>3. Inv => MigrationAlone
  <2> SUFFICES ASSUME Inv, NEW p \in Procs, NEW q \in Procs, p # q
               PROVE  /\ At(p, {"change", "remove"}) => ~At(q, {"files", "change", "remove"})
                      /\ At(p, {"remove"}) => ~At(q, {"tidy"})
    BY DEF MigrationAlone
  <2>1. GateExclusive /\ OneWriter /\ Announced
    BY DEF OrderInv, GateInv
  <2>2. At(p, {"change", "remove"}) => "write" \in held[p] /\ "announce" \in held[p]
    BY <2>1, WorkHolds DEF Announced
  <2>3. At(q, {"files"}) => "read" \in held[q]
    BY WorkHolds
  <2>4. At(q, {"change", "remove"}) => "announce" \in held[q]
    BY <2>1, WorkHolds DEF Announced
  <2>5. At(q, {"files", "change", "remove"}) => At(q, {"files"}) \/ At(q, {"change", "remove"})
    BY DEF At
  <2>6. At(p, {"remove"}) => At(p, {"tidy", "remove"})
    BY DEF At
  <2>7. At(q, {"tidy"}) => At(q, {"tidy", "remove"})
    BY DEF At
  <2>8. At(p, {"remove"}) /\ At(q, {"tidy"}) => "storage" \in held[p] /\ "storage" \in held[q]
    BY <2>6, <2>7, WorkHolds
  <2> QED BY <2>1, <2>2, <2>3, <2>4, <2>5, <2>8 DEF GateExclusive, OneWriter, StorageAlone
<1> QED BY <1>1, <1>2, <1>3, PTL DEF Spec

(***************************************************************************)
(* The mail queue                                                          *)
(***************************************************************************)

-----------------------------------------------------------------------------
(* Types                                                                   *)

Pcs == {"idle", "recover", "notify", "advance", "process", "submit", "answer", "refund", "save"}

\* Results a worker keeps until they are saved, and none.
Results == [job : Jobs \cup {Absent}, status : {"none", "ended", "unsent", "checking"}, refund : BOOLEAN,
            account : (SUBSET Jobs) \cup {Absent}, delay : BOOLEAN]

MailerStates == [pc : Pcs, job : Jobs \cup {Absent}, status : {"none", "queued", "checking"},
                 paced : BOOLEAN, cursor : Nat, recovered : BOOLEAN, dead : BOOLEAN,
                 account : SUBSET Jobs, pending : Results, lost : BOOLEAN]

JobStates == {"none"} \cup Open \cup Final

\* The places of a step at which the worker has no result yet.
Working == {"recover", "notify", "advance", "process", "submit", "answer"}

Typed ==
    /\ site \in Installations
    /\ mailer \in [Mailers -> MailerStates]
    /\ job \in [Jobs -> JobStates] /\ submitted \in [Jobs -> Nat]
    /\ lease \in [owner : deployed \cup {Absent}, valid : BOOLEAN]
    /\ nextSend \in {"past", "delay"} \cup deployed
    /\ cursor \in Nat /\ logged \in Nat /\ cursor <= logged /\ logged <= site.entries
    /\ account \in SUBSET Jobs /\ billed \in SUBSET Jobs /\ late \in BOOLEAN

\* What a worker holds at each of its places.
WorkerInv == \A p \in Mailers : LET m == mailer[p] IN
    /\ m.pc # "idle" => p \in deployed
    /\ m.pending.status = "none" => m.pending = NoResult
    /\ m.pending.status # "none" => m.pending.job \in Jobs
    /\ m.pc \in Working => m.pending.status = "none"
    /\ m.pc \in {"refund", "save"} => m.pending.status # "none"
    /\ m.pc \in {"process", "submit", "answer"} => m.job \in Jobs
    /\ m.pc = "process" => m.status \in {"queued", "checking"}

\* The other workers are where they were.
Rest(p) == \A q \in Mailers : q # p => mailer'[q] = mailer[q]

\* The installation, in the form the provers use it.
LEMMA Deployment ==
    ASSUME site \in Installations
    PROVE  /\ deployed \in SUBSET Mailers /\ site.pending \in Nat /\ site.quota \in Nat
           /\ site.entries \in Nat /\ site.entries <= MaxJobs
           /\ Absent \notin Mailers /\ "past" \notin Mailers /\ "delay" \notin Mailers
           /\ Absent \notin SUBSET Jobs /\ Absent \notin Jobs
BY InstallationsAssumption, AbsentAssumption, BoundAssumption DEF deployed

\* What a worker is after a step: its fields.
Becomes(p, place, result, lost) ==
    /\ mailer'[p].pc = place /\ mailer'[p].job = Absent /\ mailer'[p].status = "none"
    /\ mailer'[p].paced = FALSE /\ mailer'[p].cursor = 0
    /\ mailer'[p].recovered = mailer[p].recovered
    /\ mailer'[p].dead = FALSE /\ mailer'[p].account = {}
    /\ mailer'[p].pending = result /\ (mailer'[p].lost <=> lost)

\* The end of a step of the worker.
LEMMA EndStepFields ==
    ASSUME Typed, NEW p \in Mailers, NEW r \in Results, EndStep(p, r)
    PROVE  /\ Rest(p) /\ mailer' \in [Mailers -> MailerStates]
           /\ Becomes(p, "idle", r, mailer[p].lost /\ r # NoResult)
<1> DEFINE x == [Fresh EXCEPT !.recovered = mailer[p].recovered, !.pending = r,
                              !.lost = mailer[p].lost /\ r # NoResult]
<1>1. mailer' = [mailer EXCEPT ![p] = x]
  BY DEF EndStep
<1>2. Rest(p) /\ mailer'[p] = x
  BY <1>1 DEF Rest, Typed
<1>3. x \in MailerStates
  BY DEF Fresh, Typed, MailerStates, Pcs
<1>4. mailer' \in [Mailers -> MailerStates]
  BY <1>1, <1>3 DEF Typed
<1>5. Becomes(p, "idle", r, mailer[p].lost /\ r # NoResult)
  BY <1>2 DEF Becomes, Fresh
<1> QED BY <1>2, <1>4, <1>5

\* The result of a step of the worker.
LEMMA ResultFields ==
    ASSUME Typed, NEW p \in Mailers, NEW status \in {"ended", "unsent", "checking"}, NEW refund \in BOOLEAN,
           NEW saved \in (SUBSET Jobs) \cup {Absent}, NEW delay \in BOOLEAN,
           Result(p, status, refund, saved, delay)
    PROVE  /\ Rest(p) /\ mailer' \in [Mailers -> MailerStates]
           /\ Becomes(p, IF refund THEN "refund" ELSE "save",
                      [job |-> mailer[p].job, status |-> status, refund |-> refund,
                       account |-> saved, delay |-> delay], mailer[p].lost)
<1> DEFINE r == [job |-> mailer[p].job, status |-> status, refund |-> refund, account |-> saved, delay |-> delay]
           x == [Fresh EXCEPT !.pc = IF refund THEN "refund" ELSE "save", !.recovered = mailer[p].recovered,
                              !.lost = mailer[p].lost, !.pending = r]
<1>1. mailer' = [mailer EXCEPT ![p] = x]
  BY DEF Result
<1>2. Rest(p) /\ mailer'[p] = x
  BY <1>1 DEF Rest, Typed
<1>3. r \in Results
  BY DEF Results, Typed, MailerStates
<1>4. x \in MailerStates
  BY <1>3 DEF Fresh, Typed, MailerStates, Pcs
<1>5. mailer' \in [Mailers -> MailerStates]
  BY <1>1, <1>4 DEF Typed
<1>6. Becomes(p, IF refund THEN "refund" ELSE "save", r, mailer[p].lost)
  BY <1>2 DEF Becomes, Fresh
<1> QED BY <1>2, <1>5, <1>6

\* NoResult is a result like the others for the types.
LEMMA NothingKept ==
    /\ NoResult \in Results /\ NoResult.status = "none" /\ ~NoResult.refund /\ ~NoResult.delay
    /\ NoResult.account = Absent /\ NoResult.job = Absent
    /\ Fresh \in MailerStates /\ Fresh.pc = "idle" /\ Fresh.pending = NoResult /\ ~Fresh.lost
    /\ Fresh.cursor = 0 /\ Fresh.recovered = FALSE
BY DEF NoResult, Results, Fresh, MailerStates, Pcs

-----------------------------------------------------------------------------
(* What the steps do                                                       *)

\* The step of a worker is over; it keeps an unsaved result, or nothing.
Ended(p) ==
    /\ Rest(p) /\ mailer' \in [Mailers -> MailerStates]
    /\ mailer'[p].pc = "idle" /\ mailer'[p].cursor = 0
    /\ \/ mailer'[p].pending = NoResult /\ ~mailer'[p].lost
       \/ mailer'[p].pending = mailer[p].pending /\ mailer'[p].lost = mailer[p].lost
    /\ \/ mailer'[p].recovered = FALSE
       \/ /\ mailer'[p].recovered = mailer[p].recovered /\ mailer[p].pc \notin {"submit", "answer"}
          /\ \/ mailer'[p].pending = mailer[p].pending \/ mailer[p].pending.status = "none"
             \/ ~Accepts(mailer[p].pending.job)
    /\ UNCHANGED <<site, job, nextSend, cursor, account, logged, provider, late>>
    /\ \/ lease' = lease
       \/ /\ lease' \in [owner : {Absent}, valid : BOOLEAN]
          /\ lease.owner = p /\ mailer'[p].pending = NoResult

\* The steps that end without writing a job, and the end of the process.
LEMMA EndingSteps ==
    ASSUME Typed, WorkerInv, NEW p \in Mailers,
           NoJob(p) \/ SaveFinalized(p) \/ Refused(p) \/ StepFails(p) \/ MailCrash(p) \/ StopMailer(p)
    PROVE  Ended(p)
<1>1. CASE NoJob(p) \/ SaveFinalized(p)
  <2>1. EndStep(p, NoResult) /\ UNCHANGED <<site, mailTables, logged, provider, late>>
    BY <1>1 DEF NoJob, SaveFinalized
  <2>2. Rest(p) /\ mailer' \in [Mailers -> MailerStates] /\ Becomes(p, "idle", NoResult, mailer[p].lost /\ NoResult # NoResult)
    BY <2>1, EndStepFields, NothingKept
  <2>3. /\ mailer[p].pc \notin {"submit", "answer"}
        /\ mailer[p].pending.status = "none" \/ ~Accepts(mailer[p].pending.job)
    BY <1>1 DEF NoJob, SaveFinalized, Notified, Saves, WorkerInv, Working
  <2> QED BY <2>1, <2>2, <2>3 DEF Ended, Becomes, mailTables
<1>2. CASE Refused(p) \/ StepFails(p)
  <2>1. EndStep(p, mailer[p].pending) /\ UNCHANGED <<site, mailTables, logged, provider, late>>
    BY <1>2 DEF Refused, StepFails, Kept
  <2>2. mailer[p].pending \in Results /\ mailer[p].lost \in BOOLEAN
    BY DEF Typed, MailerStates
  <2>3. /\ Rest(p) /\ mailer' \in [Mailers -> MailerStates]
        /\ Becomes(p, "idle", mailer[p].pending, mailer[p].lost /\ mailer[p].pending # NoResult)
    BY <2>1, <2>2, EndStepFields
  <2>4. mailer'[p].lost \in BOOLEAN
    BY <2>3 DEF MailerStates
  <2>5. mailer[p].pc \notin {"submit", "answer"}
    BY <1>2 DEF Refused, StepFails
  <2>6. mailer'[p].pending = mailer[p].pending /\ mailer'[p].recovered = mailer[p].recovered
    BY <2>3 DEF Becomes
  <2> QED BY <2>1, <2>2, <2>3, <2>4, <2>5, <2>6 DEF Ended, Becomes, mailTables
<1>3. CASE MailCrash(p) \/ StopMailer(p)
  <2>1. /\ mailer' = [mailer EXCEPT ![p] = Fresh]
        /\ UNCHANGED <<site, job, nextSend, cursor, account, logged, provider, late>>
    BY <1>3 DEF MailCrash, StopMailer
  <2>2. /\ Rest(p) /\ mailer' \in [Mailers -> MailerStates]
        /\ mailer'[p].pc = "idle" /\ mailer'[p].cursor = 0
        /\ mailer'[p].pending = NoResult /\ ~mailer'[p].lost /\ mailer'[p].recovered = FALSE
    BY <2>1, NothingKept DEF Rest, Typed
  <2>3. lease' = lease \/ (lease.owner = p /\ lease' \in [owner : {Absent}, valid : BOOLEAN])
    <3>1. \/ lease' = lease
          \/ lease.owner = p /\ lease' \in {[lease EXCEPT !.owner = Absent], [owner |-> Absent, valid |-> FALSE]}
      BY <1>3 DEF MailCrash, StopMailer
    <3>2. lease \in [owner : deployed \cup {Absent}, valid : BOOLEAN]
      BY DEF Typed
    <3>3. [lease EXCEPT !.owner = Absent] \in [owner : {Absent}, valid : BOOLEAN]
      BY <3>2
    <3>4. [owner |-> Absent, valid |-> FALSE] \in [owner : {Absent}, valid : BOOLEAN]
      OBVIOUS
    <3> QED BY <3>1, <3>3, <3>4, Zenon
  <2> QED BY <2>1, <2>2, <2>3 DEF Ended
<1> QED BY <1>1, <1>2, <1>3

\* A worker has a result to save: of what it processed, submitted or heard.
Finished(p) ==
    LET m == mailer[p]
        r == mailer'[p].pending
    IN  /\ Rest(p) /\ mailer' \in [Mailers -> MailerStates]
        /\ mailer'[p].pc \in {"refund", "save"} /\ mailer'[p].cursor = 0 /\ mailer'[p].lost = m.lost
        /\ mailer'[p].recovered = m.recovered /\ (mailer'[p].pc = "refund" => r.refund)
        /\ m.pc \in {"process", "submit", "answer"} /\ m.pending.status = "none"
        /\ r.job = m.job /\ r.status # "none"
        /\ r.status = "unsent" => m.pc = "process" /\ m.status = "queued"
        /\ r.status = "checking" => m.pc = "answer"
        /\ r.account # Absent => m.pc = "process" /\ r.account = m.account /\ ~r.refund
        /\ r.delay => m.pc \in {"submit", "answer"} \/ ~m.paced
        /\ r.refund => m.pc = "submit" \/ r.job \notin billed'
        /\ r.refund => m.pc # "process" \/ m.status = "checking"
        /\ billed' \subseteq billed
        /\ UNCHANGED <<site, job, lease, nextSend, cursor, account, logged, submitted, late>>

\* The steps that leave a result.
LEMMA FinishingSteps ==
    ASSUME Typed, WorkerInv, NEW p \in Mailers,
           GiveUp(p) \/ FailPreparation(p) \/ Checked(p) \/ NotSubmitted(p) \/ Answer(p)
    PROVE  Finished(p)
<1> USE DEF mailTables, provider
<1>0. /\ mailer[p].account \in SUBSET Jobs /\ mailer[p].status \in {"none", "queued", "checking"}
      /\ mailer[p].lost \in BOOLEAN /\ mailer[p].paced \in BOOLEAN
      /\ mailer[p].pc \in Working => mailer[p].pending.status = "none"
      /\ mailer[p].pc = "process" => mailer[p].status \in {"queued", "checking"}
  BY DEF Typed, MailerStates, WorkerInv
<1>1. ASSUME NEW status \in {"ended", "unsent", "checking"}, NEW refund \in BOOLEAN,
             NEW saved \in (SUBSET Jobs) \cup {Absent}, NEW delay \in BOOLEAN,
             Result(p, status, refund, saved, delay),
             mailer[p].pc \in {"process", "submit", "answer"},
             status = "unsent" => mailer[p].pc = "process" /\ mailer[p].status = "queued",
             status = "checking" => mailer[p].pc = "answer",
             saved # Absent => mailer[p].pc = "process" /\ saved = mailer[p].account /\ ~refund,
             delay => mailer[p].pc \in {"submit", "answer"} \/ ~mailer[p].paced,
             refund => mailer[p].pc = "submit" \/ mailer[p].job \notin billed',
             refund => mailer[p].pc # "process" \/ mailer[p].status = "checking",
             billed' \subseteq billed,
             UNCHANGED <<site, job, lease, nextSend, cursor, account, logged, submitted, late>>
      PROVE  Finished(p)
  <2> DEFINE r == [job |-> mailer[p].job, status |-> status, refund |-> refund, account |-> saved, delay |-> delay]
  <2>1. /\ Rest(p) /\ mailer' \in [Mailers -> MailerStates]
        /\ Becomes(p, IF refund THEN "refund" ELSE "save", r, mailer[p].lost)
    BY <1>1, ResultFields
  <2>2. /\ r.job = mailer[p].job /\ r.status = status /\ r.refund = refund /\ r.account = saved
        /\ r.delay = delay
    OBVIOUS
  <2>3. mailer'[p].lost \in BOOLEAN
    BY <2>1 DEF MailerStates
  <2> HIDE DEF r
  <2> QED BY <1>0, <1>1, <2>1, <2>2, <2>3 DEF Finished, Becomes, Working
<1>2. CASE GiveUp(p)
  <2> DEFINE status == IF mailer[p].status = "checking" THEN "ended" ELSE "unsent"
  <2>1. /\ status \in {"ended", "unsent", "checking"} /\ status # "checking"
        /\ status = "unsent" => mailer[p].status # "checking"
    OBVIOUS
  <2>2. Result(p, status, FALSE, Absent, FALSE) /\ mailer[p].pc = "process"
    BY <1>2 DEF GiveUp
  <2>3. UNCHANGED <<site, job, lease, nextSend, cursor, account, logged, submitted, billed, late>>
    BY <1>2 DEF GiveUp
  <2> HIDE DEF status
  <2> QED BY <1>0, <1>1, <2>1, <2>2, <2>3
<1>3. CASE FailPreparation(p)
  <2> DEFINE delay == mailer[p].status # "checking"
  <2>1. delay \in BOOLEAN /\ (delay => ~mailer[p].paced)
    BY <1>0, <1>3 DEF FailPreparation, NotYet
  <2>2. Result(p, "ended", FALSE, mailer[p].account, delay) /\ mailer[p].pc = "process"
    BY <1>3 DEF FailPreparation
  <2>3. UNCHANGED <<site, job, lease, nextSend, cursor, account, logged, submitted, billed, late>>
    BY <1>3 DEF FailPreparation
  <2> HIDE DEF delay
  <2> QED BY <1>0, <1>1, <2>1, <2>2, <2>3
<1>4. CASE Checked(p)
  <2>1. PICK refund \in BOOLEAN :
           /\ billed' = IF refund THEN billed \ {mailer[p].job} ELSE billed
           /\ Result(p, "ended", refund, Absent, FALSE)
    BY <1>4 DEF Checked
  <2>2. /\ mailer[p].pc = "process" /\ mailer[p].status = "checking"
        /\ UNCHANGED <<site, job, lease, nextSend, cursor, account, logged, submitted, late>>
    BY <1>4 DEF Checked
  <2>3. billed' \subseteq billed /\ (refund => mailer[p].job \notin billed')
    BY <2>1
  <2> QED BY <1>0, <1>1, <2>1, <2>2, <2>3
<1>5. CASE NotSubmitted(p)
  <2>1. PICK refund \in BOOLEAN : Result(p, "ended", refund, Absent, TRUE)
    BY <1>5 DEF NotSubmitted
  <2>2. /\ mailer[p].pc = "submit"
        /\ UNCHANGED <<site, job, lease, nextSend, cursor, account, logged, submitted, billed, late>>
    BY <1>5 DEF NotSubmitted
  <2> QED BY <1>0, <1>1, <2>1, <2>2
<1>6. CASE Answer(p)
  <2>1. /\ mailer[p].pc = "answer"
        /\ UNCHANGED <<site, job, lease, nextSend, cursor, account, logged, submitted, billed, late>>
    BY <1>6 DEF Answer
  <2>2. \/ Result(p, "checking", FALSE, Absent, TRUE)
        \/ Result(p, "ended", FALSE, Absent, TRUE)
        \/ mailer[p].job \notin billed /\ Result(p, "ended", TRUE, Absent, TRUE)
    BY <1>6 DEF Answer, Refundable
  <2>3. CASE Result(p, "checking", FALSE, Absent, TRUE)
    BY <1>0, <1>1, <2>1, <2>3
  <2>4. CASE Result(p, "ended", FALSE, Absent, TRUE)
    BY <1>0, <1>1, <2>1, <2>4
  <2>5. CASE mailer[p].job \notin billed /\ Result(p, "ended", TRUE, Absent, TRUE)
    BY <1>0, <1>1, <2>1, <2>5
  <2> QED BY <2>2, <2>3, <2>4, <2>5
<1> QED BY <1>2, <1>3, <1>4, <1>5, <1>6

\* A worker moves on within its step.
Shifts(p) ==
    /\ Rest(p) /\ mailer' \in [Mailers -> MailerStates]
    /\ mailer'[p].lost = mailer[p].lost
    /\ mailer'[p].recovered = mailer[p].recovered \/ mailer[p].pc = "recover"

\* The marks of interrupted submissions are gone.
Recovered(p) ==
    /\ Shifts(p) /\ mailer[p].pc = "recover" /\ mailer'[p].pc = "notify"
    /\ mailer'[p].pending = mailer[p].pending /\ mailer'[p].paced = mailer[p].paced
    /\ mailer'[p].cursor = mailer[p].cursor
    /\ Owns(p) /\ job' \in [Jobs -> JobStates]
    /\ \A j \in Jobs : job'[j] = IF job[j] = "sending" THEN "interrupted" ELSE job[j]
    /\ UNCHANGED <<site, lease, nextSend, cursor, account, logged, provider, late>>

\* The next audit entry has its job.
NoticeSent(p) ==
    /\ Shifts(p) /\ mailer[p].pc = "notify" /\ mailer'[p].pc = "advance"
    /\ mailer'[p].pending = mailer[p].pending /\ mailer'[p].paced = mailer[p].paced
    /\ mailer'[p].cursor = mailer[p].cursor /\ mailer[p].cursor + 1 <= logged
    /\ job' \in [Jobs -> JobStates]
    /\ \A j \in Jobs : \/ job'[j] = job[j]
                       \/ job[j] = "none" /\ job'[j] = "queued"
    /\ job'[mailer[p].cursor + 1] # "none"
    /\ UNCHANGED <<site, lease, nextSend, cursor, account, logged, provider, late>>

\* The worker has passed the entry, and the cursor too if the lease is there.
Advanced(p) ==
    /\ Shifts(p) /\ mailer[p].pc = "advance" /\ mailer'[p].pc = "notify"
    /\ mailer'[p].pending = mailer[p].pending /\ mailer'[p].paced = mailer[p].paced
    /\ mailer'[p].cursor = mailer[p].cursor + 1
    /\ cursor' \in {cursor, mailer[p].cursor + 1}
    /\ UNCHANGED <<site, job, lease, nextSend, account, logged, provider, late>>

\* It recovers, announces entries and moves its own cursor.
LEMMA EarlySteps ==
    ASSUME Typed, NEW p \in Mailers
    PROVE  /\ Recover(p) => Recovered(p)
           /\ Notify(p) => NoticeSent(p)
           /\ AdvanceCursor(p) => Advanced(p)
<1> USE DEF mailTables
<1>m. mailer \in [Mailers -> MailerStates] /\ mailer[p] \in MailerStates
  BY DEF Typed
<1>1. ASSUME Recover(p)
      PROVE  /\ Shifts(p) /\ mailer'[p].pc = "notify"
             /\ mailer'[p].pending = mailer[p].pending /\ mailer'[p].paced = mailer[p].paced
             /\ mailer'[p].cursor = mailer[p].cursor
  BY <1>1, <1>m DEF Recover, Shifts, Rest, MailerStates, Pcs
<1>2. Recover(p) => /\ mailer[p].pc = "recover" /\ Owns(p)
                    /\ \A j \in Jobs : job'[j] = IF job[j] = "sending" THEN "interrupted" ELSE job[j]
                    /\ UNCHANGED <<site, lease, nextSend, cursor, account, logged, provider, late>>
  BY DEF Recover, Interrupted
<1>3. ASSUME Notify(p)
      PROVE  /\ Shifts(p) /\ mailer'[p].pc = "advance"
             /\ mailer'[p].pending = mailer[p].pending /\ mailer'[p].paced = mailer[p].paced
             /\ mailer'[p].cursor = mailer[p].cursor
  BY <1>3, <1>m DEF Notify, Goto, Shifts, Rest, MailerStates, Pcs
<1>4. ASSUME Notify(p)
      PROVE  /\ mailer[p].pc = "notify" /\ mailer[p].cursor + 1 <= logged
             /\ \A j \in Jobs : \/ job'[j] = job[j]
                                \/ job[j] = "none" /\ job'[j] = "queued"
             /\ job'[mailer[p].cursor + 1] # "none"
             /\ UNCHANGED <<site, lease, nextSend, cursor, account, logged, provider, late>>
  <2> DEFINE k == mailer[p].cursor + 1
  <2>1. k \in Jobs
    <3>1. mailer[p].cursor \in Nat /\ logged <= MaxJobs /\ logged \in Nat
      BY <1>m, Deployment, BoundAssumption DEF Typed, MailerStates
    <3>2. k <= logged
      BY <1>4 DEF Notify
    <3> QED BY <3>1, <3>2, BoundAssumption DEF Jobs
  <2>2. job' = IF job[k] # "none" THEN job ELSE [job EXCEPT ![k] = "queued"]
    BY <1>4 DEF Notify, Known, Queued
  <2>3. job \in [Jobs -> JobStates]
    BY DEF Typed
  <2>4. /\ job'[k] # "none"
        /\ \A j \in Jobs : \/ job'[j] = job[j]
                           \/ job[j] = "none" /\ job'[j] = "queued"
    BY <2>1, <2>2, <2>3
  <2>5. /\ mailer[p].pc = "notify" /\ k <= logged
        /\ UNCHANGED <<site, lease, nextSend, cursor, account, logged, provider, late>>
    BY <1>4 DEF Notify
  <2> QED BY <2>4, <2>5
<1>5. ASSUME AdvanceCursor(p)
      PROVE  /\ Shifts(p) /\ mailer'[p].pc = "notify"
             /\ mailer'[p].pending = mailer[p].pending /\ mailer'[p].paced = mailer[p].paced
             /\ mailer'[p].cursor = mailer[p].cursor + 1
  BY <1>5, <1>m DEF AdvanceCursor, Shifts, Rest, MailerStates, Pcs
<1>6. AdvanceCursor(p) =>
        /\ mailer[p].pc = "advance" /\ cursor' \in {cursor, mailer[p].cursor + 1}
        /\ UNCHANGED <<site, job, lease, nextSend, account, logged, provider, late>>
  BY DEF AdvanceCursor
<1>7. Recover(p) \/ Notify(p) => job' \in [Jobs -> JobStates]
  BY DEF Recover, Notify, Queued, Interrupted, Typed, JobStates, Final, Open
<1> QED BY <1>1, <1>2, <1>3, <1>4, <1>5, <1>6, <1>7 DEF Recovered, NoticeSent, Advanced

\* The worker has taken a job up, with the account as it is.
Taken(p, j) ==
    /\ Shifts(p) /\ mailer[p].pc = "notify" /\ mailer'[p].pc = "process"
    /\ mailer'[p].pending = mailer[p].pending /\ mailer'[p].paced = mailer[p].paced
    /\ mailer'[p].cursor = mailer[p].cursor
    /\ mailer'[p].job = j /\ mailer'[p].status = job[j] /\ mailer'[p].account = account
    /\ job[j] \in {"queued", "checking"}
    /\ UNCHANGED <<site, mailTables, logged, provider, late>>

\* The attempt is written.
Marked(p) ==
    /\ Shifts(p) /\ mailer[p].pc = "process" /\ mailer'[p].pc = "submit"
    /\ mailer'[p].pending = mailer[p].pending /\ mailer'[p].cursor = mailer[p].cursor
    /\ mailer'[p].job = mailer[p].job
    /\ mailer[p].status # "checking" /\ ~mailer[p].paced /\ WithinQuota(p) /\ Owns(p)
    /\ job' = [job EXCEPT ![mailer[p].job] = "sending"]
    /\ account' = mailer[p].account \cup {mailer[p].job} /\ nextSend' = p
    /\ UNCHANGED <<site, lease, cursor, logged, provider, late>>

\* The message has reached the provider.
Submitted(p) ==
    /\ Shifts(p) /\ mailer[p].pc = "submit" /\ mailer'[p].pc = "answer" /\ ~mailer[p].dead
    /\ mailer'[p].pending = mailer[p].pending /\ mailer'[p].cursor = mailer[p].cursor
    /\ mailer'[p].job = mailer[p].job
    /\ submitted' = [submitted EXCEPT ![mailer[p].job] = @ + 1]
    /\ billed' \in {billed, billed \cup {mailer[p].job}}
    /\ UNCHANGED <<site, mailTables, logged, late>>

\* The deadline of the attempt has passed.
TimedOut(p) ==
    /\ Shifts(p) /\ mailer[p].pc = "submit" /\ mailer'[p].pc = "submit" /\ mailer'[p].dead
    /\ mailer'[p].pending = mailer[p].pending /\ mailer'[p].cursor = mailer[p].cursor
    /\ mailer'[p].job = mailer[p].job
    /\ UNCHANGED <<site, mailTables, logged, provider, late>>

\* The refund is taken off the account as it is.
Refunded(p) ==
    /\ Shifts(p) /\ mailer[p].pc = "refund" /\ mailer'[p].pc = "save"
    /\ mailer'[p].cursor = mailer[p].cursor
    /\ mailer'[p].pending = [mailer[p].pending EXCEPT !.account = account \ {mailer[p].pending.job}]
    /\ UNCHANGED <<site, mailTables, logged, provider, late>>

\* It takes a job up, marks it, submits it, lets its deadline pass, or reads the account again.
LEMMA LaterSteps ==
    ASSUME Typed, NEW p \in Mailers
    PROVE  /\ \A j \in Jobs : NextJob(p, j) => Taken(p, j)
           /\ Mark(p) => Marked(p)
           /\ Submit(p) => Submitted(p)
           /\ Deadline(p) => TimedOut(p)
           /\ LoadRefund(p) => Refunded(p)
<1>m. mailer \in [Mailers -> MailerStates] /\ mailer[p] \in MailerStates
  BY DEF Typed
<1>1. ASSUME NEW j \in Jobs, NextJob(p, j)
      PROVE  /\ Shifts(p) /\ mailer'[p].pc = "process"
             /\ mailer'[p].pending = mailer[p].pending /\ mailer'[p].paced = mailer[p].paced
             /\ mailer'[p].cursor = mailer[p].cursor
             /\ mailer'[p].job = j /\ mailer'[p].status = job[j] /\ mailer'[p].account = account
  <2>1. mailer' = [mailer EXCEPT ![p].pc = "process", ![p].job = j, ![p].status = job[j],
                                 ![p].account = account, ![p].dead = FALSE]
    BY <1>1 DEF NextJob
  <2>2. job[j] \in {"queued", "checking"} /\ account \in SUBSET Jobs
    BY <1>1 DEF NextJob, Typed
  <2> QED BY <1>m, <2>1, <2>2 DEF Shifts, Rest, MailerStates, Pcs
<1>2. \A j \in Jobs : NextJob(p, j) =>
        /\ mailer[p].pc = "notify" /\ job[j] \in {"queued", "checking"}
        /\ UNCHANGED <<site, mailTables, logged, provider, late>>
  BY DEF NextJob, Notified
<1>3. ASSUME Mark(p)
      PROVE  /\ Shifts(p) /\ mailer'[p].pc = "submit"
             /\ mailer'[p].pending = mailer[p].pending /\ mailer'[p].cursor = mailer[p].cursor
             /\ mailer'[p].job = mailer[p].job
  BY <1>3, <1>m DEF Mark, Sending, Shifts, Rest, MailerStates, Pcs
<1>4. Mark(p) =>
        /\ mailer[p].pc = "process" /\ mailer[p].status # "checking" /\ ~mailer[p].paced
        /\ WithinQuota(p) /\ Owns(p)
        /\ job' = [job EXCEPT ![mailer[p].job] = "sending"]
        /\ account' = mailer[p].account \cup {mailer[p].job} /\ nextSend' = p
        /\ UNCHANGED <<site, lease, cursor, logged, provider, late>>
  BY DEF Mark, NotYet
<1>5. ASSUME Submit(p)
      PROVE  /\ Shifts(p) /\ mailer'[p].pc = "answer"
             /\ mailer'[p].pending = mailer[p].pending /\ mailer'[p].cursor = mailer[p].cursor
             /\ mailer'[p].job = mailer[p].job
  BY <1>5, <1>m DEF Submit, Goto, Shifts, Rest, MailerStates, Pcs
<1>6. Submit(p) =>
        /\ mailer[p].pc = "submit" /\ ~mailer[p].dead
        /\ submitted' = [submitted EXCEPT ![mailer[p].job] = @ + 1]
        /\ billed' \in {billed, billed \cup {mailer[p].job}}
        /\ UNCHANGED <<site, mailTables, logged, late>>
  BY DEF Submit
<1>7. ASSUME Deadline(p)
      PROVE  /\ Shifts(p) /\ mailer[p].pc = "submit" /\ mailer'[p].pc = "submit" /\ mailer'[p].dead
             /\ mailer'[p].pending = mailer[p].pending /\ mailer'[p].cursor = mailer[p].cursor
             /\ mailer'[p].job = mailer[p].job
             /\ UNCHANGED <<site, mailTables, logged, provider, late>>
  BY <1>7, <1>m DEF Deadline, Shifts, Rest, MailerStates, Pcs
<1>8. ASSUME LoadRefund(p)
      PROVE  /\ Shifts(p) /\ mailer'[p].pc = "save" /\ mailer'[p].cursor = mailer[p].cursor
             /\ mailer'[p].pending = [mailer[p].pending EXCEPT !.account = account \ {mailer[p].pending.job}]
  <2> DEFINE r == [mailer[p].pending EXCEPT !.account = account \ {mailer[p].pending.job}]
  <2>1. mailer' = [mailer EXCEPT ![p] = [mailer[p] EXCEPT !.pc = "save", !.pending = r]]
    BY <1>8, <1>m DEF LoadRefund, MailerStates
  <2>2. r \in Results
    <3>1. mailer[p].pending \in Results /\ account \ {mailer[p].pending.job} \in SUBSET Jobs
      BY <1>m DEF MailerStates, Typed
    <3> QED BY <3>1 DEF Results
  <2> HIDE DEF r
  <2>3. Shifts(p) /\ mailer'[p].pc = "save" /\ mailer'[p].cursor = mailer[p].cursor /\ mailer'[p].pending = r
    BY <1>m, <2>1, <2>2 DEF Shifts, Rest, MailerStates, Pcs
  <2> QED BY <2>3 DEF r
<1>9. LoadRefund(p) => mailer[p].pc = "refund" /\ UNCHANGED <<site, mailTables, logged, provider, late>>
  BY DEF LoadRefund
<1> QED BY <1>1, <1>2, <1>3, <1>4, <1>5, <1>6, <1>7, <1>8, <1>9 DEF Taken, Marked, Submitted, TimedOut, Refunded

\* The job is what it was before it was taken up.
PutBack(p) ==
    /\ Rest(p) /\ mailer' \in [Mailers -> MailerStates]
    /\ mailer'[p].pc = "idle" /\ mailer'[p].cursor = 0
    /\ mailer'[p].pending = NoResult /\ ~mailer'[p].lost /\ mailer'[p].recovered = mailer[p].recovered
    /\ mailer[p].pc = "process" /\ Owns(p) /\ Accepts(mailer[p].job)
    /\ job' = [job EXCEPT ![mailer[p].job] = mailer[p].status]
    /\ UNCHANGED <<site, lease, nextSend, cursor, account, logged, provider, late>>

\* The result is written.
Saved(p) ==
    /\ Rest(p) /\ mailer' \in [Mailers -> MailerStates]
    /\ mailer'[p].pc = "idle" /\ mailer'[p].cursor = 0
    /\ mailer'[p].pending = NoResult /\ ~mailer'[p].lost /\ mailer'[p].recovered = mailer[p].recovered
    /\ mailer[p].pc = "save" /\ Owns(p) /\ Accepts(mailer[p].pending.job)
    /\ job' = [job EXCEPT ![mailer[p].pending.job] = mailer[p].pending.status]
    /\ account' = IF mailer[p].pending.account = Absent THEN account ELSE mailer[p].pending.account
    /\ nextSend' = IF mailer[p].pending.delay THEN "delay" ELSE nextSend
    /\ late' = (late \/ mailer[p].lost)
    /\ UNCHANGED <<site, lease, cursor, logged, provider>>

\* It writes the job it processes, or the result it has kept, and is done.
LEMMA WritingSteps ==
    ASSUME Typed, NEW p \in Mailers
    PROVE  /\ Postpone(p) \/ StillChecking(p) => PutBack(p)
           /\ SaveResult(p) => Saved(p)
<1>1. ASSUME EndStep(p, NoResult)
      PROVE  /\ Rest(p) /\ mailer' \in [Mailers -> MailerStates]
             /\ mailer'[p].pc = "idle" /\ mailer'[p].cursor = 0
             /\ mailer'[p].pending = NoResult /\ ~mailer'[p].lost /\ mailer'[p].recovered = mailer[p].recovered
  BY <1>1, EndStepFields, NothingKept DEF Becomes
<1>2. Postpone(p) \/ StillChecking(p) =>
        /\ mailer[p].pc = "process" /\ Owns(p) /\ Accepts(mailer[p].job)
        /\ job' = [job EXCEPT ![mailer[p].job] = mailer[p].status] /\ EndStep(p, NoResult)
        /\ UNCHANGED <<site, lease, nextSend, cursor, account, logged, provider, late>>
  BY DEF Postpone, StillChecking
<1>3. SaveResult(p) =>
        /\ mailer[p].pc = "save" /\ Owns(p) /\ Accepts(mailer[p].pending.job)
        /\ job' = [job EXCEPT ![mailer[p].pending.job] = mailer[p].pending.status]
        /\ account' = IF mailer[p].pending.account = Absent THEN account ELSE mailer[p].pending.account
        /\ nextSend' = IF mailer[p].pending.delay THEN "delay" ELSE nextSend
        /\ late' = (late \/ mailer[p].lost) /\ EndStep(p, NoResult)
        /\ UNCHANGED <<site, lease, cursor, logged, provider>>
  BY DEF SaveResult, Saves
<1> QED BY <1>1, <1>2, <1>3 DEF PutBack, Saved

\* The worker has got the lease; whoever else has something under way has lost it.
Leased(p) ==
    /\ p \in deployed /\ mailer[p].pc = "idle" /\ mailer' \in [Mailers -> MailerStates]
    /\ lease.owner = p \/ ~lease.valid
    /\ lease' = [owner |-> p, valid |-> TRUE]
    /\ \A q \in Mailers : q # p =>
         /\ mailer'[q].pc = mailer[q].pc /\ mailer'[q].job = mailer[q].job
         /\ mailer'[q].status = mailer[q].status /\ mailer'[q].paced = mailer[q].paced
         /\ mailer'[q].cursor = mailer[q].cursor /\ mailer'[q].recovered = mailer[q].recovered
         /\ mailer'[q].dead = mailer[q].dead /\ mailer'[q].account = mailer[q].account
         /\ mailer'[q].pending = mailer[q].pending
         /\ mailer'[q].lost <=> mailer[q].pc # "idle" \/ mailer[q].pending # NoResult
    /\ mailer'[p].pending = mailer[p].pending
    /\ mailer[p].pending.status # "none" =>
         /\ mailer'[p].pc \in {"refund", "save"} /\ mailer'[p].lost = mailer[p].lost
         /\ mailer'[p].cursor = mailer[p].cursor
    /\ mailer[p].pending.status = "none" =>
         /\ mailer'[p].pc \in {"recover", "notify"} /\ ~mailer'[p].lost
         /\ mailer'[p].cursor = cursor /\ (mailer'[p].paced <=> nextSend # "past")
    /\ mailer'[p].pc = "notify" => mailer[p].recovered
    /\ mailer'[p].pc = "refund" => mailer[p].pending.refund
    /\ mailer'[p].recovered = mailer[p].recovered
    /\ UNCHANGED <<site, job, nextSend, cursor, account, logged, provider, late>>

\* A worker gets the lease; whoever has something under way has lost it.
LEMMA LeaseSteps ==
    ASSUME Typed, WorkerInv, NEW p \in Mailers, AcquireLease(p)
    PROVE  Leased(p)
<1> DEFINE other(q) == [mailer[q] EXCEPT !.lost = mailer[q].pc # "idle" \/ mailer[q].pending # NoResult]
           again == [mailer[p] EXCEPT !.pc = IF mailer[p].pending.refund THEN "refund" ELSE "save"]
           anew == [mailer[p] EXCEPT !.pc = IF mailer[p].recovered THEN "notify" ELSE "recover",
                                     !.paced = nextSend # "past", !.cursor = cursor, !.lost = FALSE]
<1>m. mailer \in [Mailers -> MailerStates] /\ cursor \in Nat
  BY DEF Typed
<1>1. /\ p \in deployed /\ mailer[p].pc = "idle"
      /\ lease.owner = p \/ ~lease.valid
      /\ lease' = [owner |-> p, valid |-> TRUE]
      /\ UNCHANGED <<site, job, nextSend, cursor, account, logged, provider, late>>
  BY DEF AcquireLease
<1>2. mailer' = [q \in Mailers |-> IF q # p THEN other(q) ELSE IF mailer[p].pending # NoResult THEN again ELSE anew]
  BY DEF AcquireLease
<1>3. ASSUME NEW q \in Mailers
      PROVE  /\ other(q) \in MailerStates
             /\ other(q).pc = mailer[q].pc /\ other(q).job = mailer[q].job
             /\ other(q).status = mailer[q].status /\ other(q).paced = mailer[q].paced
             /\ other(q).cursor = mailer[q].cursor /\ other(q).recovered = mailer[q].recovered
             /\ other(q).dead = mailer[q].dead /\ other(q).account = mailer[q].account
             /\ other(q).pending = mailer[q].pending
             /\ other(q).lost <=> mailer[q].pc # "idle" \/ mailer[q].pending # NoResult
  BY <1>m DEF MailerStates
<1>4. /\ again \in MailerStates /\ again.pc \in {"refund", "save"} /\ again.lost = mailer[p].lost
      /\ again.pc = "refund" => mailer[p].pending.refund
      /\ again.pending = mailer[p].pending /\ again.recovered = mailer[p].recovered
      /\ again.cursor = mailer[p].cursor
  BY <1>m DEF MailerStates, Pcs
<1>5. /\ anew \in MailerStates /\ anew.pc \in {"recover", "notify"} /\ ~anew.lost /\ anew.cursor = cursor
      /\ (anew.paced <=> nextSend # "past") /\ anew.pending = mailer[p].pending
      /\ anew.pc = "notify" => mailer[p].recovered
      /\ anew.recovered = mailer[p].recovered
  <2> DEFINE place == IF mailer[p].recovered THEN "notify" ELSE "recover"
             paced == nextSend # "past"
  <2>1. place \in {"recover", "notify"} /\ paced \in BOOLEAN /\ (place = "notify" => mailer[p].recovered)
    OBVIOUS
  <2>2. mailer[p] \in MailerStates
    BY <1>m
  <2>3. (paced <=> nextSend # "past") /\ anew = [mailer[p] EXCEPT !.pc = place, !.paced = paced, !.cursor = cursor, !.lost = FALSE]
    OBVIOUS
  <2> HIDE DEF place, paced, anew
  <2>4. /\ anew \in MailerStates /\ anew.pc = place /\ ~anew.lost /\ anew.cursor = cursor
        /\ anew.paced = paced /\ anew.pending = mailer[p].pending /\ anew.recovered = mailer[p].recovered
    BY <1>m, <2>1, <2>2, <2>3 DEF MailerStates, Pcs
  <2> QED BY <2>1, <2>3, <2>4
<1>6. mailer[p].pending # NoResult <=> mailer[p].pending.status # "none"
  BY NothingKept DEF WorkerInv
<1> HIDE DEF other, again, anew
<1>7. mailer' \in [Mailers -> MailerStates]
  BY <1>2, <1>3, <1>4, <1>5
<1>8. \A q \in Mailers : q # p => mailer'[q] = other(q)
  BY <1>2
<1>9. mailer'[p] = IF mailer[p].pending # NoResult THEN again ELSE anew
  BY <1>2
<1> QED BY <1>1, <1>3, <1>4, <1>5, <1>6, <1>7, <1>8, <1>9 DEF Leased

\* Somebody asks for mail, or time passes.
LEMMA QuietSteps ==
    ASSUME Typed
    PROVE  /\ \A j \in Jobs : Enqueue(j) =>
                /\ job[j] = "none" /\ job' = [job EXCEPT ![j] = "queued"]
                /\ UNCHANGED <<site, lease, nextSend, cursor, account, logged, mailer, provider, late>>
           /\ Log => /\ logged < site.entries /\ logged' = logged + 1
                     /\ UNCHANGED <<site, mailTables, mailer, provider, late>>
           /\ LeaseRunsOut => /\ lease'.owner = lease.owner /\ lease' \in [owner : deployed \cup {Absent}, valid : BOOLEAN]
                              /\ UNCHANGED <<site, job, nextSend, cursor, account, logged, mailer, provider, late>>
           /\ NextSendPasses => /\ nextSend' = "past"
                                /\ UNCHANGED <<site, job, lease, cursor, account, logged, mailer, provider, late>>
<1>1. \A j \in Jobs : Enqueue(j) =>
        /\ job[j] = "none" /\ job' = [job EXCEPT ![j] = "queued"]
        /\ UNCHANGED <<site, lease, nextSend, cursor, account, logged, mailer, provider, late>>
  BY DEF Enqueue, Queued
<1>2. Log => /\ logged < site.entries /\ logged' = logged + 1
             /\ UNCHANGED <<site, mailTables, mailer, provider, late>>
  BY DEF Log
<1>3. LeaseRunsOut => /\ lease'.owner = lease.owner /\ lease' \in [owner : deployed \cup {Absent}, valid : BOOLEAN]
                      /\ UNCHANGED <<site, job, nextSend, cursor, account, logged, mailer, provider, late>>
  BY DEF LeaseRunsOut, Typed
<1>4. NextSendPasses => /\ nextSend' = "past"
                        /\ UNCHANGED <<site, job, lease, cursor, account, logged, mailer, provider, late>>
  BY DEF NextSendPasses
<1> QED BY <1>1, <1>2, <1>3, <1>4

\* Every step is one of these.
LEMMA StepKinds ==
    ASSUME Typed, WorkerInv, [MailNext]_mailVars
    PROVE  \/ UNCHANGED mailVars \/ Log \/ LeaseRunsOut \/ NextSendPasses
           \/ \E j \in Jobs : Enqueue(j)
           \/ \E p \in Mailers :
                \/ Leased(p) \/ Recovered(p) \/ NoticeSent(p) \/ Advanced(p)
                \/ \E j \in Jobs : Taken(p, j)
                \/ Marked(p) \/ Submitted(p) \/ TimedOut(p) \/ Refunded(p)
                \/ PutBack(p) \/ Saved(p) \/ Ended(p) \/ Finished(p)
<1>1. \/ UNCHANGED mailVars \/ Log \/ LeaseRunsOut \/ NextSendPasses
      \/ \E j \in Jobs : Enqueue(j)
      \/ \E p \in Mailers :
           \/ AcquireLease(p) \/ Recover(p) \/ Notify(p) \/ AdvanceCursor(p)
           \/ \E j \in Jobs : NextJob(p, j)
           \/ Mark(p) \/ Submit(p) \/ Deadline(p) \/ LoadRefund(p)
           \/ Postpone(p) \/ StillChecking(p) \/ SaveResult(p)
           \/ Ended(p) \/ Finished(p)
  BY EndingSteps, FinishingSteps DEF MailNext, Work
<1> QED BY <1>1, LeaseSteps, EarlySteps, LaterSteps, WritingSteps

-----------------------------------------------------------------------------
(* Types and announcements                                                 *)

\* What a worker has passed is announced, and so is the entry it is about to pass.
NotesInv ==
    /\ \A p \in Mailers :
         /\ mailer[p].cursor <= logged
         /\ \A k \in 1..mailer[p].cursor : job[k] # "none"
         /\ mailer[p].pc = "advance" => mailer[p].cursor < logged /\ job[mailer[p].cursor + 1] # "none"
    /\ NotificationsQueued

\* Every step keeps the types.
LEMMA TypedStep == ASSUME Typed, WorkerInv, NotesInv, [MailNext]_mailVars PROVE Typed'
<1> USE DEF mailTables, provider
<1>d. deployed \in SUBSET Mailers /\ site.entries \in Nat
  BY Deployment DEF Typed
\* the types, but for the worker, the lease and the jobs
<1>k. ASSUME mailer' \in [Mailers -> MailerStates], job' \in [Jobs -> JobStates],
             lease' \in [owner : deployed \cup {Absent}, valid : BOOLEAN],
             nextSend' \in {"past", "delay"} \cup deployed, account' \in SUBSET Jobs,
             UNCHANGED <<site, logged>>, cursor' \in Nat, cursor' <= logged,
             submitted' \in [Jobs -> Nat], billed' \in SUBSET Jobs, late' \in BOOLEAN
      PROVE  Typed'
  BY <1>k DEF Typed, deployed
<1>1. CASE UNCHANGED mailVars
  BY <1>1 DEF mailVars, Typed, deployed
<1>2. CASE LeaseRunsOut \/ NextSendPasses
  BY <1>2, <1>k, QuietSteps DEF Typed
<1>3. CASE Log
  BY <1>3, <1>d, QuietSteps DEF Typed, deployed
<1>4. ASSUME NEW j \in Jobs, Enqueue(j) PROVE Typed'
  BY <1>4, <1>k, QuietSteps DEF Typed, JobStates, Open
<1>5. ASSUME NEW p \in Mailers, Leased(p) PROVE Typed'
  <2>1. p \in deployed /\ lease' = [owner |-> p, valid |-> TRUE]
    BY <1>5 DEF Leased
  <2>2. lease' \in [owner : deployed \cup {Absent}, valid : BOOLEAN]
    BY <2>1
  <2> QED BY <1>5, <1>k, <2>2 DEF Typed, Leased
<1>6. ASSUME NEW p \in Mailers, Recovered(p) PROVE Typed'
  BY <1>6, <1>k DEF Typed, Shifts, Recovered
<1>7. ASSUME NEW p \in Mailers, NoticeSent(p) PROVE Typed'
  BY <1>7, <1>k DEF Typed, Shifts, NoticeSent
<1>8. ASSUME NEW p \in Mailers, Advanced(p) PROVE Typed'
  <2>1. mailer[p].cursor \in Nat /\ logged \in Nat /\ cursor \in Nat /\ cursor <= logged
    BY DEF Typed, MailerStates
  <2>2. cursor' \in Nat /\ cursor' <= logged
    BY <1>8, <2>1 DEF Advanced, NotesInv
  <2> QED BY <1>8, <1>k, <2>2 DEF Typed, Shifts, Advanced
<1>9. ASSUME NEW p \in Mailers, NEW j \in Jobs, Taken(p, j) PROVE Typed'
  BY <1>9, <1>k DEF Typed, Shifts, Taken
<1>10. ASSUME NEW p \in Mailers, Marked(p) PROVE Typed'
  <2>1. mailer[p].job \in Jobs /\ p \in deployed /\ mailer[p].account \in SUBSET Jobs
    BY <1>10 DEF WorkerInv, Typed, MailerStates, Marked
  <2>2. job' \in [Jobs -> JobStates]
    BY <1>10, <2>1 DEF Typed, JobStates, Open, Marked
  <2> QED BY <1>10, <1>k, <2>1, <2>2 DEF Typed, Shifts, Marked
<1>11. ASSUME NEW p \in Mailers, Submitted(p) PROVE Typed'
  <2>1. mailer[p].job \in Jobs
    BY <1>11 DEF WorkerInv, Submitted
  <2>2. submitted' \in [Jobs -> Nat] /\ billed' \in SUBSET Jobs
    BY <1>11, <2>1 DEF Typed, Submitted
  <2> QED BY <1>11, <1>k, <2>2 DEF Typed, Shifts, Submitted
<1>12. ASSUME NEW p \in Mailers, TimedOut(p) \/ Refunded(p) PROVE Typed'
  BY <1>12, <1>k DEF Typed, Shifts, TimedOut, Refunded
<1>13. ASSUME NEW p \in Mailers, PutBack(p) PROVE Typed'
  <2>1. mailer[p].status \in JobStates
    BY <1>13 DEF Typed, MailerStates, WorkerInv, JobStates, Open, PutBack
  <2>2. job' \in [Jobs -> JobStates]
    BY <1>13, <2>1 DEF Typed, PutBack
  <2> QED BY <1>13, <1>k, <2>2 DEF Typed, PutBack
<1>14. ASSUME NEW p \in Mailers, Saved(p) PROVE Typed'
  <2>1. mailer[p].pending \in Results /\ mailer[p].lost \in BOOLEAN
    BY DEF Typed, MailerStates
  <2>2. mailer[p].pending.status \in JobStates /\ mailer[p].pending.account \in (SUBSET Jobs) \cup {Absent}
    BY <2>1 DEF Results, JobStates, Open, Final
  <2>3. job' \in [Jobs -> JobStates] /\ account' \in SUBSET Jobs /\ late' \in BOOLEAN
    BY <1>14, <2>1, <2>2 DEF Typed, Saved
  <2>4. nextSend' \in {"past", "delay"} \cup deployed
    BY <1>14 DEF Typed, Saved
  <2> QED BY <1>14, <1>k, <2>3, <2>4 DEF Typed, Saved
<1>15. ASSUME NEW p \in Mailers, Ended(p) PROVE Typed'
  BY <1>15, <1>k DEF Typed, Ended
<1>16. ASSUME NEW p \in Mailers, Finished(p) PROVE Typed'
  BY <1>16, <1>k DEF Typed, Finished
<1> QED BY <1>1, <1>2, <1>3, <1>4, <1>5, <1>6, <1>7, <1>8, <1>9, <1>10, <1>11, <1>12, <1>13, <1>14,
     <1>15, <1>16, StepKinds

\* Every step keeps what a worker holds at each of its places.
LEMMA WorkerStep == ASSUME Typed, WorkerInv, [MailNext]_mailVars PROVE WorkerInv'
<1> USE DEF mailTables, provider, deployed
\* if the other workers are where they were, one is left to look at
<1>r. ASSUME NEW p \in Mailers, Rest(p), UNCHANGED site,
             mailer'[p].pc # "idle" => p \in deployed,
             mailer'[p].pending.status = "none" => mailer'[p].pending = NoResult,
             mailer'[p].pending.status # "none" => mailer'[p].pending.job \in Jobs,
             mailer'[p].pc \in Working => mailer'[p].pending.status = "none",
             mailer'[p].pc \in {"refund", "save"} => mailer'[p].pending.status # "none",
             mailer'[p].pc \in {"process", "submit", "answer"} => mailer'[p].job \in Jobs,
             mailer'[p].pc = "process" => mailer'[p].status \in {"queued", "checking"}
      PROVE  WorkerInv'
  BY <1>r DEF WorkerInv, Rest
<1>1. CASE UNCHANGED mailVars
  BY <1>1 DEF mailVars, WorkerInv
<1>2. CASE LeaseRunsOut \/ NextSendPasses \/ Log \/ \E j \in Jobs : Enqueue(j)
  BY <1>2, QuietSteps DEF WorkerInv
<1>3. ASSUME NEW p \in Mailers, Leased(p) PROVE WorkerInv'
  <2>1. ASSUME NEW q \in Mailers, q # p PROVE WorkerInv!(q)'
    BY <1>3, <2>1 DEF WorkerInv, Leased
  <2> QED BY <1>3 DEF WorkerInv, Leased, Working
<1>4. ASSUME NEW p \in Mailers, Recovered(p) \/ NoticeSent(p) \/ Advanced(p) PROVE WorkerInv'
  <2>1. mailer[p].pc \in {"recover", "notify", "advance"} /\ mailer'[p].pc \in {"notify", "advance"}
    BY <1>4 DEF Recovered, NoticeSent, Advanced
  <2>2. mailer'[p].pending = mailer[p].pending /\ Rest(p) /\ UNCHANGED site
    BY <1>4 DEF Recovered, NoticeSent, Advanced, Shifts
  <2> QED BY <1>r, <2>1, <2>2 DEF WorkerInv, Working
<1>5. ASSUME NEW p \in Mailers, NEW j \in Jobs, Taken(p, j) PROVE WorkerInv'
  BY <1>r, <1>5 DEF Taken, Shifts, WorkerInv, Working
<1>6. ASSUME NEW p \in Mailers, Marked(p) \/ Submitted(p) \/ TimedOut(p) PROVE WorkerInv'
  <2>1. mailer[p].pc \in {"process", "submit"} /\ mailer'[p].pc \in {"submit", "answer"}
    BY <1>6 DEF Marked, Submitted, TimedOut
  <2>2. mailer'[p].pending = mailer[p].pending /\ mailer'[p].job = mailer[p].job /\ Rest(p) /\ UNCHANGED site
    BY <1>6 DEF Marked, Submitted, TimedOut, Shifts
  <2> QED BY <1>r, <2>1, <2>2 DEF WorkerInv, Working
<1>7. ASSUME NEW p \in Mailers, Refunded(p) PROVE WorkerInv'
  <2>1. mailer[p].pending.status # "none" /\ mailer[p].pending \in Results
    BY <1>7 DEF Refunded, WorkerInv, Typed, MailerStates
  <2>2. mailer'[p].pending.status = mailer[p].pending.status /\ mailer'[p].pending.job = mailer[p].pending.job
    BY <1>7, <2>1 DEF Refunded, Results
  <2> QED BY <1>r, <1>7, <2>1, <2>2 DEF WorkerInv, Working, Refunded, Shifts
<1>8. ASSUME NEW p \in Mailers, PutBack(p) \/ Saved(p) PROVE WorkerInv'
  <2>1. mailer'[p].pc = "idle" /\ mailer'[p].pending = NoResult /\ Rest(p) /\ UNCHANGED site
    BY <1>8 DEF PutBack, Saved
  <2> QED BY <1>r, <2>1, NothingKept DEF Working
<1>9. ASSUME NEW p \in Mailers, Ended(p) PROVE WorkerInv'
  <2>1. mailer'[p].pc = "idle" /\ Rest(p) /\ UNCHANGED site
    BY <1>9 DEF Ended
  <2>2. mailer'[p].pending = NoResult \/ mailer'[p].pending = mailer[p].pending
    BY <1>9 DEF Ended
  <2> QED BY <1>r, <2>1, <2>2, NothingKept DEF Working, WorkerInv
<1>10. ASSUME NEW p \in Mailers, Finished(p) PROVE WorkerInv'
  BY <1>r, <1>10 DEF Finished, WorkerInv, Working
<1> QED BY <1>1, <1>2, <1>3, <1>4, <1>5, <1>6, <1>7, <1>8, <1>9, <1>10, StepKinds

\* A job that is known stays known, and the entries do not become fewer.
LEMMA KnownStays ==
    ASSUME Typed, WorkerInv, [MailNext]_mailVars
    PROVE  /\ \A j \in Jobs : job[j] # "none" => job'[j] # "none"
           /\ logged' \in Nat /\ logged <= logged'
<1> USE DEF mailTables
<1>1. CASE UNCHANGED mailVars
  BY <1>1 DEF mailVars, Typed
<1>2. CASE LeaseRunsOut \/ NextSendPasses \/ Log \/ \E j \in Jobs : Enqueue(j)
  BY <1>2, QuietSteps DEF Typed
<1>3. ASSUME NEW p \in Mailers,
             Leased(p) \/ Advanced(p) \/ Refunded(p) \/ Submitted(p) \/ TimedOut(p)
             \/ Ended(p) \/ Finished(p) \/ \E j \in Jobs : Taken(p, j)
      PROVE  UNCHANGED <<job, logged>>
  BY <1>3 DEF Leased, Advanced, Refunded, Submitted, TimedOut, Ended, Finished, Taken
<1>4. ASSUME NEW p \in Mailers, Recovered(p) \/ NoticeSent(p)
      PROVE  UNCHANGED logged /\ \A j \in Jobs : job[j] # "none" => job'[j] # "none"
  BY <1>4 DEF Recovered, NoticeSent
<1>5. ASSUME NEW p \in Mailers, Marked(p) \/ PutBack(p) \/ Saved(p)
      PROVE  UNCHANGED logged /\ \A j \in Jobs : job[j] # "none" => job'[j] # "none"
  <2>1. \E j \in Jobs : \E s \in JobStates \ {"none"} : job' = [job EXCEPT ![j] = s]
    <3>1. CASE Marked(p)
      BY <3>1 DEF Marked, WorkerInv, JobStates, Open
    <3>2. CASE PutBack(p)
      BY <3>2 DEF PutBack, WorkerInv, JobStates, Open
    <3>3. CASE Saved(p)
      BY <3>3 DEF Saved, WorkerInv, JobStates, Open, Final, Typed, MailerStates, Results
    <3> QED BY <1>5, <3>1, <3>2, <3>3
  <2>2. UNCHANGED logged
    BY <1>5 DEF Marked, PutBack, Saved
  <2> QED BY <2>1, <2>2 DEF Typed
<1> QED BY <1>1, <1>2, <1>3, <1>4, <1>5, StepKinds DEF Typed

\* Every step keeps the announcements.
LEMMA NotesStep ==
    ASSUME Typed, WorkerInv, NotesInv, [MailNext]_mailVars
    PROVE  NotesInv'
<1> USE DEF mailTables
<1>t. /\ mailer \in [Mailers -> MailerStates] /\ cursor \in Nat /\ logged \in Nat /\ cursor <= logged
      /\ logged <= MaxJobs
      /\ \A p \in Mailers : mailer[p].cursor \in Nat
  BY Deployment, BoundAssumption DEF Typed, MailerStates
<1>j. /\ \A j \in Jobs : job[j] # "none" => job'[j] # "none"
      /\ logged' \in Nat /\ logged <= logged'
  BY KnownStays
<1>s. \A n \in Nat : n <= logged => 1..n \subseteq Jobs
  BY <1>t, BoundAssumption DEF Jobs
\* each cursor stays, starts again, or passes an entry that is announced
<1>c. ASSUME \A p \in Mailers : \/ mailer'[p].cursor \in {mailer[p].cursor, cursor, 0}
                                \/ mailer[p].pc = "advance" /\ mailer'[p].cursor = mailer[p].cursor + 1,
             \A p \in Mailers : mailer'[p].pc = "advance" =>
                 \/ mailer[p].pc = "advance" /\ mailer'[p].cursor = mailer[p].cursor
                 \/ /\ mailer'[p].cursor = mailer[p].cursor /\ mailer[p].cursor + 1 <= logged
                    /\ job'[mailer[p].cursor + 1] # "none",
             \/ cursor' = cursor
             \/ \E p \in Mailers : mailer[p].pc = "advance" /\ cursor' = mailer[p].cursor + 1
      PROVE  NotesInv'
  <2> DEFINE Passed(n) == n \in Nat /\ n <= logged /\ \A k \in 1..n : job[k] # "none"
  <2>1. ASSUME NEW n \in Nat, Passed(n) PROVE n <= logged' /\ \A k \in 1..n : job'[k] # "none"
    BY <1>t, <1>j, <1>s, <2>1
  <2>2. Passed(0) /\ Passed(cursor)
    BY <1>t DEF NotesInv, NotificationsQueued
  <2>3. ASSUME NEW p \in Mailers
        PROVE  /\ Passed(mailer[p].cursor)
               /\ mailer[p].pc = "advance" => Passed(mailer[p].cursor + 1)
    <3>1. Passed(mailer[p].cursor)
      BY <1>t DEF NotesInv
    <3>2. ASSUME mailer[p].pc = "advance" PROVE Passed(mailer[p].cursor + 1)
      <4>1. mailer[p].cursor < logged /\ job[mailer[p].cursor + 1] # "none"
        BY <3>2 DEF NotesInv
      <4>2. \A k \in 1..(mailer[p].cursor + 1) : k \in 1..mailer[p].cursor \/ k = mailer[p].cursor + 1
        BY <1>t
      <4> QED BY <1>t, <3>1, <4>1, <4>2
    <3> QED BY <3>1, <3>2
  <2>4. Passed(cursor')
    BY <1>c, <2>2, <2>3
  <2>5. ASSUME NEW p \in Mailers PROVE Passed(mailer'[p].cursor)
    BY <1>c, <2>2, <2>3
  <2>6. ASSUME NEW p \in Mailers, mailer'[p].pc = "advance"
        PROVE  mailer'[p].cursor < logged' /\ job'[mailer'[p].cursor + 1] # "none"
    <3>1. CASE mailer[p].pc = "advance" /\ mailer'[p].cursor = mailer[p].cursor
      <4>1. Passed(mailer[p].cursor + 1)
        BY <2>3, <3>1
      <4>2. mailer[p].cursor + 1 \in Nat /\ mailer[p].cursor \in Nat
        BY <1>t
      <4>3. mailer[p].cursor + 1 <= logged' /\ \A k \in 1..(mailer[p].cursor + 1) : job'[k] # "none"
        BY <2>1, <4>1, <4>2
      <4>4. mailer[p].cursor + 1 \in 1..(mailer[p].cursor + 1)
        BY <4>2
      <4> QED BY <1>j, <3>1, <4>2, <4>3, <4>4
    <3>2. CASE /\ mailer'[p].cursor = mailer[p].cursor /\ mailer[p].cursor + 1 <= logged
               /\ job'[mailer[p].cursor + 1] # "none"
      BY <1>j, <1>t, <3>2
    <3> QED BY <1>c, <2>6, <3>1, <3>2
  <2>7. NotificationsQueued'
    BY <2>1, <2>4 DEF NotificationsQueued
  <2>8. ASSUME NEW p \in Mailers
        PROVE  mailer'[p].cursor <= logged' /\ \A k \in 1..mailer'[p].cursor : job'[k] # "none"
    BY <2>1, <2>5
  <2> QED BY <2>6, <2>7, <2>8 DEF NotesInv
<1>1. CASE UNCHANGED mailVars
  BY <1>1, <1>c DEF mailVars
<1>2. CASE LeaseRunsOut \/ NextSendPasses \/ Log \/ \E j \in Jobs : Enqueue(j)
  BY <1>2, <1>c, QuietSteps
<1>3. ASSUME NEW p \in Mailers, Leased(p) PROVE NotesInv'
  <2>1. \A q \in Mailers : mailer'[q].cursor \in {mailer[q].cursor, cursor}
    BY <1>3 DEF Leased, WorkerInv
  <2>2. \A q \in Mailers : mailer'[q].pc = "advance" => mailer[q].pc = "advance" /\ q # p
    BY <1>3 DEF Leased, WorkerInv
  <2> QED BY <1>3, <1>c, <2>1, <2>2 DEF Leased
\* the steps that leave the other workers alone
<1>r. ASSUME NEW p \in Mailers, Rest(p),
             \/ mailer'[p].cursor \in {mailer[p].cursor, 0}
             \/ mailer[p].pc = "advance" /\ mailer'[p].cursor = mailer[p].cursor + 1,
             mailer'[p].pc = "advance" =>
                 /\ mailer'[p].cursor = mailer[p].cursor /\ mailer[p].cursor + 1 <= logged
                 /\ job'[mailer[p].cursor + 1] # "none",
             \/ cursor' = cursor
             \/ mailer[p].pc = "advance" /\ cursor' = mailer[p].cursor + 1
      PROVE  NotesInv'
  BY <1>c, <1>r DEF Rest
<1>4. ASSUME NEW p \in Mailers, NoticeSent(p) PROVE NotesInv'
  BY <1>r, <1>4 DEF NoticeSent, Shifts
<1>5. ASSUME NEW p \in Mailers, Advanced(p) PROVE NotesInv'
  BY <1>r, <1>5 DEF Advanced, Shifts
<1>6. ASSUME NEW p \in Mailers, Recovered(p) PROVE NotesInv'
  BY <1>r, <1>6 DEF Recovered, Shifts
<1>7. ASSUME NEW p \in Mailers, NEW j \in Jobs, Taken(p, j) PROVE NotesInv'
  BY <1>r, <1>7 DEF Taken, Shifts
<1>8. ASSUME NEW p \in Mailers, Marked(p) \/ Submitted(p) \/ TimedOut(p) \/ Refunded(p) PROVE NotesInv'
  BY <1>r, <1>8 DEF Marked, Submitted, TimedOut, Refunded, Shifts
<1>9. ASSUME NEW p \in Mailers, PutBack(p) \/ Saved(p) \/ Ended(p) \/ Finished(p) PROVE NotesInv'
  BY <1>r, <1>9 DEF PutBack, Saved, Ended, Finished
<1> QED BY <1>1, <1>2, <1>3, <1>4, <1>5, <1>6, <1>7, <1>8, <1>9, StepKinds

-----------------------------------------------------------------------------
(* The lease                                                               *)

\* The worker has something under way, or a result it could not save.
Busy(p) == mailer[p].pc # "idle" \/ mailer[p].pending.status # "none"

\* Nobody has had the lease since a worker that is not said to have lost it.
LeaseInv == \A p \in Mailers : Busy(p) /\ ~mailer[p].lost => Owns(p)

\* What the owner of the lease has read is what the tables say.
ReadInv == \A p \in Mailers :
    Owns(p) /\ mailer[p].pc = "process" => job[mailer[p].job] = mailer[p].status /\ account = mailer[p].account

\* Every step keeps the lease with the worker that has not lost it.
LEMMA LeaseStep == ASSUME Typed, WorkerInv, LeaseInv, [MailNext]_mailVars PROVE LeaseInv'
<1> USE DEF mailTables, Busy, Owns
\* a step of p alone that leaves the lease where it is
<1>r. ASSUME NEW p \in Mailers, Rest(p), lease'.owner = lease.owner,
             mailer'[p].pc # "idle" \/ mailer'[p].pending.status # "none" => Busy(p),
             ~mailer'[p].lost => ~mailer[p].lost \/ (mailer'[p].pending = NoResult /\ mailer'[p].pc = "idle")
      PROVE  LeaseInv'
  BY <1>r, NothingKept DEF LeaseInv, Rest
<1>1. CASE UNCHANGED mailVars
  BY <1>1 DEF mailVars, LeaseInv
<1>2. CASE LeaseRunsOut \/ NextSendPasses \/ Log \/ \E j \in Jobs : Enqueue(j)
  BY <1>2, QuietSteps DEF LeaseInv
<1>3. ASSUME NEW p \in Mailers, Leased(p) PROVE LeaseInv'
  <2>1. lease'.owner = p
    BY <1>3 DEF Leased
  <2>2. ASSUME NEW q \in Mailers, q # p
        PROVE  mailer'[q].pc # "idle" \/ mailer'[q].pending.status # "none" => mailer'[q].lost
    <3>1. mailer[q].pending # NoResult <=> mailer[q].pending.status # "none"
      BY NothingKept DEF WorkerInv
    <3> QED BY <1>3, <2>2, <3>1 DEF Leased
  <2> QED BY <2>1, <2>2 DEF LeaseInv
<1>4. ASSUME NEW p \in Mailers, Recovered(p) \/ NoticeSent(p) \/ Advanced(p) PROVE LeaseInv'
  BY <1>4, <1>r DEF Recovered, NoticeSent, Advanced, Shifts
<1>5. ASSUME NEW p \in Mailers, NEW j \in Jobs, Taken(p, j) PROVE LeaseInv'
  BY <1>5, <1>r DEF Taken, Shifts
<1>6. ASSUME NEW p \in Mailers, Marked(p) \/ Submitted(p) \/ TimedOut(p) \/ Refunded(p) PROVE LeaseInv'
  BY <1>6, <1>r DEF Marked, Submitted, TimedOut, Refunded, Shifts
<1>7. ASSUME NEW p \in Mailers, PutBack(p) \/ Saved(p) PROVE LeaseInv'
  BY <1>7, <1>r, NothingKept DEF PutBack, Saved
<1>8. ASSUME NEW p \in Mailers, Finished(p) PROVE LeaseInv'
  BY <1>8, <1>r DEF Finished
<1>9. ASSUME NEW p \in Mailers, Ended(p) PROVE LeaseInv'
  <2>1. CASE lease' = lease
    BY <1>9, <1>r, <2>1, NothingKept DEF Ended
  <2>2. CASE lease.owner = p /\ mailer'[p].pending = NoResult
    BY <1>9, <2>2, NothingKept DEF Ended, LeaseInv, Rest
  <2> QED BY <1>9, <2>1, <2>2 DEF Ended
<1> QED BY <1>1, <1>2, <1>3, <1>4, <1>5, <1>6, <1>7, <1>8, <1>9, StepKinds

\* Every step keeps what the owner has read true.
LEMMA ReadStep == ASSUME Typed, WorkerInv, ReadInv, [MailNext]_mailVars PROVE ReadInv'
<1> USE DEF mailTables, Owns
<1>d. deployed \subseteq Mailers /\ Absent \notin Mailers
  BY Deployment DEF Typed
<1>a. \A p \in Mailers : Owns(p) /\ mailer[p].pc = "process" => job[mailer[p].job] \notin {"none", "sending"}
  BY DEF ReadInv, WorkerInv
<1>1. CASE UNCHANGED mailVars
  BY <1>1 DEF mailVars, ReadInv
<1>2. CASE LeaseRunsOut \/ NextSendPasses \/ Log
  BY <1>2, QuietSteps DEF ReadInv
<1>3. ASSUME NEW j \in Jobs, Enqueue(j) PROVE ReadInv'
  BY <1>3, <1>a, QuietSteps DEF ReadInv, Typed, WorkerInv
<1>4. ASSUME NEW p \in Mailers, Leased(p) PROVE ReadInv'
  <2>1. lease'.owner = p /\ mailer'[p].pc # "process"
    BY <1>4 DEF Leased, WorkerInv
  <2> QED BY <2>1 DEF ReadInv
\* a step of p alone, that takes nothing up and leaves tables and lease, or owns the lease
<1>r. ASSUME NEW p \in Mailers, Rest(p), mailer'[p].pc # "process",
             UNCHANGED <<job, account>> \/ Owns(p),
             \A q \in Mailers : q # p /\ lease'.owner = q => lease.owner = q
      PROVE  ReadInv'
  <2>1. CASE UNCHANGED <<job, account>>
    BY <1>r, <2>1 DEF ReadInv, Rest
  <2>2. CASE Owns(p)
    BY <1>r, <2>2 DEF ReadInv, Rest
  <2> QED BY <1>r, <2>1, <2>2
<1>5. ASSUME NEW p \in Mailers, Recovered(p) PROVE ReadInv'
  BY <1>5, <1>r DEF Recovered, Shifts
<1>6. ASSUME NEW p \in Mailers, NoticeSent(p) PROVE ReadInv'
  <2>1. /\ \A q \in Mailers : mailer'[q].pc = "process" => mailer'[q] = mailer[q] /\ mailer[q].job \in Jobs
        /\ UNCHANGED <<account, lease>>
        /\ \A j \in Jobs : job[j] # "none" => job'[j] = job[j]
    BY <1>6 DEF NoticeSent, Shifts, Rest, WorkerInv
  <2> QED BY <1>a, <2>1 DEF ReadInv
<1>7. ASSUME NEW p \in Mailers, Advanced(p) \/ Submitted(p) \/ TimedOut(p) \/ Refunded(p) PROVE ReadInv'
  BY <1>7, <1>r DEF Advanced, Submitted, TimedOut, Refunded, Shifts
<1>8. ASSUME NEW p \in Mailers, NEW j \in Jobs, Taken(p, j) PROVE ReadInv'
  BY <1>8 DEF Taken, Shifts, Rest, ReadInv
<1>9. ASSUME NEW p \in Mailers, Marked(p) PROVE ReadInv'
  BY <1>9, <1>r DEF Marked, Shifts
<1>10. ASSUME NEW p \in Mailers, PutBack(p) \/ Saved(p) PROVE ReadInv'
  BY <1>10, <1>r DEF PutBack, Saved
<1>11. ASSUME NEW p \in Mailers, Finished(p) PROVE ReadInv'
  BY <1>11, <1>r DEF Finished
<1>12. ASSUME NEW p \in Mailers, Ended(p) PROVE ReadInv'
  <2>1. lease' = lease \/ lease'.owner = Absent
    BY <1>12 DEF Ended
  <2> QED BY <1>12, <1>d, <1>r, <2>1 DEF Ended
<1> QED BY <1>1, <1>2, <1>3, <1>4, <1>5, <1>6, <1>7, <1>8, <1>9, <1>10, <1>11, <1>12, StepKinds

-----------------------------------------------------------------------------
(* One submission at a time                                                *)

\* The message may reach the provider yet, or it has and the answer is awaited.
Live(p) == mailer[p].pc = "answer" \/ (mailer[p].pc = "submit" /\ ~mailer[p].dead)

Before == {"recover", "notify", "advance", "process"}

\* An owner that found the instant past still finds it so.
PacedInv == \A p \in Mailers :
    Owns(p) /\ mailer[p].pc \in Before /\ ~mailer[p].paced => nextSend = "past"

\* Nobody may send before the instant the one that is sending has set.
SendInv == ~late => \A p \in Mailers : Live(p) => nextSend = p

\* A worker that may set the instant: by an attempt, or by the result of one.
Alone(p) == \/ mailer[p].pc \in Before /\ ~mailer[p].paced
            \/ mailer[p].pc \in {"submit", "answer"}
            \/ mailer[p].pending.delay

AloneInv == ~late => \A p, q \in Mailers : ~mailer[p].lost /\ Alone(p) /\ Live(q) => q = p

\* Every step keeps what an owner knows of the instant.
LEMMA PacedStep == ASSUME Typed, WorkerInv, PacedInv, [MailNext]_mailVars PROVE PacedInv'
<1> USE DEF mailTables, Owns
<1>d. deployed \subseteq Mailers /\ Absent \notin Mailers
  BY Deployment DEF Typed
\* a step of p alone that leaves the instant
<1>r. ASSUME NEW p \in Mailers, Rest(p), nextSend' = nextSend,
             mailer'[p].pc \in Before => mailer[p].pc \in Before /\ mailer'[p].paced = mailer[p].paced,
             \A q \in Mailers : lease'.owner = q => lease.owner = q
      PROVE  PacedInv'
  BY <1>r DEF PacedInv, Rest
\* a step of the owner after which it is none of those
<1>o. ASSUME NEW p \in Mailers, Rest(p), Owns(p), lease' = lease, mailer'[p].pc \notin Before
      PROVE  PacedInv'
  BY <1>o DEF PacedInv, Rest
<1>1. CASE UNCHANGED mailVars
  BY <1>1 DEF mailVars, PacedInv
<1>2. CASE LeaseRunsOut \/ NextSendPasses \/ Log \/ \E j \in Jobs : Enqueue(j)
  BY <1>2, QuietSteps DEF PacedInv
<1>3. ASSUME NEW p \in Mailers, Leased(p) PROVE PacedInv'
  <2>1. lease'.owner = p /\ nextSend' = nextSend
    BY <1>3 DEF Leased
  <2>2. mailer'[p].pc \in Before /\ ~mailer'[p].paced => nextSend = "past"
    BY <1>3 DEF Leased, WorkerInv, Before
  <2> QED BY <2>1, <2>2 DEF PacedInv
<1>4. ASSUME NEW p \in Mailers, Recovered(p) \/ NoticeSent(p) \/ Advanced(p) PROVE PacedInv'
  <2>1. mailer[p].pc \in Before /\ mailer'[p].paced = mailer[p].paced
    BY <1>4 DEF Recovered, NoticeSent, Advanced, Before
  <2>2. Rest(p) /\ nextSend' = nextSend /\ lease' = lease
    BY <1>4 DEF Recovered, NoticeSent, Advanced, Shifts
  <2> QED BY <1>r, <2>1, <2>2
<1>5. ASSUME NEW p \in Mailers, NEW j \in Jobs, Taken(p, j) PROVE PacedInv'
  BY <1>5, <1>r DEF Taken, Shifts, Before
<1>6. ASSUME NEW p \in Mailers, Submitted(p) \/ TimedOut(p) \/ Refunded(p) PROVE PacedInv'
  BY <1>6, <1>r DEF Submitted, TimedOut, Refunded, Shifts, Before
<1>7. ASSUME NEW p \in Mailers, Marked(p) PROVE PacedInv'
  BY <1>7, <1>o DEF Marked, Shifts, Before
<1>8. ASSUME NEW p \in Mailers, PutBack(p) \/ Saved(p) PROVE PacedInv'
  BY <1>8, <1>o DEF PutBack, Saved, Before
<1>9. ASSUME NEW p \in Mailers, Finished(p) PROVE PacedInv'
  BY <1>9, <1>r DEF Finished, Before
<1>10. ASSUME NEW p \in Mailers, Ended(p) PROVE PacedInv'
  <2>1. \A q \in Mailers : lease'.owner = q => lease.owner = q
    BY <1>10, <1>d DEF Ended
  <2> QED BY <1>10, <1>r, <2>1 DEF Ended, Before
<1> QED BY <1>1, <1>2, <1>3, <1>4, <1>5, <1>6, <1>7, <1>8, <1>9, <1>10, StepKinds

\* Every step keeps the one that is sending alone with the instant.
LEMMA SendStep == ASSUME Typed, WorkerInv, PacedInv, SendInv, AloneInv, [MailNext]_mailVars PROVE SendInv'
<1> USE DEF mailTables, Live
<1>d. deployed \subseteq Mailers /\ "past" \notin Mailers /\ "delay" \notin Mailers
  BY Deployment DEF Typed
\* a step of p alone that leaves the instant and submits nothing
<1>r. ASSUME NEW p \in Mailers, Rest(p), nextSend' = nextSend, late' = late,
             Live(p)' => Live(p)
      PROVE  SendInv'
  BY <1>r DEF SendInv, Rest
<1>1. CASE UNCHANGED mailVars
  BY <1>1 DEF mailVars, SendInv
<1>2. CASE LeaseRunsOut \/ Log \/ \E j \in Jobs : Enqueue(j)
  BY <1>2, QuietSteps DEF SendInv
<1>3. CASE NextSendPasses
  <2>1. nextSend \in Mailers => ~Live(nextSend)
    BY <1>3 DEF NextSendPasses
  <2> QED BY <1>3, <2>1, QuietSteps DEF SendInv
<1>4. ASSUME NEW p \in Mailers, Leased(p) PROVE SendInv'
  <2>1. \A q \in Mailers : Live(q)' => Live(q)
    <3>1. mailer'[p].pc \in {"refund", "save", "recover", "notify"}
      BY <1>4 DEF Leased, WorkerInv
    <3> QED BY <1>4, <3>1 DEF Leased
  <2> QED BY <1>4, <2>1 DEF SendInv, Leased
<1>5. ASSUME NEW p \in Mailers, Recovered(p) \/ NoticeSent(p) \/ Advanced(p) PROVE SendInv'
  BY <1>5, <1>r DEF Recovered, NoticeSent, Advanced, Shifts
<1>6. ASSUME NEW p \in Mailers, NEW j \in Jobs, Taken(p, j) PROVE SendInv'
  BY <1>6, <1>r DEF Taken, Shifts
<1>7. ASSUME NEW p \in Mailers, Submitted(p) \/ TimedOut(p) \/ Refunded(p) PROVE SendInv'
  BY <1>7, <1>r DEF Submitted, TimedOut, Refunded, Shifts
<1>8. ASSUME NEW p \in Mailers, Marked(p) PROVE SendInv'
  <2>1. nextSend = "past"
    BY <1>8 DEF Marked, PacedInv, Before
  <2>2. nextSend' = p /\ Rest(p) /\ late' = late
    BY <1>8 DEF Marked, Shifts
  <2> QED BY <1>d, <2>1, <2>2 DEF SendInv, Rest
<1>9. ASSUME NEW p \in Mailers, PutBack(p) PROVE SendInv'
  BY <1>9, <1>r DEF PutBack
<1>10. ASSUME NEW p \in Mailers, Saved(p) PROVE SendInv'
  <2>1. /\ \A q \in Mailers : Live(q)' => Live(q) /\ q # p
        /\ ~late' => ~late /\ ~mailer[p].lost
    BY <1>10 DEF Saved, Rest
  <2>2. CASE mailer[p].pending.delay
    BY <2>1, <2>2 DEF SendInv, AloneInv, Alone
  <2>3. CASE ~mailer[p].pending.delay
    BY <1>10, <2>1, <2>3 DEF SendInv, Saved
  <2> QED BY <2>2, <2>3
<1>11. ASSUME NEW p \in Mailers, Ended(p) \/ Finished(p) PROVE SendInv'
  BY <1>11, <1>r DEF Ended, Finished
<1> QED BY <1>1, <1>2, <1>3, <1>4, <1>5, <1>6, <1>7, <1>8, <1>9, <1>10, <1>11, StepKinds

\* Every step keeps a worker that may set the instant alone.
LEMMA AloneStep ==
    ASSUME Typed, WorkerInv, LeaseInv, SendInv, AloneInv, [MailNext]_mailVars
    PROVE  AloneInv'
<1> USE DEF mailTables, Live
<1>d. deployed \subseteq Mailers /\ "past" \notin Mailers /\ "delay" \notin Mailers
  BY Deployment DEF Typed
\* a step of p alone that submits nothing and does not give it more reason to set the instant
<1>r. ASSUME NEW p \in Mailers, Rest(p), ~late' => ~late,
             Live(p)' => Live(p), ~mailer'[p].lost /\ Alone(p)' => ~mailer[p].lost /\ Alone(p)
      PROVE  AloneInv'
  <2>1. \A q \in Mailers : /\ Live(q)' => Live(q)
                           /\ ~mailer'[q].lost /\ Alone(q)' => ~mailer[q].lost /\ Alone(q)
    BY <1>r DEF Rest, Alone
  <2> QED BY <1>r, <2>1 DEF AloneInv
<1>1. CASE UNCHANGED mailVars
  BY <1>1 DEF mailVars, AloneInv, Alone
<1>2. CASE LeaseRunsOut \/ NextSendPasses \/ Log \/ \E j \in Jobs : Enqueue(j)
  BY <1>2, QuietSteps DEF AloneInv, Alone
<1>3. ASSUME NEW p \in Mailers, Leased(p) PROVE AloneInv'
  <2>1. \A q \in Mailers : Live(q)' => Live(q)
    <3>1. mailer'[p].pc \in {"refund", "save", "recover", "notify"}
      BY <1>3 DEF Leased, WorkerInv
    <3> QED BY <1>3, <3>1 DEF Leased
  <2>2. ASSUME NEW q \in Mailers, q # p PROVE mailer'[q].lost \/ ~Alone(q)'
    BY <1>3, <2>2, NothingKept DEF Leased, WorkerInv, Alone, Before
  <2>3. late' = late
    BY <1>3 DEF Leased
  <2>4. CASE mailer[p].pending.status # "none"
    <3>1. ~mailer'[p].lost /\ Alone(p)' => ~mailer[p].lost /\ Alone(p)
      BY <1>3, <2>4 DEF Leased, Alone, Before
    <3> QED BY <2>1, <2>2, <2>3, <3>1 DEF AloneInv
  <2>5. CASE mailer[p].pending.status = "none"
    <3>1. Alone(p)' => nextSend = "past"
      BY <1>3, <2>5, NothingKept DEF Leased, Alone, WorkerInv
    <3> QED BY <1>d, <2>1, <2>2, <2>3, <3>1 DEF AloneInv, SendInv
  <2> QED BY <2>4, <2>5
<1>4. ASSUME NEW p \in Mailers, Recovered(p) \/ NoticeSent(p) \/ Advanced(p) PROVE AloneInv'
  <2>1. /\ mailer[p].pc \in Before /\ mailer'[p].pc \in Before /\ mailer'[p].paced = mailer[p].paced
        /\ mailer'[p].pending = mailer[p].pending
    BY <1>4 DEF Recovered, NoticeSent, Advanced, Before
  <2>2. Rest(p) /\ mailer'[p].lost = mailer[p].lost /\ late' = late
    BY <1>4 DEF Recovered, NoticeSent, Advanced, Shifts
  <2> QED BY <1>r, <2>1, <2>2 DEF Alone, Before
<1>5. ASSUME NEW p \in Mailers, NEW j \in Jobs, Taken(p, j) PROVE AloneInv'
  BY <1>5, <1>r DEF Taken, Shifts, Alone, Before
<1>6. ASSUME NEW p \in Mailers, Submitted(p) \/ TimedOut(p) PROVE AloneInv'
  BY <1>6, <1>r DEF Submitted, TimedOut, Shifts, Alone, Before
<1>7. ASSUME NEW p \in Mailers, Refunded(p) PROVE AloneInv'
  <2>1. mailer[p].pending \in Results
    BY DEF Typed, MailerStates
  <2>2. mailer'[p].pending.delay = mailer[p].pending.delay
    BY <1>7, <2>1 DEF Refunded, Results
  <2> QED BY <1>7, <1>r, <2>2 DEF Refunded, Shifts, Alone, Before
<1>8. ASSUME NEW p \in Mailers, Marked(p) PROVE AloneInv'
  <2>1. Rest(p) /\ late' = late /\ mailer'[p].lost = mailer[p].lost /\ Owns(p) /\ Alone(p)
    BY <1>8 DEF Marked, Shifts, Alone, Before
  <2>2. ASSUME NEW q \in Mailers, q # p, ~mailer[q].lost PROVE ~Alone(q)
    BY <2>1, <2>2, NothingKept DEF LeaseInv, Owns, Alone, Busy, Before, WorkerInv
  <2>3. \A q \in Mailers : q # p => /\ ~mailer'[q].lost => ~Alone(q)'
                                    /\ Live(q)' => Live(q)
    BY <2>1, <2>2 DEF Rest, Alone
  <2> QED BY <2>1, <2>3 DEF AloneInv
<1>9. ASSUME NEW p \in Mailers, PutBack(p) \/ Saved(p) PROVE AloneInv'
  <2>1. mailer'[p].pc = "idle" /\ ~mailer'[p].pending.delay
    BY <1>9, NothingKept DEF PutBack, Saved
  <2>2. Rest(p) /\ (late' = late \/ late' = (late \/ mailer[p].lost))
    BY <1>9 DEF PutBack, Saved
  <2>4. ~late' => ~late
    BY <2>2
  <2>3. ~Alone(p)' /\ ~Live(p)'
    BY <2>1 DEF Alone, Before
  <2> QED BY <1>r, <2>2, <2>3, <2>4
<1>10. ASSUME NEW p \in Mailers, Ended(p) PROVE AloneInv'
  <2>1. mailer'[p].pc = "idle" /\ late' = late /\ Rest(p)
    BY <1>10 DEF Ended
  <2>2. ~mailer'[p].lost /\ Alone(p)' => ~mailer[p].lost /\ Alone(p)
    BY <1>10, NothingKept DEF Ended, Alone, Before
  <2> QED BY <1>r, <2>1, <2>2
<1>11. ASSUME NEW p \in Mailers, Finished(p) PROVE AloneInv'
  <2>1. Alone(p)' => Alone(p)
    BY <1>11 DEF Finished, Alone, Before
  <2> QED BY <1>11, <1>r, <2>1 DEF Finished
<1> QED BY <1>1, <1>2, <1>3, <1>4, <1>5, <1>6, <1>7, <1>8, <1>9, <1>10, <1>11, StepKinds

-----------------------------------------------------------------------------
(* The attempts                                                            *)

\* The worker may still submit the job, or pays back what it has not been charged.
Attempts(p, j) == \/ mailer[p].pc = "submit" /\ mailer[p].job = j
                  \/ mailer[p].pending.refund /\ mailer[p].pending.job = j

\* A job that has reached the provider is not in the queue any more.
HistoryInv == \A j \in Jobs :
    /\ submitted[j] > 0 => job[j] \notin {"none", "queued"}
    /\ job[j] = "checking" => submitted[j] > 0
    /\ submitted[j] <= 1
    /\ j \in billed => submitted[j] > 0

\* What a worker is about to say of a job is true.
SayInv == \A p \in Mailers : LET m == mailer[p] IN
    /\ m.pc = "answer" => submitted[m.job] > 0
    /\ m.pc = "process" /\ m.status = "checking" => submitted[m.job] > 0
    /\ m.pending.status = "checking" => submitted[m.pending.job] > 0
    /\ m.pc = "submit" => submitted[m.job] = 0
    /\ m.pending.refund => m.pending.job \notin billed

\* A job that may still be submitted is in the hands of one worker, and not in the queue.
HandsInv ==
    /\ \A p \in Mailers, j \in Jobs : Attempts(p, j) => job[j] \notin {"none", "queued"}
    /\ \A p, q \in Mailers : mailer[p].pc = "submit" /\ Attempts(q, mailer[p].job) => q = p

AttemptInv == HistoryInv /\ SayInv /\ HandsInv

\* Steps that submit nothing and start no attempt.
LEMMA AttemptFrame ==
    ASSUME Typed, WorkerInv, AttemptInv, WorkerInv',
           submitted' = submitted, billed' \subseteq billed,
           \A j \in Jobs : job'[j] \in {"none", "queued"} => job[j] \in {"none", "queued"},
           \A j \in Jobs : job'[j] = "checking" => submitted[j] > 0,
           \A p \in Mailers :
             /\ mailer'[p].pc = "answer" => submitted[mailer'[p].job] > 0
             /\ mailer'[p].pc = "process" /\ mailer'[p].status = "checking" => submitted[mailer'[p].job] > 0
             /\ mailer'[p].pending.status = "checking" => submitted[mailer'[p].pending.job] > 0
             /\ mailer'[p].pc = "submit" => mailer[p].pc = "submit" /\ mailer'[p].job = mailer[p].job
             /\ mailer'[p].pending.refund =>
                  /\ mailer'[p].pending.job \notin billed'
                  /\ Attempts(p, mailer'[p].pending.job) \/ submitted[mailer'[p].pending.job] > 0
    PROVE  AttemptInv'
<1>n. \A p \in Mailers : mailer'[p].pending.refund => mailer'[p].pending.job \in Jobs
  BY NothingKept DEF WorkerInv
<1>w. \A p \in Mailers : mailer[p].pc = "submit" => mailer[p].job \in Jobs
  BY DEF WorkerInv
<1>1. HistoryInv'
  BY DEF AttemptInv, HistoryInv
<1>2. SayInv'
  BY DEF AttemptInv, SayInv
<1>3. ASSUME NEW p \in Mailers, NEW j \in Jobs, Attempts(p, j)' PROVE Attempts(p, j) \/ submitted[j] > 0
  BY <1>3 DEF Attempts
<1>4. ASSUME NEW p \in Mailers, NEW j \in Jobs, Attempts(p, j)' PROVE job'[j] \notin {"none", "queued"}
  BY <1>3, <1>4 DEF AttemptInv, HistoryInv, HandsInv
<1>5. ASSUME NEW p \in Mailers, NEW q \in Mailers, mailer'[p].pc = "submit",
             NEW j \in Jobs, j = mailer'[p].job, Attempts(q, j)'
      PROVE  q = p
  <2>1. mailer[p].pc = "submit" /\ mailer[p].job = j
    BY <1>5
  <2>2. ~(submitted[j] > 0)
    BY <2>1 DEF AttemptInv, SayInv, Typed
  <2> QED BY <1>3, <1>5, <2>1, <2>2 DEF AttemptInv, HandsInv
<1>6. HandsInv'
  <2>1. \A p, q \in Mailers : mailer'[p].pc = "submit" =>
            (Attempts(q, mailer[p].job)' => q = p)
    BY <1>5, <1>w
  <2> QED BY <1>4, <2>1 DEF HandsInv
<1> QED BY <1>1, <1>2, <1>6 DEF AttemptInv

\* The other steps of a worker alone.
LEMMA AttemptRest ==
    ASSUME Typed, WorkerInv, AttemptInv, WorkerInv',
           NEW p \in Mailers, Rest(p), submitted' = submitted, billed' \subseteq billed,
           \A j \in Jobs : job'[j] \in {"none", "queued"} => job[j] \in {"none", "queued"},
           \A j \in Jobs : job'[j] = "checking" => submitted[j] > 0,
           mailer'[p].pc # "answer",
           mailer'[p].pc = "process" /\ mailer'[p].status = "checking" => submitted[mailer'[p].job] > 0,
           mailer'[p].pending.status = "checking" => submitted[mailer'[p].pending.job] > 0,
           mailer'[p].pc = "submit" => mailer[p].pc = "submit" /\ mailer'[p].job = mailer[p].job,
           mailer'[p].pending.refund =>
               /\ mailer'[p].pending.job \notin billed'
               /\ Attempts(p, mailer'[p].pending.job) \/ submitted[mailer'[p].pending.job] > 0
    PROVE  AttemptInv'
<1>1. ASSUME NEW q \in Mailers, q # p
      PROVE  /\ mailer'[q] = mailer[q]
             /\ mailer[q].pc = "answer" => submitted[mailer[q].job] > 0
             /\ mailer[q].pc = "process" /\ mailer[q].status = "checking" => submitted[mailer[q].job] > 0
             /\ mailer[q].pending.status = "checking" => submitted[mailer[q].pending.job] > 0
             /\ mailer[q].pending.refund =>
                  mailer[q].pending.job \notin billed' /\ Attempts(q, mailer[q].pending.job)
  BY <1>1 DEF AttemptInv, SayInv, Attempts, Rest
<1> QED BY <1>1, AttemptFrame

\* Every step keeps the attempts.
LEMMA AttemptStep ==
    ASSUME Typed, WorkerInv, ReadInv, AttemptInv, [MailNext]_mailVars
    PROVE  AttemptInv'
<1> USE DEF mailTables, provider
<1>w. WorkerInv'
  BY WorkerStep
\* the jobs as they are
<1>j. \A j \in Jobs : job[j] = "checking" => submitted[j] > 0
  BY DEF AttemptInv, HistoryInv
\* the workers as they are
<1>m. ASSUME NEW p \in Mailers
      PROVE  /\ mailer[p].pc = "answer" => submitted[mailer[p].job] > 0
             /\ mailer[p].pc = "process" /\ mailer[p].status = "checking" => submitted[mailer[p].job] > 0
             /\ mailer[p].pending.status = "checking" => submitted[mailer[p].pending.job] > 0
             /\ mailer[p].pending.refund =>
                  mailer[p].pending.job \notin billed /\ Attempts(p, mailer[p].pending.job)
  BY DEF AttemptInv, SayInv, Attempts
\* a worker that has no result has nothing to pay back
<1>n. \A p \in Mailers : mailer[p].pending.status = "none" => ~mailer[p].pending.refund
  BY NothingKept DEF WorkerInv
<1>1. CASE UNCHANGED mailVars
  BY <1>1, <1>w, <1>j, <1>m, AttemptFrame DEF mailVars
<1>2. CASE LeaseRunsOut \/ NextSendPasses \/ Log
  BY <1>2, <1>w, <1>j, <1>m, AttemptFrame, QuietSteps
<1>3. ASSUME NEW j \in Jobs, Enqueue(j) PROVE AttemptInv'
  <2>1. /\ \A i \in Jobs : job'[i] \in {"none", "queued"} => job[i] \in {"none", "queued"}
        /\ \A i \in Jobs : job'[i] = "checking" => job[i] = "checking"
    BY <1>3, QuietSteps DEF Typed
  <2> QED BY <1>3, <1>w, <1>j, <1>m, <2>1, AttemptFrame, QuietSteps
<1>4. ASSUME NEW p \in Mailers, Leased(p) PROVE AttemptInv'
  <2>1. \A q \in Mailers :
            /\ mailer'[q].pending = mailer[q].pending
            /\ mailer'[q].pc \in {"process", "submit", "answer"} =>
                 mailer'[q].pc = mailer[q].pc /\ mailer'[q].job = mailer[q].job
                 /\ mailer'[q].status = mailer[q].status
    <3>1. mailer'[p].pc \in {"refund", "save", "recover", "notify"} /\ mailer'[p].pending = mailer[p].pending
      BY <1>4 DEF Leased, WorkerInv
    <3> QED BY <1>4, <3>1 DEF Leased
  <2>2. submitted' = submitted /\ billed' = billed /\ job' = job
    BY <1>4 DEF Leased
  <2> QED BY <1>w, <1>j, <1>m, <2>1, <2>2, AttemptFrame
<1>5. ASSUME NEW p \in Mailers, Recovered(p) \/ NoticeSent(p) PROVE AttemptInv'
  <2>1. /\ Rest(p) /\ submitted' = submitted /\ billed' = billed
        /\ mailer'[p].pc \in {"notify", "advance"} /\ mailer'[p].pending = mailer[p].pending
    BY <1>5 DEF Recovered, NoticeSent, Shifts
  <2>2. /\ \A j \in Jobs : job'[j] \in {"none", "queued"} => job[j] \in {"none", "queued"}
        /\ \A j \in Jobs : job'[j] = "checking" => job[j] = "checking"
    BY <1>5 DEF Recovered, NoticeSent
  <2> QED BY <1>w, <1>j, <1>m, <2>1, <2>2, AttemptRest
<1>6. ASSUME NEW p \in Mailers, Advanced(p) \/ TimedOut(p) PROVE AttemptInv'
  <2>1. /\ Rest(p) /\ submitted' = submitted /\ billed' = billed /\ job' = job
        /\ mailer'[p].pc \in {"notify", "submit"} /\ mailer'[p].pending = mailer[p].pending
        /\ mailer'[p].pc = "submit" => mailer[p].pc = "submit" /\ mailer'[p].job = mailer[p].job
    BY <1>6 DEF Advanced, TimedOut, Shifts
  <2> QED BY <1>w, <1>j, <1>m, <2>1, AttemptRest
<1>7. ASSUME NEW p \in Mailers, NEW j \in Jobs, Taken(p, j) PROVE AttemptInv'
  <2>1. /\ Rest(p) /\ submitted' = submitted /\ billed' = billed /\ job' = job
        /\ mailer'[p].pc = "process" /\ mailer'[p].pending = mailer[p].pending
        /\ mailer'[p].status = job[j] /\ mailer'[p].job = j
    BY <1>7 DEF Taken, Shifts
  <2> QED BY <1>w, <1>j, <1>m, <2>1, AttemptRest
<1>8. ASSUME NEW p \in Mailers, Refunded(p) PROVE AttemptInv'
  <2>1. /\ Rest(p) /\ submitted' = submitted /\ billed' = billed /\ job' = job
        /\ mailer'[p].pc = "save"
    BY <1>8 DEF Refunded, Shifts
  <2>2. mailer[p].pending \in Results
    BY DEF Typed, MailerStates
  <2>3. /\ mailer'[p].pending.status = mailer[p].pending.status
        /\ mailer'[p].pending.refund = mailer[p].pending.refund
        /\ mailer'[p].pending.job = mailer[p].pending.job
    BY <1>8, <2>2 DEF Refunded, Results
  <2> QED BY <1>w, <1>j, <1>m, <2>1, <2>3, AttemptRest
<1>9. ASSUME NEW p \in Mailers, PutBack(p) PROVE AttemptInv'
  <2>1. /\ Rest(p) /\ submitted' = submitted /\ billed' = billed
        /\ mailer'[p].pc = "idle" /\ mailer'[p].pending = NoResult
    BY <1>9 DEF PutBack
  <2>2. job' = job
    BY <1>9 DEF PutBack, ReadInv, Typed
  <2> QED BY <1>w, <1>j, <2>1, <2>2, NothingKept, AttemptRest
<1>10. ASSUME NEW p \in Mailers, Saved(p) PROVE AttemptInv'
  <2>1. /\ Rest(p) /\ submitted' = submitted /\ billed' = billed
        /\ mailer'[p].pc = "idle" /\ mailer'[p].pending = NoResult
    BY <1>10 DEF Saved
  <2>2. /\ job' = [job EXCEPT ![mailer[p].pending.job] = mailer[p].pending.status]
        /\ mailer[p].pending.job \in Jobs /\ mailer[p].pending.status \in {"ended", "unsent", "checking"}
    BY <1>10 DEF Saved, WorkerInv, Typed, MailerStates, Results
  <2>3. /\ \A j \in Jobs : job'[j] \in {"none", "queued"} => job[j] \in {"none", "queued"}
        /\ \A j \in Jobs : job'[j] = "checking" => submitted[j] > 0
    BY <1>j, <1>m, <2>2 DEF Typed
  <2> QED BY <1>w, <2>1, <2>3, NothingKept, AttemptRest
<1>11. ASSUME NEW p \in Mailers, Ended(p) PROVE AttemptInv'
  <2>1. /\ Rest(p) /\ submitted' = submitted /\ billed' = billed /\ job' = job
        /\ mailer'[p].pc = "idle" /\ (mailer'[p].pending = NoResult \/ mailer'[p].pending = mailer[p].pending)
    BY <1>11 DEF Ended
  <2> QED BY <1>w, <1>j, <1>m, <2>1, NothingKept, AttemptRest
<1>12. ASSUME NEW p \in Mailers, Finished(p) PROVE AttemptInv'
  <2>1. /\ Rest(p) /\ submitted' = submitted /\ billed' \subseteq billed /\ job' = job
        /\ mailer'[p].pc \in {"refund", "save"} /\ mailer'[p].pending.job = mailer[p].job
        /\ mailer[p].pc \in {"process", "submit", "answer"}
    BY <1>12 DEF Finished
  <2>2. mailer'[p].pending.status = "checking" => submitted[mailer[p].job] > 0
    BY <1>12, <1>m DEF Finished
  <2>3. ASSUME mailer'[p].pending.refund
        PROVE  /\ mailer[p].job \notin billed'
               /\ Attempts(p, mailer[p].job) \/ submitted[mailer[p].job] > 0
    <3>1. CASE mailer[p].pc = "submit"
      <4>1. submitted[mailer[p].job] = 0 /\ mailer[p].job \in Jobs
        BY <3>1 DEF AttemptInv, SayInv, WorkerInv
      <4>2. mailer[p].job \notin billed
        BY <4>1 DEF AttemptInv, HistoryInv
      <4> QED BY <2>1, <3>1, <4>2 DEF Attempts
    <3>2. CASE mailer[p].pc # "submit"
      BY <1>12, <1>m, <2>1, <2>3, <3>2 DEF Finished
    <3> QED BY <3>1, <3>2
  <2> QED BY <1>w, <1>j, <2>1, <2>2, <2>3, AttemptRest
<1>13. ASSUME NEW p \in Mailers, Marked(p) PROVE AttemptInv'
  <2> DEFINE i == mailer[p].job
  <2>1. /\ Rest(p) /\ submitted' = submitted /\ billed' = billed
        /\ mailer'[p].pc = "submit" /\ mailer'[p].pending = mailer[p].pending /\ mailer'[p].job = i
        /\ job' = [job EXCEPT ![i] = "sending"]
    BY <1>13 DEF Marked, Shifts
  <2>2. i \in Jobs /\ mailer[p].pending.status = "none"
    BY <1>13 DEF Marked, WorkerInv, Working
  <2>3. job[i] = "queued"
    BY <1>13 DEF Marked, ReadInv, WorkerInv
  <2>4. submitted[i] = 0 /\ \A q \in Mailers : ~Attempts(q, i)
    BY <2>2, <2>3 DEF AttemptInv, HistoryInv, HandsInv, Typed
  <2>5. \A j \in Jobs : job'[j] = IF j = i THEN "sending" ELSE job[j]
    BY <2>1 DEF Typed
  <2>6. HistoryInv'
    BY <2>1, <2>5 DEF AttemptInv, HistoryInv
  <2>7. SayInv'
    BY <1>n, <2>1, <2>2, <2>4 DEF AttemptInv, SayInv, Rest
  <2>8. ~mailer[p].pending.refund
    BY <1>n, <2>2
  <2>9. ASSUME NEW q \in Mailers, NEW j \in Jobs, Attempts(q, j)' PROVE (q = p /\ j = i) \/ Attempts(q, j)
    BY <2>1, <2>8, <2>9 DEF Attempts, Rest
  <2>10. \A q \in Mailers, j \in Jobs : Attempts(q, j)' => job'[j] \notin {"none", "queued"}
    BY <2>2, <2>5, <2>9 DEF AttemptInv, HandsInv
  <2>11. ASSUME NEW q \in Mailers, NEW r \in Mailers, mailer'[q].pc = "submit",
                NEW j \in Jobs, j = mailer'[q].job, Attempts(r, j)'
         PROVE  r = q
    <3>1. CASE q = p
      BY <2>1, <2>4, <2>9, <2>11, <3>1
    <3>2. CASE q # p
      <4>1. mailer[q].pc = "submit" /\ mailer[q].job = j
        BY <2>1, <2>11, <3>2 DEF Rest
      <4>2. j # i
        BY <2>4, <4>1 DEF Attempts
      <4> QED BY <2>9, <2>11, <4>1, <4>2 DEF AttemptInv, HandsInv
    <3> QED BY <3>1, <3>2
  <2>12. \A q \in Mailers : mailer'[q].pc = "submit" => mailer'[q].job \in Jobs
    BY <1>w DEF WorkerInv
  <2>13. HandsInv'
    BY <2>10, <2>11, <2>12 DEF HandsInv
  <2> QED BY <2>6, <2>7, <2>13 DEF AttemptInv
<1>14. ASSUME NEW p \in Mailers, Submitted(p) PROVE AttemptInv'
  <2> DEFINE i == mailer[p].job
  <2>1. /\ Rest(p) /\ job' = job /\ mailer[p].pc = "submit"
        /\ submitted' = [submitted EXCEPT ![i] = @ + 1]
        /\ billed' \in {billed, billed \cup {i}}
        /\ mailer'[p].pc = "answer" /\ mailer'[p].pending = mailer[p].pending /\ mailer'[p].job = i
    BY <1>14 DEF Submitted, Shifts
  <2>2. i \in Jobs /\ mailer[p].pending.status = "none" /\ ~mailer[p].pending.refund
    BY <1>n, <2>1 DEF WorkerInv, Working
  <2>3. submitted[i] = 0 /\ job[i] \notin {"none", "queued"} /\ Attempts(p, i)
    BY <2>1, <2>2 DEF AttemptInv, SayInv, HandsInv, Attempts
  <2>4. \A j \in Jobs : submitted'[j] = IF j = i THEN 1 ELSE submitted[j]
    BY <2>1, <2>2, <2>3 DEF Typed
  <2>5. \A q \in Mailers : q # p => ~Attempts(q, i)
    BY <2>1, <2>3 DEF AttemptInv, HandsInv
  <2>6. HistoryInv'
    BY <2>1, <2>2, <2>3, <2>4 DEF AttemptInv, HistoryInv, Typed
  <2>7. ASSUME NEW q \in Mailers, NEW j \in Jobs, Attempts(q, j)' PROVE q # p /\ j # i /\ Attempts(q, j)
    BY <2>1, <2>2, <2>5, <2>7 DEF Attempts, Rest
  <2>8. ASSUME NEW q \in Mailers, q # p, NEW j \in Jobs
        PROVE  /\ mailer'[q] = mailer[q]
               /\ submitted[j] > 0 => submitted'[j] > 0
               /\ Attempts(q, j) => j # i
    BY <2>1, <2>4, <2>5, <2>8 DEF Rest
  <2>9. ASSUME NEW q \in Mailers, q # p PROVE SayInv!(q)'
    <3>1. mailer'[q] = mailer[q]
      BY <2>8, <2>2, <2>9
    <3>2. /\ mailer[q].pc \in {"process", "submit", "answer"} => mailer[q].job \in Jobs
          /\ mailer[q].pending.status # "none" => mailer[q].pending.job \in Jobs
      BY DEF WorkerInv
    <3>3. mailer[q].pc = "answer" => submitted'[mailer[q].job] > 0
      BY <1>m, <2>8, <2>9, <3>2
    <3>4. mailer[q].pc = "process" /\ mailer[q].status = "checking" => submitted'[mailer[q].job] > 0
      BY <1>m, <2>8, <2>9, <3>2
    <3>5. mailer[q].pending.status = "checking" => submitted'[mailer[q].pending.job] > 0
      BY <1>m, <2>8, <2>9, <3>2
    <3>6. mailer[q].pc = "submit" => submitted'[mailer[q].job] = 0
      BY <2>4, <2>5, <2>9, <3>2 DEF Attempts, AttemptInv, SayInv
    <3>7. mailer[q].pending.refund => mailer[q].pending.job \notin billed'
      BY <1>n, <1>m, <2>1, <2>8, <2>9, <3>2
    <3> QED BY <3>1, <3>3, <3>4, <3>5, <3>6, <3>7
  <2>10. SayInv!(p)'
    BY <2>1, <2>2, <2>4
  <2>11. SayInv'
    BY <2>9, <2>10 DEF SayInv
  <2>12. ASSUME NEW q \in Mailers, NEW r \in Mailers, mailer'[q].pc = "submit",
                NEW j \in Jobs, j = mailer'[q].job, Attempts(r, j)'
         PROVE  r = q
    <3>1. q # p
      BY <2>1, <2>12
    <3>2. mailer[q].pc = "submit" /\ mailer[q].job = j
      BY <2>1, <2>12, <3>1 DEF Rest
    <3> QED BY <2>7, <2>12, <3>2 DEF AttemptInv, HandsInv
  <2>13. \A q \in Mailers : mailer'[q].pc = "submit" => mailer'[q].job \in Jobs
    BY <1>w DEF WorkerInv
  <2>14. \A q \in Mailers, j \in Jobs : Attempts(q, j)' => job'[j] \notin {"none", "queued"}
    BY <2>1, <2>7 DEF AttemptInv, HandsInv
  <2>15. HandsInv'
    BY <2>12, <2>13, <2>14 DEF HandsInv
  <2> QED BY <2>6, <2>11, <2>15 DEF AttemptInv
<1> QED BY <1>1, <1>2, <1>3, <1>4, <1>5, <1>6, <1>7, <1>8, <1>9, <1>10, <1>11, <1>12, <1>13, <1>14, StepKinds

-----------------------------------------------------------------------------
(* The records and the account                                             *)

\* A result that says a message was not sent, and that comes in time, is about a queued job.
UnsentInv == \A p \in Mailers :
    ~mailer[p].lost /\ mailer[p].pending.status = "unsent" => job[mailer[p].pending.job] = "queued"

\* A job that has reached the provider, or still may, is not said to have not been sent.
RecordInv == ~late => \A j \in Jobs :
    submitted[j] > 0 \/ (\E p \in Mailers : mailer[p].pc = "submit" /\ mailer[p].job = j) => job[j] # "unsent"

\* Only what is paid back waits for the account to be read again.
RefundInv == \A p \in Mailers : mailer[p].pc = "refund" => mailer[p].pending.refund

\* The account kept with a result that comes in time is the one in the table, but for the refund.
SavedInv == \A p \in Mailers : LET r == mailer[p].pending IN
    ~mailer[p].lost /\ r.status # "none" /\ r.account # Absent =>
        r.account = IF r.refund THEN account \ {r.job} ELSE account

\* The account counts what the provider charges and what it may be about to charge.
QuotaInv == ~late => /\ billed \subseteq account /\ Cardinality(account) <= site.quota
                     /\ \A p \in Mailers : mailer[p].pc = "submit" => mailer[p].job \in account

\* Nobody but a worker that owns the lease, and is in time, has a result for a job of the queue.
LEMMA UnsentStep ==
    ASSUME Typed, WorkerInv, LeaseInv, ReadInv, UnsentInv, [MailNext]_mailVars
    PROVE  UnsentInv'
<1> USE DEF mailTables
\* jobs in the queue stay there
<1>f. ASSUME \A j \in Jobs : job[j] = "queued" => job'[j] = "queued",
             \A p \in Mailers : ~mailer'[p].lost /\ mailer'[p].pending.status = "unsent" =>
                 /\ ~mailer[p].lost /\ mailer[p].pending.status = "unsent"
                 /\ mailer'[p].pending.job = mailer[p].pending.job
      PROVE  UnsentInv'
  BY <1>f DEF UnsentInv, WorkerInv
\* the owner of the lease writes a job, and has nothing kept
<1>o. ASSUME NEW p \in Mailers, Owns(p), Rest(p), mailer'[p].pending.status = "none" PROVE UnsentInv'
  <2>1. \A q \in Mailers : q # p /\ ~mailer[q].lost => mailer[q].pending.status = "none"
    BY <1>o DEF LeaseInv, Owns, Busy
  <2> QED BY <1>o, <2>1 DEF UnsentInv, Rest
<1>1. CASE UNCHANGED mailVars
  BY <1>1, <1>f DEF mailVars
<1>2. CASE LeaseRunsOut \/ NextSendPasses \/ Log
  BY <1>2, <1>f, QuietSteps
<1>3. ASSUME NEW j \in Jobs, Enqueue(j) PROVE UnsentInv'
  BY <1>3, <1>f, QuietSteps DEF Typed
<1>4. ASSUME NEW p \in Mailers, Leased(p) PROVE UnsentInv'
  <2>1. ASSUME NEW q \in Mailers, ~mailer'[q].lost, mailer'[q].pending.status = "unsent"
        PROVE  ~mailer[q].lost /\ mailer[q].pending.status = "unsent" /\ mailer'[q].pending = mailer[q].pending
    <3>1. CASE q = p
      BY <1>4, <2>1, <3>1 DEF Leased
    <3>2. CASE q # p
      BY <1>4, <2>1, <3>2, NothingKept DEF Leased
    <3> QED BY <3>1, <3>2
  <2>2. job' = job
    BY <1>4 DEF Leased
  <2> QED BY <1>f, <2>1, <2>2
<1>5. ASSUME NEW p \in Mailers, Recovered(p) \/ NoticeSent(p) PROVE UnsentInv'
  <2>1. /\ Rest(p) /\ mailer'[p].pending = mailer[p].pending /\ mailer'[p].lost = mailer[p].lost
        /\ \A j \in Jobs : job[j] = "queued" => job'[j] = "queued"
    BY <1>5 DEF Recovered, NoticeSent, Shifts
  <2> QED BY <1>f, <2>1 DEF Rest
<1>6. ASSUME NEW p \in Mailers, Advanced(p) \/ Submitted(p) \/ TimedOut(p) \/ \E j \in Jobs : Taken(p, j)
      PROVE  UnsentInv'
  <2>1. Rest(p) /\ mailer'[p].pending = mailer[p].pending /\ mailer'[p].lost = mailer[p].lost /\ job' = job
    BY <1>6 DEF Advanced, Submitted, TimedOut, Taken, Shifts
  <2> QED BY <1>f, <2>1 DEF Rest
<1>7. ASSUME NEW p \in Mailers, Refunded(p) PROVE UnsentInv'
  <2>1. mailer[p].pending \in Results
    BY DEF Typed, MailerStates
  <2>2. /\ mailer'[p].pending.status = mailer[p].pending.status
        /\ mailer'[p].pending.job = mailer[p].pending.job
    BY <1>7, <2>1 DEF Refunded, Results
  <2>3. Rest(p) /\ mailer'[p].lost = mailer[p].lost /\ job' = job
    BY <1>7 DEF Refunded, Shifts
  <2> QED BY <1>f, <2>2, <2>3 DEF Rest
<1>8. ASSUME NEW p \in Mailers, Marked(p) PROVE UnsentInv'
  <2>1. mailer'[p].pending.status = "none"
    BY <1>8 DEF Marked, WorkerInv, Working
  <2> QED BY <1>8, <1>o, <2>1 DEF Marked, Shifts
<1>9. ASSUME NEW p \in Mailers, PutBack(p) \/ Saved(p) PROVE UnsentInv'
  BY <1>9, <1>o, NothingKept DEF PutBack, Saved
<1>10. ASSUME NEW p \in Mailers, Ended(p) PROVE UnsentInv'
  <2>1. /\ Rest(p) /\ job' = job
        /\ \/ mailer'[p].pending = NoResult
           \/ mailer'[p].pending = mailer[p].pending /\ mailer'[p].lost = mailer[p].lost
    BY <1>10 DEF Ended
  <2> QED BY <1>f, <2>1, NothingKept DEF Rest
<1>11. ASSUME NEW p \in Mailers, Finished(p) PROVE UnsentInv'
  <2>1. /\ Rest(p) /\ job' = job /\ mailer'[p].lost = mailer[p].lost
        /\ mailer'[p].pending.job = mailer[p].job
        /\ mailer'[p].pending.status = "unsent" => mailer[p].pc = "process" /\ mailer[p].status = "queued"
    BY <1>11 DEF Finished
  <2>2. ~mailer[p].lost /\ mailer[p].pc = "process" => job[mailer[p].job] = mailer[p].status
    BY DEF LeaseInv, ReadInv, Busy
  <2> QED BY <2>1, <2>2 DEF UnsentInv, Rest
<1> QED BY <1>1, <1>2, <1>3, <1>4, <1>5, <1>6, <1>7, <1>8, <1>9, <1>10, <1>11, StepKinds

\* Every step keeps the record of what was sent.
LEMMA RecordStep ==
    ASSUME Typed, WorkerInv, ReadInv, AttemptInv, UnsentInv, RecordInv, [MailNext]_mailVars
    PROVE  RecordInv'
<1> USE DEF mailTables, provider
<1>w. \A p \in Mailers : mailer[p].pc = "submit" => mailer[p].job \in Jobs
  BY DEF WorkerInv
<1>f. ASSUME ~late' => ~late,
             \A j \in Jobs : job'[j] = "unsent" => job[j] = "unsent",
             \A j \in Jobs : submitted'[j] > 0 =>
                 submitted[j] > 0 \/ \E p \in Mailers : mailer[p].pc = "submit" /\ mailer[p].job = j,
             \A p \in Mailers : mailer'[p].pc = "submit" =>
                 \/ mailer[p].pc = "submit" /\ mailer'[p].job = mailer[p].job
                 \/ job'[mailer'[p].job] = "sending"
      PROVE  RecordInv'
  <2> SUFFICES ASSUME ~late', NEW j \in Jobs, job'[j] = "unsent",
                      submitted'[j] > 0 \/ \E p \in Mailers : mailer'[p].pc = "submit" /\ mailer'[p].job = j
               PROVE  FALSE
    BY DEF RecordInv
  <2>1. submitted[j] > 0 \/ \E p \in Mailers : mailer[p].pc = "submit" /\ mailer[p].job = j
    BY <1>f
  <2> QED BY <1>f, <2>1 DEF RecordInv
<1>1. CASE UNCHANGED mailVars
  BY <1>1, <1>f DEF mailVars
<1>2. CASE LeaseRunsOut \/ NextSendPasses \/ Log
  BY <1>2, <1>f, QuietSteps
<1>3. ASSUME NEW j \in Jobs, Enqueue(j) PROVE RecordInv'
  BY <1>3, <1>f, QuietSteps DEF Typed
<1>4. ASSUME NEW p \in Mailers, Leased(p) PROVE RecordInv'
  <2>1. \A q \in Mailers : mailer'[q].pc = "submit" => mailer[q].pc = "submit" /\ mailer'[q].job = mailer[q].job
    <3>1. mailer'[p].pc \in {"refund", "save", "recover", "notify"}
      BY <1>4 DEF Leased, WorkerInv
    <3> QED BY <1>4, <3>1 DEF Leased
  <2>2. submitted' = submitted /\ late' = late /\ job' = job
    BY <1>4 DEF Leased
  <2> QED BY <1>f, <2>1, <2>2
<1>5. ASSUME NEW p \in Mailers, Recovered(p) \/ NoticeSent(p) PROVE RecordInv'
  <2>1. /\ Rest(p) /\ mailer'[p].pc # "submit" /\ submitted' = submitted /\ late' = late
        /\ \A j \in Jobs : job'[j] = "unsent" => job[j] = "unsent"
    BY <1>5 DEF Recovered, NoticeSent, Shifts
  <2> QED BY <1>f, <2>1 DEF Rest
<1>6. ASSUME NEW p \in Mailers, Advanced(p) \/ Refunded(p) \/ TimedOut(p) \/ Ended(p) \/ Finished(p)
                                \/ \E j \in Jobs : Taken(p, j)
      PROVE  RecordInv'
  <2>1. /\ Rest(p) /\ submitted' = submitted /\ late' = late /\ job' = job
        /\ mailer'[p].pc = "submit" => mailer[p].pc = "submit" /\ mailer'[p].job = mailer[p].job
    BY <1>6 DEF Advanced, Refunded, TimedOut, Ended, Finished, Taken, Shifts
  <2> QED BY <1>f, <2>1 DEF Rest
<1>7. ASSUME NEW p \in Mailers, Submitted(p) PROVE RecordInv'
  <2>1. /\ Rest(p) /\ late' = late /\ job' = job /\ mailer[p].pc = "submit" /\ mailer'[p].pc = "answer"
        /\ submitted' = [submitted EXCEPT ![mailer[p].job] = @ + 1]
    BY <1>7 DEF Submitted, Shifts
  <2>2. \A j \in Jobs : j # mailer[p].job => submitted'[j] = submitted[j]
    BY <2>1 DEF Typed
  <2> QED BY <1>f, <2>1, <2>2 DEF Rest
<1>8. ASSUME NEW p \in Mailers, Marked(p) PROVE RecordInv'
  <2>1. /\ Rest(p) /\ late' = late /\ submitted' = submitted /\ mailer'[p].job = mailer[p].job
        /\ job' = [job EXCEPT ![mailer[p].job] = "sending"] /\ mailer[p].pc = "process"
    BY <1>8 DEF Marked, Shifts
  <2>2. mailer[p].job \in Jobs
    BY <2>1 DEF WorkerInv
  <2>3. \A j \in Jobs : job'[j] = IF j = mailer[p].job THEN "sending" ELSE job[j]
    BY <2>1 DEF Typed
  <2> QED BY <1>f, <2>1, <2>2, <2>3 DEF Rest
<1>9. ASSUME NEW p \in Mailers, PutBack(p) PROVE RecordInv'
  <2>1. job' = job
    BY <1>9 DEF PutBack, ReadInv, Typed
  <2> QED BY <1>9, <1>f, <2>1 DEF PutBack, Rest
<1>10. ASSUME NEW p \in Mailers, Saved(p) PROVE RecordInv'
  <2> DEFINE r == mailer[p].pending
  <2>1. /\ Rest(p) /\ mailer'[p].pc = "idle" /\ submitted' = submitted
        /\ job' = [job EXCEPT ![r.job] = r.status]
        /\ mailer[p].pc = "save" /\ late' = (late \/ mailer[p].lost)
    BY <1>10 DEF Saved
  <2>2. \A j \in Jobs : job'[j] = IF j = r.job THEN r.status ELSE job[j]
    BY <2>1 DEF Typed
  <2>3. CASE r.status = "unsent" /\ ~late'
    <3>1. ~late /\ ~mailer[p].lost /\ r.job \in Jobs
      BY <2>1, <2>3 DEF WorkerInv
    <3>2. job[r.job] = "queued"
      BY <2>3, <3>1 DEF UnsentInv
    <3>3. /\ ~(submitted[r.job] > 0)
          /\ \A q \in Mailers : ~(mailer[q].pc = "submit" /\ mailer[q].job = r.job)
      BY <3>1, <3>2 DEF AttemptInv, HistoryInv, HandsInv, Attempts
    <3>4. \A q \in Mailers : mailer'[q].pc = "submit" => mailer'[q] = mailer[q]
      BY <2>1 DEF Rest
    <3> QED BY <2>1, <2>2, <3>1, <3>3, <3>4 DEF RecordInv
  <2>4. CASE r.status # "unsent"
    <3>1. ~late' => ~late
      BY <2>1
    <3> QED BY <1>f, <2>1, <2>2, <2>4, <3>1 DEF Rest
  <2>5. CASE late'
    BY <2>5 DEF RecordInv
  <2> QED BY <2>3, <2>4, <2>5
<1> QED BY <1>1, <1>2, <1>3, <1>4, <1>5, <1>6, <1>7, <1>8, <1>9, <1>10, StepKinds

\* Only what is paid back waits for the account, whatever step is made.
LEMMA RefundStep == ASSUME Typed, WorkerInv, RefundInv, [MailNext]_mailVars PROVE RefundInv'
<1> USE DEF mailTables
<1>1. CASE UNCHANGED mailVars
  BY <1>1 DEF mailVars, RefundInv
<1>2. CASE LeaseRunsOut \/ NextSendPasses \/ Log \/ \E j \in Jobs : Enqueue(j)
  BY <1>2, QuietSteps DEF RefundInv
<1>3. ASSUME NEW p \in Mailers, Leased(p) PROVE RefundInv'
  <2>1. mailer'[p].pc = "refund" => mailer'[p].pending.refund
    BY <1>3 DEF Leased
  <2>2. \A q \in Mailers : q # p => mailer'[q].pc = mailer[q].pc /\ mailer'[q].pending = mailer[q].pending
    BY <1>3 DEF Leased
  <2> QED BY <2>1, <2>2 DEF RefundInv
<1>4. ASSUME NEW p \in Mailers,
             Recovered(p) \/ NoticeSent(p) \/ Advanced(p) \/ Marked(p) \/ Submitted(p) \/ TimedOut(p)
             \/ Refunded(p) \/ PutBack(p) \/ Saved(p) \/ Ended(p) \/ Finished(p) \/ \E j \in Jobs : Taken(p, j)
      PROVE  RefundInv'
  <2>1. Rest(p)
    BY <1>4 DEF Recovered, NoticeSent, Advanced, Marked, Submitted, TimedOut, Refunded, PutBack, Saved, Ended,
                Finished, Taken, Shifts
  <2>2. mailer'[p].pc = "refund" => mailer'[p].pending.refund
    BY <1>4 DEF Recovered, NoticeSent, Advanced, Marked, Submitted, TimedOut, Refunded, PutBack, Saved, Ended,
                Finished, Taken
  <2> QED BY <2>1, <2>2 DEF RefundInv, Rest
<1> QED BY <1>1, <1>2, <1>3, <1>4, StepKinds

\* Nobody but a worker in time keeps the account as it is.
LEMMA SavedStep ==
    ASSUME Typed, WorkerInv, LeaseInv, ReadInv, RefundInv, SavedInv, [MailNext]_mailVars
    PROVE  SavedInv'
<1> USE DEF mailTables
<1>f. ASSUME account' = account,
             \A p \in Mailers :
                 \/ mailer'[p].pending.status = "none"
                 \/ mailer'[p].lost
                 \/ mailer'[p].pending = mailer[p].pending /\ ~mailer[p].lost
      PROVE  SavedInv'
  BY <1>f DEF SavedInv
\* the owner of the lease writes the account, and has nothing kept
<1>o. ASSUME NEW p \in Mailers, Owns(p), Rest(p), mailer'[p].pending.status = "none" PROVE SavedInv'
  <2>1. \A q \in Mailers : q # p /\ ~mailer[q].lost => mailer[q].pending.status = "none"
    BY <1>o DEF LeaseInv, Owns, Busy
  <2> QED BY <1>o, <2>1 DEF SavedInv, Rest
<1>1. CASE UNCHANGED mailVars
  BY <1>1, <1>f DEF mailVars
<1>2. CASE LeaseRunsOut \/ NextSendPasses \/ Log \/ \E j \in Jobs : Enqueue(j)
  BY <1>2, <1>f, QuietSteps
<1>3. ASSUME NEW p \in Mailers, Leased(p) PROVE SavedInv'
  <2>1. ASSUME NEW q \in Mailers
        PROVE  \/ mailer'[q].pending.status = "none" \/ mailer'[q].lost
               \/ mailer'[q].pending = mailer[q].pending /\ ~mailer[q].lost
    <3>1. CASE q = p
      BY <1>3, <3>1 DEF Leased
    <3>2. CASE q # p
      BY <1>3, <3>2, NothingKept DEF Leased
    <3> QED BY <3>1, <3>2
  <2> QED BY <1>3, <1>f, <2>1 DEF Leased
<1>4. ASSUME NEW p \in Mailers, Recovered(p) \/ NoticeSent(p) \/ Advanced(p) \/ Submitted(p) \/ TimedOut(p)
                                \/ \E j \in Jobs : Taken(p, j)
      PROVE  SavedInv'
  <2>1. Rest(p) /\ mailer'[p].pending = mailer[p].pending /\ mailer'[p].lost = mailer[p].lost /\ account' = account
    BY <1>4 DEF Recovered, NoticeSent, Advanced, Submitted, TimedOut, Taken, Shifts
  <2> QED BY <1>f, <2>1 DEF Rest
<1>5. ASSUME NEW p \in Mailers, Marked(p) PROVE SavedInv'
  <2>1. mailer'[p].pending.status = "none"
    BY <1>5 DEF Marked, WorkerInv, Working
  <2> QED BY <1>5, <1>o, <2>1 DEF Marked, Shifts
<1>6. ASSUME NEW p \in Mailers, PutBack(p) \/ Saved(p) PROVE SavedInv'
  BY <1>6, <1>o, NothingKept DEF PutBack, Saved
<1>7. ASSUME NEW p \in Mailers, Ended(p) PROVE SavedInv'
  <2>1. /\ Rest(p) /\ account' = account
        /\ \/ mailer'[p].pending = NoResult
           \/ mailer'[p].pending = mailer[p].pending /\ mailer'[p].lost = mailer[p].lost
    BY <1>7 DEF Ended
  <2> QED BY <1>f, <2>1, NothingKept DEF Rest
<1>8. ASSUME NEW p \in Mailers, Refunded(p) PROVE SavedInv'
  <2>1. mailer[p].pending \in Results /\ mailer[p].pending.refund
    BY <1>8 DEF Typed, MailerStates, Refunded, RefundInv
  <2>2. /\ mailer'[p].pending.account = account \ {mailer[p].pending.job}
        /\ mailer'[p].pending.job = mailer[p].pending.job
        /\ mailer'[p].pending.refund
    BY <1>8, <2>1 DEF Refunded, Results
  <2>3. Rest(p) /\ account' = account
    BY <1>8 DEF Refunded, Shifts
  <2>4. ASSUME NEW q \in Mailers, q # p PROVE mailer'[q] = mailer[q]
    BY <2>3, <2>4 DEF Rest
  <2>5. SavedInv!(p)'
    BY <2>2, <2>3
  <2>6. ASSUME NEW q \in Mailers, q # p PROVE SavedInv!(q)'
    BY <2>3, <2>4, <2>6 DEF SavedInv
  <2> QED BY <2>5, <2>6 DEF SavedInv
<1>9. ASSUME NEW p \in Mailers, Finished(p) PROVE SavedInv'
  <2>1. /\ Rest(p) /\ account' = account /\ mailer'[p].lost = mailer[p].lost
        /\ mailer'[p].pending.account # Absent =>
             /\ mailer[p].pc = "process" /\ mailer'[p].pending.account = mailer[p].account
             /\ ~mailer'[p].pending.refund
    BY <1>9 DEF Finished
  <2>2. ~mailer[p].lost /\ mailer[p].pc = "process" => account = mailer[p].account
    BY DEF LeaseInv, ReadInv, Busy
  <2> QED BY <2>1, <2>2 DEF SavedInv, Rest
<1> QED BY <1>1, <1>2, <1>3, <1>4, <1>5, <1>6, <1>7, <1>8, <1>9, StepKinds

\* Every step keeps the account.
LEMMA QuotaStep ==
    ASSUME Typed, WorkerInv, ReadInv, AttemptInv, SavedInv, QuotaInv, [MailNext]_mailVars
    PROVE  QuotaInv'
<1> USE DEF mailTables, provider
<1>q. site.quota \in Nat
  BY Deployment DEF Typed
<1>s. ASSUME NEW S \in SUBSET Jobs PROVE IsFiniteSet(S) /\ Cardinality(S) \in Nat
  <2>1. IsFiniteSet(Jobs)
    BY BoundAssumption, FS_Interval DEF Jobs
  <2>2. IsFiniteSet(S)
    BY <2>1, FS_Subset
  <2> QED BY <2>2, FS_CardinalityType
<1>f. ASSUME ~late' => ~late, account' = account, billed' \subseteq billed, site' = site,
             \A p \in Mailers : mailer'[p].pc = "submit" => mailer[p].pc = "submit" /\ mailer'[p].job = mailer[p].job
      PROVE  QuotaInv'
  BY <1>f DEF QuotaInv
<1>1. CASE UNCHANGED mailVars
  BY <1>1, <1>f DEF mailVars
<1>2. CASE LeaseRunsOut \/ NextSendPasses \/ Log \/ \E j \in Jobs : Enqueue(j)
  BY <1>2, <1>f, QuietSteps
<1>3. ASSUME NEW p \in Mailers, Leased(p) PROVE QuotaInv'
  <2>1. \A q \in Mailers : mailer'[q].pc = "submit" => mailer[q].pc = "submit" /\ mailer'[q].job = mailer[q].job
    <3>1. mailer'[p].pc \in {"refund", "save", "recover", "notify"}
      BY <1>3 DEF Leased, WorkerInv
    <3> QED BY <1>3, <3>1 DEF Leased
  <2>2. account' = account /\ billed' = billed /\ late' = late /\ site' = site
    BY <1>3 DEF Leased
  <2> QED BY <1>f, <2>1, <2>2
<1>4. ASSUME NEW p \in Mailers, Recovered(p) \/ NoticeSent(p) \/ Advanced(p) \/ TimedOut(p) \/ Refunded(p)
                                \/ PutBack(p) \/ Ended(p) \/ Finished(p) \/ \E j \in Jobs : Taken(p, j)
      PROVE  QuotaInv'
  <2>1. Rest(p) /\ account' = account /\ billed' \subseteq billed /\ late' = late /\ site' = site
    BY <1>4 DEF Recovered, NoticeSent, Advanced, TimedOut, Refunded, PutBack, Ended, Finished, Taken, Shifts
  <2>2. mailer'[p].pc = "submit" => mailer[p].pc = "submit" /\ mailer'[p].job = mailer[p].job
    BY <1>4 DEF Recovered, NoticeSent, Advanced, TimedOut, Refunded, PutBack, Ended, Finished, Taken
  <2> QED BY <1>f, <2>1, <2>2 DEF Rest
<1>5. ASSUME NEW p \in Mailers, Submitted(p) PROVE QuotaInv'
  <2>1. /\ Rest(p) /\ account' = account /\ late' = late /\ site' = site
        /\ mailer[p].pc = "submit" /\ mailer'[p].pc = "answer"
        /\ billed' \in {billed, billed \cup {mailer[p].job}}
    BY <1>5 DEF Submitted, Shifts
  <2> QED BY <2>1 DEF QuotaInv, Rest
<1>6. ASSUME NEW p \in Mailers, Marked(p) PROVE QuotaInv'
  <2> DEFINE i == mailer[p].job
  <2>1. /\ Rest(p) /\ late' = late /\ site' = site /\ billed' = billed
        /\ mailer'[p].job = i /\ account' = mailer[p].account \cup {i}
        /\ Cardinality(mailer[p].account) < site.quota
    BY <1>6 DEF Marked, Shifts, WithinQuota
  <2>2. mailer[p].account = account /\ i \in Jobs
    BY <1>6 DEF Marked, ReadInv, WorkerInv
  <2>3. IsFiniteSet(account) /\ Cardinality(account) \in Nat
    BY <1>s DEF Typed
  <2>4. Cardinality(account \cup {i}) <= site.quota
    <3>1. Cardinality(account \cup {i}) = IF i \in account THEN Cardinality(account) ELSE Cardinality(account) + 1
      BY <2>3, FS_AddElement
    <3> QED BY <1>q, <2>1, <2>2, <2>3, <3>1
  <2>5. \A q \in Mailers : mailer'[q].pc = "submit" => (mailer[q].pc = "submit" /\ mailer'[q].job = mailer[q].job)
                                                     \/ mailer'[q].job = i
    BY <2>1 DEF Rest
  <2> QED BY <2>1, <2>2, <2>4, <2>5 DEF QuotaInv
<1>7. ASSUME NEW p \in Mailers, Saved(p) PROVE QuotaInv'
  <2> DEFINE r == mailer[p].pending
  <2>1. /\ Rest(p) /\ site' = site /\ billed' = billed /\ mailer'[p].pc = "idle" /\ mailer[p].pc = "save"
        /\ account' = IF r.account = Absent THEN account ELSE r.account
        /\ late' = (late \/ mailer[p].lost)
    BY <1>7 DEF Saved
  <2>2. SUFFICES ASSUME ~late' PROVE QuotaInv'
    BY DEF QuotaInv
  <2>3. ~late /\ ~mailer[p].lost /\ r.status # "none"
    BY <2>1, <2>2 DEF WorkerInv
  <2>4. account' = account \/ (r.refund /\ account' = account \ {r.job})
    BY <2>1, <2>3 DEF SavedInv
  <2>5. \A q \in Mailers : mailer'[q].pc = "submit" => mailer'[q] = mailer[q] /\ q # p
    BY <2>1 DEF Rest
  <2>6. CASE account' = account
    BY <1>f, <2>1, <2>3, <2>5, <2>6
  <2>7. CASE r.refund /\ account' = account \ {r.job}
    <3>1. r.job \notin billed
      BY <2>7 DEF AttemptInv, SayInv
    <3>2. \A q \in Mailers : mailer[q].pc = "submit" /\ q # p => mailer[q].job # r.job
      BY <2>7 DEF AttemptInv, HandsInv, Attempts
    <3>3. Cardinality(account \ {r.job}) <= site.quota
      <4>1. Cardinality(account \ {r.job}) <= Cardinality(account)
        BY <1>s, FS_Subset DEF Typed
      <4>2. Cardinality(account \ {r.job}) \in Nat /\ Cardinality(account) \in Nat
        BY <1>s DEF Typed
      <4> QED BY <1>q, <2>3, <4>1, <4>2 DEF QuotaInv
    <3> QED BY <2>1, <2>3, <2>5, <2>7, <3>1, <3>2, <3>3 DEF QuotaInv
  <2> QED BY <2>4, <2>6, <2>7
<1> QED BY <1>1, <1>2, <1>3, <1>4, <1>5, <1>6, <1>7, StepKinds

\* The worker may still find the mark of the job: it has to recover, it is at it, or it has its result.
Follows(p, j) == \/ ~mailer[p].recovered
                 \/ mailer[p].pc \in {"submit", "answer"} /\ mailer[p].job = j
                 \/ mailer[p].pending.job = j

\* Every step leaves each mark with somebody.
LEMMA MarksStep == ASSUME Typed, WorkerInv, MarksAreFollowed, [MailNext]_mailVars PROVE MarksAreFollowed'
<1> USE DEF mailTables
<1>m. MarksAreFollowed <=> \A j \in Jobs : job[j] = "sending" => \E p \in deployed : Follows(p, j)
  BY DEF MarksAreFollowed, Follows
<1>d. deployed \subseteq Mailers /\ Absent \notin Jobs
  BY Deployment DEF Typed
<1>f. ASSUME site' = site,
             \A j \in Jobs : job'[j] = "sending" =>
                 \/ job[j] = "sending" /\ \A p \in Mailers : Follows(p, j) => Follows(p, j)'
                 \/ \E p \in deployed : Follows(p, j)'
      PROVE  MarksAreFollowed'
  <2>1. ASSUME NEW j \in Jobs, job'[j] = "sending" PROVE \E p \in deployed : Follows(p, j)'
    BY <1>d, <1>f, <1>m, <2>1
  <2>2. deployed' = deployed
    BY <1>f DEF deployed
  <2> QED BY <2>1, <2>2 DEF MarksAreFollowed, Follows
\* a step of p alone that loses no mark
<1>r. ASSUME NEW p \in Mailers, Rest(p), site' = site,
             \A j \in Jobs : job'[j] = "sending" => job[j] = "sending" /\ (Follows(p, j) => Follows(p, j)')
      PROVE  MarksAreFollowed'
  BY <1>f, <1>r DEF Rest, Follows
<1>1. CASE UNCHANGED mailVars
  BY <1>1, <1>f DEF mailVars, Follows
<1>2. CASE LeaseRunsOut \/ NextSendPasses \/ Log
  BY <1>2, <1>f, QuietSteps DEF Follows
<1>3. ASSUME NEW j \in Jobs, Enqueue(j) PROVE MarksAreFollowed'
  BY <1>3, <1>f, QuietSteps DEF Follows, Typed
<1>4. ASSUME NEW p \in Mailers, Leased(p) PROVE MarksAreFollowed'
  <2>1. ASSUME NEW q \in Mailers, NEW j \in Jobs, Follows(q, j) PROVE Follows(q, j)'
    <3>1. CASE q = p
      BY <1>4, <2>1, <3>1 DEF Leased, Follows
    <3>2. CASE q # p
      BY <1>4, <2>1, <3>2 DEF Leased, Follows
    <3> QED BY <3>1, <3>2
  <2>2. job' = job /\ site' = site
    BY <1>4 DEF Leased
  <2> QED BY <1>f, <2>1, <2>2
<1>5. ASSUME NEW p \in Mailers, Recovered(p) PROVE MarksAreFollowed'
  <2>1. \A j \in Jobs : job'[j] # "sending"
    BY <1>5 DEF Recovered
  <2> QED BY <2>1 DEF MarksAreFollowed
<1>6. ASSUME NEW p \in Mailers, NoticeSent(p) \/ Advanced(p) \/ \E j \in Jobs : Taken(p, j) PROVE MarksAreFollowed'
  <2>1. /\ Rest(p) /\ site' = site /\ mailer[p].pc \in {"notify", "advance"}
        /\ mailer'[p].pending = mailer[p].pending /\ mailer'[p].recovered = mailer[p].recovered
    BY <1>6 DEF NoticeSent, Advanced, Taken, Shifts
  <2>2. \A j \in Jobs : job'[j] = "sending" => job[j] = "sending"
    BY <1>6 DEF NoticeSent, Advanced, Taken
  <2> QED BY <1>r, <2>1, <2>2 DEF Follows
<1>7. ASSUME NEW p \in Mailers, Submitted(p) \/ TimedOut(p) PROVE MarksAreFollowed'
  <2>1. /\ Rest(p) /\ site' = site /\ job' = job /\ mailer'[p].pc \in {"submit", "answer"}
        /\ mailer'[p].job = mailer[p].job /\ mailer[p].pc = "submit"
        /\ mailer'[p].pending = mailer[p].pending /\ mailer'[p].recovered = mailer[p].recovered
    BY <1>7 DEF Submitted, TimedOut, Shifts
  <2> QED BY <1>r, <2>1 DEF Follows
<1>8. ASSUME NEW p \in Mailers, Refunded(p) PROVE MarksAreFollowed'
  <2>1. mailer[p].pending \in Results
    BY DEF Typed, MailerStates
  <2>2. mailer'[p].pending.job = mailer[p].pending.job
    BY <1>8, <2>1 DEF Refunded, Results
  <2>3. /\ Rest(p) /\ site' = site /\ job' = job /\ mailer[p].pc = "refund"
        /\ mailer'[p].recovered = mailer[p].recovered
    BY <1>8 DEF Refunded, Shifts
  <2> QED BY <1>r, <2>2, <2>3 DEF Follows
<1>9. ASSUME NEW p \in Mailers, Marked(p) PROVE MarksAreFollowed'
  <2>1. /\ Rest(p) /\ site' = site /\ mailer[p].pc = "process" /\ mailer'[p].pc = "submit"
        /\ mailer'[p].job = mailer[p].job /\ mailer'[p].pending = mailer[p].pending
        /\ mailer'[p].recovered = mailer[p].recovered
        /\ job' = [job EXCEPT ![mailer[p].job] = "sending"]
    BY <1>9 DEF Marked, Shifts
  <2>2. p \in deployed /\ \A j \in Jobs : j # mailer[p].job => job'[j] = job[j]
    BY <2>1 DEF WorkerInv, Typed
  <2>4. \A q \in Mailers, j \in Jobs : Follows(q, j) => Follows(q, j)'
    BY <2>1 DEF Rest, Follows
  <2>5. \A j \in Jobs : j = mailer[p].job => Follows(p, j)'
    BY <2>1 DEF Follows
  <2> QED BY <1>f, <2>1, <2>2, <2>4, <2>5
\* a job is written: the owner is done with it
<1>w. ASSUME NEW p \in Mailers, Rest(p), site' = site, NEW i \in Jobs, NEW s \in JobStates \ {"sending"},
             job' = [job EXCEPT ![i] = s], mailer'[p].recovered = mailer[p].recovered,
             \A j \in Jobs : Follows(p, j) => ~mailer[p].recovered \/ j = i
      PROVE  MarksAreFollowed'
  <2>1. \A j \in Jobs : job'[j] = IF j = i THEN s ELSE job[j]
    BY <1>w DEF Typed
  <2> QED BY <1>r, <1>w, <2>1 DEF Follows
<1>10. ASSUME NEW p \in Mailers, PutBack(p) PROVE MarksAreFollowed'
  <2>1. mailer[p].job \in Jobs /\ mailer[p].status \in JobStates \ {"sending"} /\ mailer[p].pending = NoResult
    BY <1>10 DEF PutBack, WorkerInv, JobStates, Open, Working
  <2>2. \A j \in Jobs : Follows(p, j) => ~mailer[p].recovered
    BY <1>d, <1>10, <2>1, NothingKept DEF PutBack, Follows
  <2> QED BY <1>10, <1>w, <2>1, <2>2 DEF PutBack
<1>11. ASSUME NEW p \in Mailers, Saved(p) PROVE MarksAreFollowed'
  <2>1. mailer[p].pending.job \in Jobs /\ mailer[p].pending.status \in JobStates \ {"sending"}
    BY <1>11 DEF Saved, WorkerInv, Typed, MailerStates, Results, JobStates, Open, Final
  <2>2. \A j \in Jobs : Follows(p, j) => ~mailer[p].recovered \/ j = mailer[p].pending.job
    BY <1>11 DEF Saved, Follows
  <2> QED BY <1>11, <1>w, <2>1, <2>2 DEF Saved
<1>12. ASSUME NEW p \in Mailers, Ended(p) PROVE MarksAreFollowed'
  <2>1. Rest(p) /\ site' = site /\ job' = job
    BY <1>12 DEF Ended
  <2>2. ASSUME NEW j \in Jobs, job[j] = "sending", Follows(p, j) PROVE Follows(p, j)'
    <3>1. CASE mailer'[p].recovered = FALSE
      BY <3>1 DEF Follows
    <3>2. CASE /\ mailer'[p].recovered = mailer[p].recovered /\ mailer[p].pc \notin {"submit", "answer"}
               /\ \/ mailer'[p].pending = mailer[p].pending \/ mailer[p].pending.status = "none"
                  \/ ~Accepts(mailer[p].pending.job)
      <4>1. CASE mailer'[p].pending = mailer[p].pending
        BY <2>2, <3>2, <4>1 DEF Follows
      <4>2. CASE mailer[p].pending.status = "none"
        <5>1. mailer[p].pending = NoResult /\ mailer'[p].pending = NoResult
          BY <1>12, <4>2 DEF Ended, WorkerInv
        <5> QED BY <2>2, <3>2, <5>1 DEF Follows
      <4>3. CASE ~Accepts(mailer[p].pending.job)
        <5>1. mailer[p].pending.job # j
          BY <2>2, <4>3 DEF Accepts, Open
        <5> QED BY <2>2, <3>2, <5>1 DEF Follows
      <4> QED BY <3>2, <4>1, <4>2, <4>3
    <3> QED BY <1>12, <3>1, <3>2 DEF Ended
  <2> QED BY <1>r, <2>1, <2>2
<1>13. ASSUME NEW p \in Mailers, Finished(p) PROVE MarksAreFollowed'
  <2>1. /\ Rest(p) /\ site' = site /\ job' = job /\ mailer'[p].pending.job = mailer[p].job
        /\ mailer'[p].recovered = mailer[p].recovered /\ mailer[p].pending.status = "none"
    BY <1>13 DEF Finished
  <2>2. mailer[p].pending.job = Absent
    BY <2>1, NothingKept DEF WorkerInv
  <2>3. \A j \in Jobs : Follows(p, j) => Follows(p, j)' \/ j = Absent
    BY <2>1, <2>2 DEF Follows
  <2> QED BY <1>r, <2>1, <2>3, <1>d DEF Follows
<1> QED BY <1>1, <1>2, <1>3, <1>4, <1>5, <1>6, <1>7, <1>8, <1>9, <1>10, <1>11, <1>12, <1>13, StepKinds

-----------------------------------------------------------------------------
(* The theorems                                                            *)

\* Everything that is kept together.
MailInv ==
    /\ Typed /\ WorkerInv /\ NotesInv
    /\ LeaseInv /\ ReadInv
    /\ PacedInv /\ SendInv /\ AloneInv
    /\ AttemptInv
    /\ UnsentInv /\ RecordInv
    /\ RefundInv /\ SavedInv /\ QuotaInv
    /\ MarksAreFollowed

\* It holds when the servers start for the first time.
LEMMA MailStarts == MailInit => MailInv
<1> SUFFICES ASSUME MailInit PROVE MailInv
  OBVIOUS
<1>d. /\ deployed \in SUBSET Mailers /\ site.quota \in Nat /\ site.entries \in Nat
      /\ Absent \notin Mailers /\ Absent \notin Jobs
  BY Deployment DEF MailInit
<1>1. /\ site \in Installations /\ job = [j \in Jobs |-> "none"] /\ lease = [owner |-> Absent, valid |-> FALSE]
      /\ nextSend = "past" /\ cursor = 0 /\ account = {} /\ logged = 0
      /\ mailer = [p \in Mailers |-> Fresh] /\ submitted = [j \in Jobs |-> 0] /\ billed = {} /\ late = FALSE
  BY DEF MailInit
<1>2. \A p \in Mailers : /\ mailer[p].pc = "idle" /\ mailer[p].pending = NoResult /\ mailer[p].cursor = 0
                         /\ ~mailer[p].lost
  BY <1>1, NothingKept
<1>3. \A j \in Jobs : job[j] = "none" /\ submitted[j] = 0
  BY <1>1
<1>4. Typed
  <2>1. mailer \in [Mailers -> MailerStates]
    BY <1>1, NothingKept
  <2>2. job \in [Jobs -> JobStates] /\ submitted \in [Jobs -> Nat]
    BY <1>1 DEF JobStates
  <2>3. lease \in [owner : deployed \cup {Absent}, valid : BOOLEAN]
    BY <1>1
  <2>4. cursor \in Nat /\ logged \in Nat /\ cursor <= logged /\ logged <= site.entries
    BY <1>1, <1>d
  <2>5. account \in SUBSET Jobs /\ billed \in SUBSET Jobs /\ late \in BOOLEAN
    BY <1>1
  <2>6. site \in Installations /\ nextSend \in {"past", "delay"} \cup deployed
    BY <1>1
  <2> QED BY <2>1, <2>2, <2>3, <2>4, <2>5, <2>6 DEF Typed
<1>5. WorkerInv
  BY <1>2, NothingKept DEF WorkerInv, Working
<1>6. NotesInv
  BY <1>1, <1>2 DEF NotesInv, NotificationsQueued
<1>7. LeaseInv /\ ReadInv /\ PacedInv /\ SendInv /\ AloneInv
  BY <1>2, NothingKept DEF LeaseInv, Busy, ReadInv, PacedInv, Before, SendInv, Live, AloneInv, Alone
<1>8. AttemptInv
  BY <1>1, <1>2, <1>3, NothingKept DEF AttemptInv, HistoryInv, SayInv, HandsInv, Attempts
<1>9. UnsentInv /\ RecordInv /\ RefundInv /\ SavedInv
  BY <1>2, <1>3, NothingKept DEF UnsentInv, RecordInv, RefundInv, SavedInv
<1>10. QuotaInv
  BY <1>1, <1>2, <1>d, FS_EmptySet DEF QuotaInv
<1>11. MarksAreFollowed
  BY <1>3 DEF MarksAreFollowed
<1> QED BY <1>4, <1>5, <1>6, <1>7, <1>8, <1>9, <1>10, <1>11 DEF MailInv

\* Every step keeps it.
LEMMA MailSteps == MailInv /\ [MailNext]_mailVars => MailInv'
BY TypedStep, WorkerStep, NotesStep, LeaseStep, ReadStep, PacedStep, SendStep, AloneStep, AttemptStep,
   UnsentStep, RecordStep, RefundStep, SavedStep, QuotaStep, MarksStep
   DEF MailInv

\* It holds in every state.
LEMMA MailAlways == MailSpec => []MailInv
BY MailStarts, MailSteps, PTL DEF MailSpec

\* No message reaches the provider twice, however many processes there are and wherever they
\* stop, die or lose the lease: a mark is written before a message is sent, a marked job is
\* never queued again, and the attempt at it stays in the hands of one worker.
THEOREM OnceSubmitted == MailSpec => []SubmittedOnce
<1>1. MailInv => SubmittedOnce
  BY DEF MailInv, AttemptInv, HistoryInv, SubmittedOnce
<1> QED BY <1>1, MailAlways, PTL

\* The tables, the workers and the account stay consistent: the provider is asked by one
\* worker at a time, what it charges is counted within the quota, a message that was sent is
\* not recorded as unsent, entries the cursor has passed have their jobs, and no mark of an
\* attempt is forgotten.
THEOREM MailStaysConsistent == MailSpec => []MailConsistent
<1>1. MailInv => MailTypeOK
  <2> SUFFICES ASSUME Typed PROVE MailTypeOK
    BY DEF MailInv
  <2>1. site.entries \in Nat
    BY Deployment DEF Typed
  <2>2. \A p \in Mailers : mailer[p].pc \in Pcs
    BY DEF Typed, MailerStates
  <2>3. lease.owner \in deployed \cup {Absent} /\ lease.valid \in BOOLEAN
    BY DEF Typed
  <2>4. \A j \in Jobs : job[j] \in {"none"} \cup Open \cup Final
    BY DEF Typed, JobStates
  <2>5. cursor \in 0..logged /\ logged \in 0..site.entries
    BY <2>1 DEF Typed
  <2> QED BY <2>2, <2>3, <2>4, <2>5 DEF Typed, MailTypeOK, Pcs
<1>2. MailInv => OneSubmission
  BY DEF MailInv, SendInv, Live, OneSubmission
<1>3. MailInv => QuotaCounted
  BY DEF MailInv, QuotaInv, QuotaCounted
<1>4. MailInv => RecordTrue
  BY DEF MailInv, AttemptInv, HistoryInv, RecordInv, RecordTrue
<1>5. MailInv => NotificationsQueued /\ MarksAreFollowed
  BY DEF MailInv, NotesInv
<1>6. MailInv => MailConsistent
  BY <1>1, <1>2, <1>3, <1>4, <1>5 DEF MailConsistent
<1> QED BY <1>6, MailAlways, PTL
=============================================================================
