-------------------------- MODULE ZoneServiceProofs --------------------------
(***************************************************************************)
(* Proofs about ZoneService: ZoneInv is inductive for any set of users and *)
(* any dwell, silence and rearming times.  DwellIsContinuous needs         *)
(* FlagHasTimer: a report from outside is ignored while the flag is up,    *)
(* which is harmless because such a user is not being tracked.             *)
(***************************************************************************)
EXTENDS ZoneService, TLAPS
-----------------------------------------------------------------------------
(* What ZoneTypeOK says of one tracked user.                               *)
LEMMA EntryType ==
  ASSUME ZoneTypeOK, NEW u \in Tracked
  PROVE  /\ u \in Users
         /\ entryTracking[u] \in [age: 0..Dwell, idle: 0..(Stale + 1)]
         /\ entryTracking[u].age \in 0..Dwell /\ entryTracking[u].idle \in 0..(Stale + 1)
  BY DEF ZoneTypeOK

(* Forgetting users only takes entries away.                               *)
LEMMA RestrictEntries ==
  ASSUME ZoneInv, NEW S \in SUBSET Tracked, entryTracking' = Restrict(entryTracking, S),
         sinceOut' \in [Users -> 0..Dwell], \A u \in S : sinceOut'[u] = sinceOut[u]
  PROVE  /\ Tracked' = S
         /\ entryTracking' \in [Tracked' -> [age: 0..Dwell, idle: 0..(Stale + 1)]]
         /\ DwellIsContinuous'
  <1>1. Tracked' = S /\ \A u \in S : entryTracking'[u] = entryTracking[u]
    BY DEF Restrict, Tracked
  <1>2. entryTracking' \in [Tracked' -> [age: 0..Dwell, idle: 0..(Stale + 1)]]
    <2>1. \A u \in S : entryTracking[u] \in [age: 0..Dwell, idle: 0..(Stale + 1)]
      BY EntryType DEF ZoneInv
    <2> QED
      BY <1>1, <2>1 DEF Restrict
  <1>3. DwellIsContinuous'
    BY <1>1 DEF ZoneInv, DwellIsContinuous
  <1> QED
    BY <1>1, <1>2, <1>3

(* Forgetting a user keeps the tracking of the others.                     *)
LEMMA ForgetInv ==
  ASSUME ZoneInv, NEW u \in Users, entryTracking' = ForgetEntry(u),
         sinceOut' \in [Users -> 0..Dwell], \A v \in Users \ {u} : sinceOut'[v] = sinceOut[v]
  PROVE  /\ Tracked' = Tracked \ {u}
         /\ entryTracking' \in [Tracked' -> [age: 0..Dwell, idle: 0..(Stale + 1)]]
         /\ DwellIsContinuous'
  <1> DEFINE S == Tracked \ {u}
  <1>1. entryTracking' = Restrict(entryTracking, S) /\ S \in SUBSET Tracked
    BY DEF ForgetEntry, Without, Tracked
  <1>2. S \subseteq Users \ {u}
    BY DEF ZoneInv, ZoneTypeOK
  <1> QED
    BY <1>1, <1>2, RestrictEntries
-----------------------------------------------------------------------------
(* The invariant holds at the start.                                       *)
LEMMA ZoneInitInv ==
  ASSUME ZoneInit
  PROVE  ZoneInv
  <1>1. Tracked = {}
    BY DEF ZoneInit, Tracked
  <1> QED
    BY <1>1, ZoneAssumption
    DEF ZoneInit, ZoneInv, ZoneTypeOK, FlagHasTimer, LockMatchesCount, DwellIsContinuous,
        ZoneAssumption, Tracked

(* ReportOutside preserves the invariant.                                  *)
LEMMA ReportOutsideInv ==
  ASSUME ZoneInv, NEW u \in Users, ReportOutside(u)
  PROVE  ZoneInv'
  <1>0. ZoneTypeOK /\ FlagHasTimer /\ LockMatchesCount /\ DwellIsContinuous
    BY DEF ZoneInv
  <1>1. sinceOut' \in [Users -> 0..Dwell] /\ \A v \in Users \ {u} : sinceOut'[v] = sinceOut[v]
    BY <1>0, ZoneAssumption DEF ReportOutside, ZoneTypeOK, ZoneAssumption
  <1>2. /\ Tracked' \subseteq Tracked \ {u}
        /\ entryTracking' \in [Tracked' -> [age: 0..Dwell, idle: 0..(Stale + 1)]]
        /\ DwellIsContinuous'
    <2>1. CASE u \in triggered
      <3>1. u \notin Tracked
        BY <1>0, <2>1 DEF FlagHasTimer
      <3>2. entryTracking' = entryTracking
        BY <2>1 DEF ReportOutside
      <3> QED
        BY <1>0, <1>1, <3>1, <3>2 DEF ZoneTypeOK, DwellIsContinuous, Tracked
    <2>2. CASE u \notin triggered
      BY <1>1, <2>2, ForgetInv DEF ReportOutside
    <2> QED
      BY <2>1, <2>2
  <1>3. ZoneTypeOK' /\ FlagHasTimer' /\ LockMatchesCount'
    BY <1>0, <1>1, <1>2 DEF ReportOutside, ZoneTypeOK, FlagHasTimer, LockMatchesCount
  <1> QED
    BY <1>2, <1>3 DEF ZoneInv

(* StepIn preserves the invariant.                                         *)
LEMMA StepInInv ==
  ASSUME ZoneInv, NEW u \in Users, StepIn(u)
  PROVE  ZoneInv'
  <1>0. ZoneTypeOK /\ FlagHasTimer /\ LockMatchesCount /\ DwellIsContinuous
    BY DEF ZoneInv
  <1>1. /\ Tracked' = Tracked \cup {u}
        /\ \A v \in Tracked' : entryTracking'[v] = IF v = u THEN [age |-> 0, idle |-> 0]
                                                            ELSE entryTracking[v]
        /\ entryTracking' = [v \in Tracked' |-> entryTracking'[v]]
    BY DEF StepIn, With, Tracked
  <1>2. [age |-> 0, idle |-> 0] \in [age: 0..Dwell, idle: 0..(Stale + 1)]
    BY ZoneAssumption DEF ZoneAssumption
  <1>3. entryTracking' \in [Tracked' -> [age: 0..Dwell, idle: 0..(Stale + 1)]]
    BY <1>0, <1>1, <1>2, EntryType
  <1>4. DwellIsContinuous'
    BY <1>0, <1>1 DEF StepIn, DwellIsContinuous, ZoneTypeOK
  <1>5. ZoneTypeOK' /\ FlagHasTimer' /\ LockMatchesCount'
    BY <1>0, <1>1, <1>3 DEF StepIn, ZoneTypeOK, FlagHasTimer, LockMatchesCount
  <1> QED
    BY <1>4, <1>5 DEF ZoneInv

(* Stay preserves the invariant.                                           *)
LEMMA StayInv ==
  ASSUME ZoneInv, NEW u \in Users, Stay(u)
  PROVE  ZoneInv'
  <1>0. ZoneTypeOK /\ FlagHasTimer /\ LockMatchesCount /\ DwellIsContinuous
    BY DEF ZoneInv
  <1> DEFINE seen == [entryTracking[u] EXCEPT !.idle = 0]
  <1>1. u \in Tracked /\ entryTracking' = [entryTracking EXCEPT ![u] = seen]
    BY DEF Stay, StillWaiting
  <1>2. /\ seen \in [age: 0..Dwell, idle: 0..(Stale + 1)]
        /\ seen.age = entryTracking[u].age
    BY <1>0, <1>1, EntryType, ZoneAssumption DEF ZoneAssumption
  <1> HIDE DEF seen
  <1>3. /\ Tracked' = Tracked
        /\ entryTracking' \in [Tracked' -> [age: 0..Dwell, idle: 0..(Stale + 1)]]
        /\ \A v \in Tracked : entryTracking'[v].age = entryTracking[v].age
    BY <1>0, <1>1, <1>2 DEF ZoneTypeOK, Tracked
  <1> QED
    BY <1>0, <1>3
    DEF Stay, ZoneInv, ZoneTypeOK, FlagHasTimer, LockMatchesCount, DwellIsContinuous

(* Trigger preserves the invariant.                                        *)
LEMMA TriggerInv ==
  ASSUME ZoneInv, NEW u \in Users, Trigger(u)
  PROVE  ZoneInv'
  <1>0. ZoneTypeOK /\ FlagHasTimer /\ LockMatchesCount /\ DwellIsContinuous
    BY DEF ZoneInv
  <1>1. /\ Tracked' = Tracked \ {u}
        /\ entryTracking' \in [Tracked' -> [age: 0..Dwell, idle: 0..(Stale + 1)]]
        /\ DwellIsContinuous'
    BY <1>0, ForgetInv DEF Trigger, ZoneTypeOK
  <1>2. /\ rearm' \in [Users -> SUBSET (0..Rearm)]
        /\ rearm'[u] # {} /\ \A v \in Users : rearm[v] \subseteq rearm'[v]
    <2>1. rearm' = [rearm EXCEPT ![u] = rearm[u] \cup {Rearm}]
      BY DEF Trigger, StartTimer
    <2>2. Rearm \in 0..Rearm
      BY ZoneAssumption DEF ZoneAssumption
    <2> QED
      BY <1>0, <2>1, <2>2 DEF ZoneTypeOK
  <1>3. ZoneTypeOK' /\ LockMatchesCount'
    BY <1>0, <1>1, <1>2 DEF Trigger, ZoneTypeOK, LockMatchesCount
  <1>4. FlagHasTimer'
    BY <1>0, <1>1, <1>2 DEF Trigger, FlagHasTimer, ZoneTypeOK
  <1> QED
    BY <1>1, <1>3, <1>4 DEF ZoneInv

(* ClearTriggered preserves the invariant, alone and together with the     *)
(* unlocking that a goodbye brings along.                                  *)
LEMMA ClearTriggeredInv ==
  ASSUME ZoneInv, NEW u \in Users, ClearTriggered(u), UNCHANGED <<rearm, sinceOut>>,
         UNCHANGED zoneState \/ \E n \in 0..MaxPlayers : UnlockZone(n)
  PROVE  ZoneInv'
  <1>0. ZoneTypeOK /\ FlagHasTimer /\ LockMatchesCount /\ DwellIsContinuous
    BY DEF ZoneInv
  <1>1. /\ Tracked' = Tracked \ {u}
        /\ entryTracking' \in [Tracked' -> [age: 0..Dwell, idle: 0..(Stale + 1)]]
        /\ DwellIsContinuous'
    BY <1>0, ForgetInv DEF ClearTriggered, ZoneTypeOK
  <1>2. /\ zoneState' \in [status: {"available", "locked"}, activePlayers: 0..MaxPlayers]
        /\ LockMatchesCount'
    BY <1>0 DEF UnlockZone, ZoneTypeOK, LockMatchesCount
  <1> QED
    BY <1>0, <1>1, <1>2 DEF ClearTriggered, ZoneInv, ZoneTypeOK, FlagHasTimer
-----------------------------------------------------------------------------
(* Locking and unlocking preserve the invariant.                           *)
LEMMA LockInv ==
  ASSUME ZoneInv, NEW n \in 0..MaxPlayers, UnlockZone(n) \/ (n >= MaxPlayers /\ LockZone(n)),
         UNCHANGED <<entryTracking, triggered, rearm, sinceOut>>
  PROVE  ZoneInv'
  <1>0. ZoneTypeOK /\ FlagHasTimer /\ LockMatchesCount /\ DwellIsContinuous
    BY DEF ZoneInv
  <1>1. zoneState' = [status |-> IF n >= MaxPlayers THEN "locked" ELSE "available",
                      activePlayers |-> n]
    BY DEF UnlockZone, LockZone
  <1>2. /\ LockMatchesCount'
        /\ zoneState' \in [status: {"available", "locked"}, activePlayers: 0..MaxPlayers]
    BY <1>1 DEF LockMatchesCount
  <1>3. ZoneTypeOK' /\ FlagHasTimer' /\ DwellIsContinuous'
    BY <1>0, <1>2 DEF ZoneTypeOK, FlagHasTimer, DwellIsContinuous, Tracked
  <1> QED
    BY <1>2, <1>3 DEF ZoneInv

(* The poll preserves the invariant.                                       *)
LEMMA ExpireInv ==
  ASSUME ZoneInv, ExpireStaleEntries
  PROVE  ZoneInv'
  <1>0. ZoneTypeOK /\ FlagHasTimer /\ LockMatchesCount /\ DwellIsContinuous
    BY DEF ZoneInv
  <1>1. /\ Tracked' = Tracked \ StaleEntries
        /\ entryTracking' \in [Tracked' -> [age: 0..Dwell, idle: 0..(Stale + 1)]]
        /\ DwellIsContinuous'
    <2> DEFINE S == Tracked \ StaleEntries
    <2>1. /\ S \in SUBSET Tracked /\ entryTracking' = Restrict(entryTracking, S)
          /\ sinceOut' = sinceOut
      BY DEF ExpireStaleEntries
    <2>2. sinceOut' \in [Users -> 0..Dwell]
      BY <1>0, <2>1 DEF ZoneTypeOK
    <2> HIDE DEF S
    <2>3. /\ Tracked' = S /\ DwellIsContinuous'
          /\ entryTracking' \in [Tracked' -> [age: 0..Dwell, idle: 0..(Stale + 1)]]
      BY <2>1, <2>2, RestrictEntries
    <2> QED
      BY <2>3 DEF S
  <1> QED
    BY <1>0, <1>1 DEF ExpireStaleEntries, ZoneInv, ZoneTypeOK, FlagHasTimer, LockMatchesCount

(* RearmFires preserves the invariant.                                     *)
LEMMA RearmFiresInv ==
  ASSUME ZoneInv, NEW u \in Users, RearmFires(u)
  PROVE  ZoneInv'
  <1>0. ZoneTypeOK /\ FlagHasTimer /\ LockMatchesCount /\ DwellIsContinuous
    BY DEF ZoneInv
  <1>1. /\ rearm' = [rearm EXCEPT ![u] = rearm[u] \ {0}]
        /\ rearm' \in [Users -> SUBSET (0..Rearm)]
    BY <1>0 DEF RearmFires, ZoneTypeOK
  <1>2. FlagHasTimer'
    BY <1>0, <1>1 DEF RearmFires, FlagHasTimer, ZoneTypeOK, Tracked
  <1> QED
    BY <1>0, <1>1, <1>2
    DEF RearmFires, ZoneInv, ZoneTypeOK, LockMatchesCount, DwellIsContinuous, Tracked

(* Time passes only when nobody is overdue and no timer is due, which keeps *)
(* idle below its bound and every countdown above zero.                    *)
LEMMA ZoneElapseInv ==
  ASSUME ZoneInv, ZoneElapse
  PROVE  ZoneInv'
  <1>0. ZoneTypeOK /\ FlagHasTimer /\ LockMatchesCount /\ DwellIsContinuous
    BY DEF ZoneInv
  <1>1. /\ Tracked' = Tracked
        /\ \A u \in Tracked :
             entryTracking'[u] = [age |-> Least(Dwell, entryTracking[u].age + 1),
                                  idle |-> entryTracking[u].idle + 1]
        /\ entryTracking' = [u \in Tracked |-> entryTracking'[u]]
    BY DEF ZoneElapse, Tracked
  <1>2. \A u \in Tracked : /\ entryTracking[u].age \in 0..Dwell
                           /\ entryTracking[u].idle \in 0..Stale
    <2> SUFFICES ASSUME NEW u \in Tracked
                 PROVE  entryTracking[u].age \in 0..Dwell /\ entryTracking[u].idle \in 0..Stale
      OBVIOUS
    <2>1. ~(entryTracking[u].idle > Stale)
      BY DEF ZoneElapse, StaleEntries
    <2>2. entryTracking[u].age \in 0..Dwell /\ entryTracking[u].idle \in 0..(Stale + 1)
      BY <1>0, EntryType
    <2> QED
      BY <2>1, <2>2, ZoneAssumption DEF ZoneAssumption
  <1>3. \A u \in Tracked : entryTracking'[u] \in [age: 0..Dwell, idle: 0..(Stale + 1)]
    BY <1>1, <1>2, ZoneAssumption DEF ZoneAssumption, Least
  <1>4. /\ sinceOut' \in [Users -> 0..Dwell]
        /\ \A u \in Users : sinceOut[u] \in 0..Dwell /\ sinceOut'[u] = Least(Dwell, sinceOut[u] + 1)
    BY <1>0, ZoneAssumption DEF ZoneElapse, ZoneTypeOK, ZoneAssumption, Least
  <1>5. DwellIsContinuous'
    <2> SUFFICES ASSUME NEW u \in Tracked PROVE entryTracking'[u].age <= sinceOut'[u]
      BY <1>1 DEF DwellIsContinuous
    <2>1. entryTracking[u].age <= sinceOut[u] /\ u \in Users
      BY <1>0 DEF DwellIsContinuous, ZoneTypeOK
    <2>2. entryTracking'[u].age = Least(Dwell, entryTracking[u].age + 1)
      BY <1>1
    <2> QED
      BY <1>2, <1>4, <2>1, <2>2, ZoneAssumption DEF ZoneAssumption, Least
  <1>6. /\ rearm' \in [Users -> SUBSET (0..Rearm)]
        /\ \A u \in Users : rearm[u] # {} => rearm'[u] # {}
    <2>1. rearm' = [u \in Users |-> {t - 1 : t \in rearm[u]}]
      BY DEF ZoneElapse
    <2>2. ASSUME NEW u \in Users
          PROVE  {t - 1 : t \in rearm[u]} \subseteq 0..Rearm
      <3>1. rearm[u] \subseteq 0..Rearm /\ 0 \notin rearm[u]
        BY <1>0 DEF ZoneElapse, ZoneTypeOK
      <3> QED
        BY <3>1, ZoneAssumption DEF ZoneAssumption
    <2> QED
      BY <2>1, <2>2
  <1>7. ZoneTypeOK'
    BY <1>0, <1>1, <1>3, <1>4, <1>6 DEF ZoneElapse, ZoneTypeOK
  <1>8. FlagHasTimer' /\ LockMatchesCount'
    BY <1>0, <1>1, <1>6 DEF ZoneElapse, FlagHasTimer, LockMatchesCount, ZoneTypeOK
  <1> QED
    BY <1>5, <1>7, <1>8 DEF ZoneInv
-----------------------------------------------------------------------------
(* Every step preserves the invariant.                                     *)
LEMMA ZoneNextInv ==
  ASSUME ZoneInv, [ZoneNext]_zoneVars
  PROVE  ZoneInv'
  <1>1. CASE ZoneCalls
    BY <1>1, ReportOutsideInv, StepInInv, StayInv, TriggerInv, ClearTriggeredInv, LockInv
    DEF ZoneCalls, CheckShooterZone
  <1>2. CASE ZoneTimers
    BY <1>2, ExpireInv, RearmFiresInv, ZoneElapseInv DEF ZoneTimers
  <1>3. CASE UNCHANGED zoneVars
    BY <1>3 DEF ZoneInv, ZoneTypeOK, FlagHasTimer, LockMatchesCount, DwellIsContinuous, Tracked,
                zoneVars
  <1> QED
    BY <1>1, <1>2, <1>3 DEF ZoneNext

(* The inductive invariant of the doorway.                                 *)
THEOREM ZoneInvariant == ZoneSpec => []ZoneInv
  <1>1. ZoneInv /\ [ZoneNext]_zoneVars => ZoneInv'
    BY ZoneNextInv
  <1> QED
    BY ZoneInitInv, <1>1, PTL DEF ZoneSpec

(* Nobody is invited for walking past.                                     *)
THEOREM DwellIsContinuousAlways == ZoneSpec => []DwellIsContinuous
  <1>1. ZoneInv => DwellIsContinuous
    BY DEF ZoneInv
  <1> QED
    BY ZoneInvariant, <1>1, PTL

(* Every raised flag has a pending timer.                                  *)
THEOREM FlagHasTimerAlways == ZoneSpec => []FlagHasTimer
  <1>1. ZoneInv => FlagHasTimer
    BY DEF ZoneInv
  <1> QED
    BY ZoneInvariant, <1>1, PTL

(* The lock and the advertised number agree.                               *)
THEOREM LockMatchesCountAlways == ZoneSpec => []LockMatchesCount
  <1>1. ZoneInv => LockMatchesCount
    BY DEF ZoneInv
  <1> QED
    BY ZoneInvariant, <1>1, PTL

(* Type correctness of the doorway.                                        *)
THEOREM ZoneTypeCorrect == ZoneSpec => []ZoneTypeOK
  <1>1. ZoneInv => ZoneTypeOK
    BY DEF ZoneInv
  <1> QED
    BY ZoneInvariant, <1>1, PTL
=============================================================================
