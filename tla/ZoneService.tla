---------------------------- MODULE ZoneService ----------------------------
(***************************************************************************)
(* The doorway to the shooter arena (zone.service.ts).  A client walking   *)
(* on the map reports its position; whoever is reported inside the zone    *)
(* for zoneEntryMs, without a report from outside and without falling      *)
(* silent, is invited by `shooterJoined' and is then ignored until the     *)
(* arena lets go of the user or a timer of 30 s fires.                     *)
(*                                                                         *)
(* Positions are abstracted to inside or outside.  Time is discrete:       *)
(* Elapse advances every clock, and waits for callbacks that are due, as   *)
(* a timer fires before time goes on.                                      *)
(***************************************************************************)
EXTENDS JsMap, FiniteSets

CONSTANTS
  Users,       \* user ids
  MaxPlayers,  \* MAX_PLAYERS
  Dwell,       \* zoneEntryMs in units of Elapse
  Stale,       \* STALE_MS
  Rearm        \* the 30 s after which a user may be invited again

ASSUME ZoneAssumption ==
  MaxPlayers \in Nat \ {0} /\ Dwell \in Nat \ {0} /\ Stale \in Nat /\ Rearm \in Nat \ {0}

VARIABLES
  zoneState,      \* status and activePlayers, as shown on the map
  entryTracking,  \* user -> time since firstSeenAt and since lastSeenAt
  triggered,      \* users already invited
  rearm,          \* user -> time left on each of the user's pending 30 s timers
  sinceOut        \* history: time since the user was last reported outside

zoneVars == <<zoneState, entryTracking, triggered, rearm, sinceOut>>

Available == zoneState.status = "available"
Tracked == DOMAIN entryTracking
-----------------------------------------------------------------------------
(* handleCheckShooterZone.  A report of a user who has been invited, and a *)
(* report from inside a locked zone (answered by zoneBlocked) change       *)
(* nothing.                                                                *)

(* Mutant: Map.delete is forgotten. *)
KeepEntry(u) == entryTracking

ForgetEntry(u) == Without(entryTracking, u)

ReportOutside(u) ==
  /\ entryTracking' = IF u \in triggered THEN entryTracking ELSE ForgetEntry(u)
  /\ sinceOut' = [sinceOut EXCEPT ![u] = 0]
  /\ UNCHANGED <<zoneState, triggered, rearm>>

StepIn(u) ==
  /\ u \notin triggered /\ Available /\ u \notin Tracked
  /\ entryTracking' = With(entryTracking, u, [age |-> 0, idle |-> 0])
  /\ UNCHANGED <<zoneState, triggered, rearm, sinceOut>>

(* Mutant: lastSeenAt is refreshed before the lock is looked at. *)
SeenInLockedZone(u) == u \in Tracked /\ (entryTracking[u].age < Dwell \/ ~Available)

StillWaiting(u) == u \in Tracked /\ entryTracking[u].age < Dwell /\ Available

Stay(u) ==
  /\ u \notin triggered /\ StillWaiting(u)
  /\ entryTracking' = [entryTracking EXCEPT ![u].idle = 0]
  /\ UNCHANGED <<zoneState, triggered, rearm, sinceOut>>

(* Mutant: the flag is raised without its timer. *)
NoTimer(u) == rearm

StartTimer(u) == [rearm EXCEPT ![u] = @ \cup {Rearm}]

(* The user has stayed long enough: shooterJoined is emitted.              *)
Trigger(u) ==
  /\ u \notin triggered /\ Available
  /\ u \in Tracked /\ entryTracking[u].age >= Dwell
  /\ entryTracking' = ForgetEntry(u)
  /\ triggered' = triggered \cup {u}
  /\ rearm' = StartTimer(u)
  /\ UNCHANGED <<zoneState, sinceOut>>

CheckShooterZone(u) == ReportOutside(u) \/ StepIn(u) \/ Stay(u) \/ Trigger(u)

ClearTriggered(u) ==
  /\ triggered' = triggered \ {u}
  /\ entryTracking' = ForgetEntry(u)
-----------------------------------------------------------------------------
(* The lock, as the arena gateway drives it.                               *)

LockZone(n) == zoneState' = [status |-> "locked", activePlayers |-> n]

UnlockZone(n) ==
  zoneState' = [status |-> IF n >= MaxPlayers THEN "locked" ELSE "available",
                activePlayers |-> n]
-----------------------------------------------------------------------------
(* Timers and time.                                                        *)

(* Mutant: the poll lets an entry live one period longer. *)
VeryStaleEntries == {u \in Tracked : entryTracking[u].idle > Stale + 1}

StaleEntries == {u \in Tracked : entryTracking[u].idle > Stale}

(* The poll that forgets those who stopped reporting.                      *)
ExpireStaleEntries ==
  /\ StaleEntries # {}
  /\ entryTracking' = Restrict(entryTracking, Tracked \ StaleEntries)
  /\ UNCHANGED <<zoneState, triggered, rearm, sinceOut>>

(* The timer set by some earlier Trigger of u, not necessarily the last.   *)
RearmFires(u) ==
  /\ 0 \in rearm[u]
  /\ rearm' = [rearm EXCEPT ![u] = @ \ {0}]
  /\ triggered' = triggered \ {u}
  /\ UNCHANGED <<zoneState, entryTracking, sinceOut>>

ZoneElapse ==
  /\ StaleEntries = {}
  /\ \A u \in Users : 0 \notin rearm[u]
  /\ entryTracking' = [u \in Tracked |-> [age |-> Least(Dwell, entryTracking[u].age + 1),
                                          idle |-> entryTracking[u].idle + 1]]
  /\ rearm' = [u \in Users |-> {t - 1 : t \in rearm[u]}]
  /\ sinceOut' = [u \in Users |-> Least(Dwell, sinceOut[u] + 1)]
  /\ UNCHANGED <<zoneState, triggered>>
-----------------------------------------------------------------------------
ZoneInit ==
  /\ zoneState = [status |-> "available", activePlayers |-> 0]
  /\ entryTracking = <<>> /\ triggered = {}
  /\ rearm = [u \in Users |-> {}]
  /\ sinceOut = [u \in Users |-> 0]

(* What the two gateways call, here in any order.                          *)
ZoneCalls ==
  \/ \E u \in Users :
       \/ CheckShooterZone(u)
       \/ ClearTriggered(u) /\ UNCHANGED <<zoneState, rearm, sinceOut>>
  \/ \E n \in 0..MaxPlayers :
       /\ UnlockZone(n) \/ (n >= MaxPlayers /\ LockZone(n))
       /\ UNCHANGED <<entryTracking, triggered, rearm, sinceOut>>

ZoneTimers == ExpireStaleEntries \/ (\E u \in Users : RearmFires(u)) \/ ZoneElapse

ZoneNext == ZoneCalls \/ ZoneTimers

(* The poll is an interval and the 30 s are a timeout: both fire, and time *)
(* goes on.  Nobody has to report a position.                              *)
ZoneSpec ==
  /\ ZoneInit /\ [][ZoneNext]_zoneVars
  /\ WF_zoneVars(ExpireStaleEntries) /\ WF_zoneVars(ZoneElapse)
  /\ \A u \in Users : WF_zoneVars(RearmFires(u))
-----------------------------------------------------------------------------
(* Properties.                                                             *)

ZoneTypeOK ==
  /\ zoneState \in [status: {"available", "locked"}, activePlayers: 0..MaxPlayers]
  /\ Tracked \subseteq Users
  /\ entryTracking \in [Tracked -> [age: 0..Dwell, idle: 0..(Stale + 1)]]
  /\ triggered \subseteq Users
  /\ rearm \in [Users -> SUBSET (0..Rearm)]
  /\ sinceOut \in [Users -> 0..Dwell]

(* A user who is ignored has a timer that will end it, and is not being    *)
(* tracked for a second invitation meanwhile.                              *)
FlagHasTimer ==
  \A u \in triggered : rearm[u] # {} /\ u \notin Tracked

(* The lock and the advertised count never disagree.                       *)
LockMatchesCount ==
  (zoneState.status = "locked") = (zoneState.activePlayers >= MaxPlayers)

(* The dwell time counted for a user never includes a moment at which the  *)
(* user was reported outside, however reports, locks, expiries, releases   *)
(* and timers interleave: nobody is invited for walking past.              *)
DwellIsContinuous ==
  \A u \in Tracked : entryTracking[u].age <= sinceOut[u]

ZoneInv == ZoneTypeOK /\ FlagHasTimer /\ LockMatchesCount /\ DwellIsContinuous

(* Nobody is ignored for ever.                                             *)
TriggeredClears == \A u \in Users : u \in triggered ~> u \notin triggered

(* Tracking ends, by an invitation or by forgetting the user, also when    *)
(* the zone is locked and the user keeps reporting from inside.            *)
EntryResolves == \A u \in Users : u \in Tracked ~> u \notin Tracked
=============================================================================
