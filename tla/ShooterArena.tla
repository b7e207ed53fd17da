---------------------------- MODULE ShooterArena ----------------------------
(***************************************************************************)
(* The shooter arena as its users meet it: the gateway of the namespace    *)
(* /shooter-arena (shooter.gateway.ts) with its sockets, the engine it     *)
(* drives, the doorway (ZoneService) it locks and unlocks, and the two     *)
(* handlers of the map's gateway that reach the doorway.                   *)
(*                                                                         *)
(* A handler runs on the event loop until it returns: what it awaits here  *)
(* (a promise that is resolved already, the local leave of a room) is      *)
(* continued before the next event or timer, so it is one action.  Only a  *)
(* tick takes several steps; Idle keeps the others out meanwhile.          *)
(*                                                                         *)
(* The clocks of the engine and those of the doorway advance separately,   *)
(* which allows more interleavings than the one clock of the process.      *)
(***************************************************************************)
EXTENDS ShooterEngine

CONSTANTS
  MaxPlayers, Dwell, Stale, Rearm,  \* as in ZoneService
  Owner                             \* [Sockets -> Users], from the socket's token

ASSUME GatewayAssumption ==
  /\ Owner \in [Sockets -> Users]
  /\ MaxPlayers \in Nat \ {0} /\ Dwell \in Nat \ {0} /\ Stale \in Nat /\ Rearm \in Nat \ {0}

VARIABLES
  connected,     \* the open sockets of the namespace
  socketToUser,  \* socketToUser: sockets that have joined
  zoneState, entryTracking, triggered, rearm, sinceOut  \* of the doorway

Zone == INSTANCE ZoneService

socketVars == <<connected, socketToUser>>
zoneVars == <<zoneState, entryTracking, triggered, rearm, sinceOut>>
arenaVars == <<engineVars, socketVars, zoneVars>>
-----------------------------------------------------------------------------
(* Mutant: the number is read before the room has changed. *)
CountBefore == Cardinality(DOMAIN players)

(* engine.getActivePlayers() after the engine's call. *)
CountAfter == Cardinality(DOMAIN players')

RoomHasSpace == Cardinality(DOMAIN players) < MaxPlayers

(* A handshake with a valid token; the socket joins nothing yet.           *)
Connect(s) ==
  /\ Idle /\ s \notin connected
  /\ connected' = connected \cup {s}
  /\ UNCHANGED <<engineVars, socketToUser, zoneVars>>

(* A full room answers roomFull and changes nothing.                       *)
JoinRoom(s) ==
  /\ s \in connected /\ RoomHasSpace
  /\ AddPlayer(Owner[s], s)
  /\ socketToUser' = With(socketToUser, s, Owner[s])
  /\ IF CountAfter >= MaxPlayers THEN Zone!LockZone(CountAfter) ELSE Zone!UnlockZone(CountAfter)
  /\ UNCHANGED <<connected, entryTracking, triggered, rearm, sinceOut>>

ForgetSocket(s) == Without(socketToUser, s)

(* Whichever socket of a user says so, the user leaves.                    *)
LeaveRoom(s) ==
  /\ s \in connected
  /\ socketToUser' = Without(socketToUser, s)
  /\ RemovePlayer(Owner[s])
  /\ Zone!ClearTriggered(Owner[s])
  /\ Zone!UnlockZone(CountAfter)
  /\ UNCHANGED <<connected, rearm, sinceOut>>

(* Whichever registered socket of a user closes, the user is disconnected. *)
Disconnect(s) ==
  /\ Idle /\ s \in connected
  /\ connected' = connected \ {s}
  /\ IF s \in DOMAIN socketToUser
     THEN /\ socketToUser' = ForgetSocket(s)
          /\ MarkDisconnected(socketToUser[s])
          /\ Zone!ClearTriggered(socketToUser[s])
          /\ Zone!UnlockZone(CountAfter)
          /\ UNCHANGED <<rearm, sinceOut>>
     ELSE UNCHANGED <<socketToUser, engineVars, zoneVars>>

(* Input and pickups are taken from any open socket, joined or not.        *)
PlayerInput(s) ==
  /\ s \in connected
  /\ \/ \E command \in Commands : HandlePlayerInput(Owner[s], command)
     \/ \E box \in pickups : CollectItem(Owner[s], box)
  /\ UNCHANGED <<socketVars, zoneVars>>
-----------------------------------------------------------------------------
(* checkShooterZone (either gateway) and clearShooterZone (the map's).     *)
MapReports(u) ==
  /\ Idle
  /\ \/ Zone!CheckShooterZone(u)
     \/ Zone!ClearTriggered(u) /\ UNCHANGED <<zoneState, rearm, sinceOut>>
  /\ UNCHANGED <<engineVars, socketVars>>

(* Mutant: the callback is not installed. *)
NobodyTold == {}

(* Whom the engine reports to onPlayerEliminated in this step.             *)
Reported == {u \in Users : elims'[u] > elims[u]}

(* A step of the tick; the callback of afterInit runs inside applyHit.     *)
Tick ==
  /\ TickStep
  /\ IF Reported = {}
     THEN UNCHANGED zoneVars
     ELSE /\ \E u \in Reported : Zone!ClearTriggered(u)
          /\ UNCHANGED <<zoneState, rearm, sinceOut>>
  /\ UNCHANGED socketVars

EngineClocks == Clocks /\ UNCHANGED <<socketVars, zoneVars>>

DoorClocks == Idle /\ Zone!ZoneTimers /\ UNCHANGED <<engineVars, socketVars>>
-----------------------------------------------------------------------------
ArenaInit ==
  /\ EngineInit /\ Zone!ZoneInit
  /\ connected = {} /\ socketToUser = <<>>

Gateway == \E s \in Sockets :
  Connect(s) \/ JoinRoom(s) \/ LeaveRoom(s) \/ Disconnect(s) \/ PlayerInput(s)

ArenaNext ==
  \/ Gateway
  \/ \E u \in Users : MapReports(u)
  \/ Tick
  \/ EngineClocks
  \/ DoorClocks

ArenaSpec == ArenaInit /\ [][ArenaNext]_arenaVars
-----------------------------------------------------------------------------
(* Properties.                                                             *)

ArenaTypeOK ==
  /\ connected \subseteq Sockets
  /\ DOMAIN socketToUser \subseteq connected
  /\ \A s \in DOMAIN socketToUser : socketToUser[s] = Owner[s]

(* Everybody in the room can be reached: the player's socket is open,      *)
(* belongs to the user, and its closing will be noticed.  It has to hold   *)
(* over joining twice, changing sockets, restored sessions and             *)
(* eliminations.                                                           *)
SocketOfPlayer ==
  \A u \in DOMAIN players :
    /\ players[u].socket \in DOMAIN socketToUser
    /\ socketToUser[players[u].socket] = u

(* The room and the number on the map behave as ArenaRoster says.          *)
Roster == INSTANCE ArenaRoster
  WITH members <- DOMAIN players, advertised <- zoneState.activePlayers

ImplementsRoster == Roster!RosterSpec

(* At most MAX_PLAYERS are in the room, and the map never shows fewer      *)
(* players than there are.                                                 *)
RoomBounded == Roster!NeverOverfull

(* Whoever gets out of the room, on whichever way, may be invited again at *)
(* once: no flag and no half-measured stay is left at the door.            *)
ExitReopensDoor ==
  [][\A u \in DOMAIN players \ DOMAIN players' :
       u \notin triggered' /\ u \notin DOMAIN entryTracking']_arenaVars

(* zone.service.ts:97-100: the zone is locked when the room is full, and   *)
(* whoever stands in it is told "Room is full".                            *)
LockedMeansFull == zoneState.status = "locked" => ~RoomHasSpace
=============================================================================
