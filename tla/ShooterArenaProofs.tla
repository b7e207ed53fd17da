------------------------- MODULE ShooterArenaProofs -------------------------
(***************************************************************************)
(* Proofs about ShooterArena.  A step of the arena is a step of the engine *)
(* or leaves it alone, so the engine's invariant holds in the arena; with  *)
(* it every player is reachable through a registered socket, every step of *)
(* the arena is a step or a stutter of ArenaRoster, the engine's and the   *)
(* doorway's promises hold in the composition, and whoever gets out of the *)
(* room may be invited again.                                              *)
(***************************************************************************)
EXTENDS ShooterArena, ShooterEngineProofs
-----------------------------------------------------------------------------
(* The gateway calls the engine as Calls allows.                           *)
LEMMA GatewayIsEngineStep ==
  ASSUME ArenaTypeOK, Gateway
  PROVE  [EngineNext]_engineVars
  <1> SUFFICES ASSUME NEW s \in Sockets,
                      \/ Connect(s) \/ JoinRoom(s) \/ LeaveRoom(s) \/ Disconnect(s)
                      \/ PlayerInput(s)
               PROVE  [EngineNext]_engineVars
    BY DEF Gateway
  <1>1. Owner[s] \in Users
    BY GatewayAssumption DEF GatewayAssumption
  <1>2. CASE Connect(s)
    BY <1>2 DEF Connect
  <1>3. CASE JoinRoom(s)
    BY <1>1, <1>3 DEF JoinRoom, EngineNext, Calls
  <1>4. CASE LeaveRoom(s)
    BY <1>1, <1>4 DEF LeaveRoom, EngineNext, Calls
  <1>5. CASE Disconnect(s)
    <2>1. CASE s \in DOMAIN socketToUser
      <3>1. MarkDisconnected(socketToUser[s]) /\ socketToUser[s] \in Users
        BY <1>1, <1>5, <2>1 DEF Disconnect, ArenaTypeOK
      <3> QED
        BY <3>1 DEF EngineNext, Calls
    <2>2. CASE s \notin DOMAIN socketToUser
      BY <1>5, <2>2 DEF Disconnect
    <2> QED
      BY <2>1, <2>2
  <1>6. CASE PlayerInput(s)
    BY <1>1, <1>6 DEF PlayerInput, EngineNext, Calls
  <1> QED
    BY <1>2, <1>3, <1>4, <1>5, <1>6

(* What a step of the arena does to the engine is a step of the engine     *)
(* or none.                                                                *)
LEMMA ArenaStepIsEngineStep ==
  ASSUME ArenaTypeOK, [ArenaNext]_arenaVars
  PROVE  [EngineNext]_engineVars
  <1>1. CASE Gateway
    BY <1>1, GatewayIsEngineStep
  <1>2. CASE \E u \in Users : MapReports(u)
    BY <1>2 DEF MapReports
  <1>3. CASE Tick
    BY <1>3 DEF Tick, EngineNext
  <1>4. CASE EngineClocks
    BY <1>4 DEF EngineClocks, EngineNext
  <1>5. CASE DoorClocks
    BY <1>5 DEF DoorClocks
  <1>6. CASE UNCHANGED arenaVars
    BY <1>6 DEF arenaVars
  <1> QED
    BY <1>1, <1>2, <1>3, <1>4, <1>5, <1>6 DEF ArenaNext
-----------------------------------------------------------------------------
(* What a tick may do to the room: somebody may fall, and nobody's socket  *)
(* changes.                                                                *)
PlayersStay ==
  /\ DOMAIN players' \subseteq DOMAIN players
  /\ \A u \in DOMAIN players' : players'[u].socket = players[u].socket

AtMostOneFalls ==
  DOMAIN players' = DOMAIN players
    \/ \E v \in DOMAIN players : DOMAIN players' = DOMAIN players \ {v}

(* A hit keeps the sockets of those who stay and takes out the victim at   *)
(* most.                                                                   *)
LEMMA ApplyHitRoster ==
  ASSUME EngineTypeOK, NEW v, NEW a, NEW damage \in Nat, ApplyHit(v, a, damage)
  PROVE  PlayersStay /\ AtMostOneFalls
  <1>1. CASE Survives(v, damage)
    <2> DEFINE hit == TakeDamage(players[v], damage)
    <2>1. v \in DOMAIN players /\ players' = [players EXCEPT ![v] = hit]
      BY <1>1 DEF ApplyHit, Survives
    <2>2. players[v] \in Player
      BY <2>1 DEF EngineTypeOK
    <2>3. hit.socket = players[v].socket
      BY <2>2 DEF TakeDamage, Player
    <2> HIDE DEF hit
    <2> QED
      BY <2>1, <2>3 DEF PlayersStay, AtMostOneFalls
  <1>2. CASE ~Survives(v, damage)
    <2>1. players' = [u \in DOMAIN players \ {v} |->
                        IF u = a THEN Credited(players[u]) ELSE players[u]]
      BY <1>2 DEF ApplyHit, Eliminate
    <2>2. ASSUME NEW u \in DOMAIN players
          PROVE  Credited(players[u]).socket = players[u].socket
      <3>1. players[u] \in Player
        BY DEF EngineTypeOK
      <3> QED
        BY <3>1 DEF Credited, Player
    <2> QED
      BY <2>1, <2>2 DEF PlayersStay, AtMostOneFalls
  <1> QED
    BY <1>1, <1>2

(* An input changes neither who is in the room nor their sockets.          *)
LEMMA ProcessInputRoster ==
  ASSUME EngineTypeOK, ProcessInput
  PROVE  PlayersStay /\ AtMostOneFalls
  <1> DEFINE u == Head(inputQueue).user
  <1>1. \/ players' = players
        \/ u \in DOMAIN players /\ players' = [players EXCEPT ![u] = ShieldActivated(players[u])]
    BY DEF ProcessInput
  <1> HIDE DEF u
  <1>2. ASSUME u \in DOMAIN players
        PROVE  ShieldActivated(players[u]).socket = players[u].socket
    <2>1. players[u] \in Player
      BY <1>2 DEF EngineTypeOK
    <2> QED
      BY <2>1 DEF ShieldActivated, Player
  <1> QED
    BY <1>1, <1>2 DEF PlayersStay, AtMostOneFalls

(* A pickup changes neither who is in the room nor their sockets.          *)
LEMMA CollectItemRoster ==
  ASSUME EngineTypeOK, NEW u \in Users, NEW box, CollectItem(u, box)
  PROVE  PlayersStay /\ DOMAIN players' = DOMAIN players
  <1> DEFINE healed == [players[u] EXCEPT !.health = Least(MaxHealth, @ + HealAmount)]
  <1>1. \/ players' = players
        \/ u \in DOMAIN players /\ players' = [players EXCEPT ![u] = healed]
    BY DEF CollectItem
  <1>2. u \in DOMAIN players => healed.socket = players[u].socket
    BY DEF EngineTypeOK, Player
  <1> HIDE DEF healed
  <1> QED
    BY <1>1, <1>2 DEF PlayersStay

(* A step of the tick takes out one player at most and changes no socket.  *)
LEMMA TickRoster ==
  ASSUME EngineTypeOK, TickShape, TickStep
  PROVE  PlayersStay /\ AtMostOneFalls
  <1>1. CASE \/ TickStart \/ StartProjectiles \/ ProjectileFlies \/ ProjectileStops \/ TickEnd
             \/ \E victims \in SUBSET Users : RocketExplodes(victims)
    BY <1>1
    DEF TickStart, StartProjectiles, ProjectileFlies, ProjectileStops, TickEnd, RocketExplodes,
        rosterVars, PlayersStay, AtMostOneFalls
  <1>2. CASE ProcessInput
    BY <1>2, ProcessInputRoster
  <1>3. ASSUME NEW v \in Users, ProjectileHits(v)
        PROVE  PlayersStay /\ AtMostOneFalls
    <2>1. pending # <<>> /\ ApplyHit(v, Head(pending).owner, Damage[Head(pending).weapon])
      BY <1>3 DEF ProjectileHits, Due
    <2> QED
      BY <2>1, DueFacts, ApplyHitRoster
  <1>4. ASSUME NEW v \in Users, BlastHits(v)
        PROVE  PlayersStay /\ AtMostOneFalls
    <2>1. /\ pending # <<>> /\ Head(pending).weapon = "rocket"
          /\ ApplyHit(v, Head(pending).owner, Damage["rocket"])
      BY <1>4 DEF BlastHits, TickShape
    <2> QED
      BY <2>1, DueFacts, ApplyHitRoster
  <1> QED
    BY <1>1, <1>2, <1>3, <1>4 DEF TickStep
-----------------------------------------------------------------------------
(* SocketOfPlayer is kept by every handler.                                *)
LEMMA PlayersStayReachable ==
  ASSUME ArenaTypeOK, SocketOfPlayer, PlayersStay, UNCHANGED socketVars
  PROVE  ArenaTypeOK' /\ SocketOfPlayer'
  BY DEF ArenaTypeOK, SocketOfPlayer, PlayersStay, socketVars

(* A handshake keeps every player reachable.                               *)
LEMMA ConnectReachable ==
  ASSUME ArenaTypeOK, SocketOfPlayer, NEW s \in Sockets, Connect(s)
  PROVE  ArenaTypeOK' /\ SocketOfPlayer'
  BY DEF ArenaTypeOK, SocketOfPlayer, Connect, engineVars, rosterVars

(* joinRoom keeps every player reachable, the newcomer included.           *)
LEMMA JoinRoomReachable ==
  ASSUME EngineTypeOK, ArenaTypeOK, SocketOfPlayer, NEW s \in Sockets, JoinRoom(s)
  PROVE  ArenaTypeOK' /\ SocketOfPlayer'
  <1> DEFINE u == Owner[s]
  <1>1. /\ s \in connected /\ connected' = connected
        /\ players' = With(players, u, Joining(u, s))
        /\ socketToUser' = With(socketToUser, s, u)
    BY DEF JoinRoom, AddPlayer
  <1>2. Joining(u, s).socket = s
    <2>1. CASE CanRestore(u)
      <3>1. reconnecting[u].state \in Player
        BY <2>1 DEF CanRestore, EngineTypeOK
      <3> QED
        BY <2>1, <3>1 DEF Joining, Player
    <2>2. CASE ~CanRestore(u)
      BY <2>2 DEF Joining, FreshPlayer
    <2> QED
      BY <2>1, <2>2
  <1>3. /\ DOMAIN socketToUser' = DOMAIN socketToUser \cup {s}
        /\ \A r \in DOMAIN socketToUser' :
             socketToUser'[r] = IF r = s THEN u ELSE socketToUser[r]
    BY <1>1 DEF With
  <1>4. ArenaTypeOK'
    BY <1>1, <1>3 DEF ArenaTypeOK
  <1>5. /\ DOMAIN players' = DOMAIN players \cup {u}
        /\ players'[u].socket = s
        /\ \A v \in DOMAIN players \ {u} : players'[v] = players[v]
    BY <1>1, <1>2 DEF With
  <1>6. SocketOfPlayer'
    BY <1>3, <1>5 DEF SocketOfPlayer, ArenaTypeOK
  <1> QED
    BY <1>4, <1>6

(* A user goes and takes one registered socket along.                      *)
LEMMA GoneReachable ==
  ASSUME ArenaTypeOK, SocketOfPlayer, NEW s \in Sockets, NEW u, u = Owner[s],
         socketToUser' = Without(socketToUser, s),
         connected' \in {connected, connected \ {s}},
         players' = IF u \in DOMAIN players THEN Without(players, u) ELSE players
  PROVE  ArenaTypeOK' /\ SocketOfPlayer'
  <1>1. /\ DOMAIN socketToUser' = DOMAIN socketToUser \ {s}
        /\ \A r \in DOMAIN socketToUser' : socketToUser'[r] = socketToUser[r]
    BY DEF Without, Restrict
  <1>2. /\ DOMAIN players' = DOMAIN players \ {u}
        /\ \A v \in DOMAIN players' : players'[v] = players[v]
    BY DEF Without, Restrict
  <1>3. \A v \in DOMAIN players \ {u} : players[v].socket # s
    BY DEF SocketOfPlayer, ArenaTypeOK
  <1>4. ArenaTypeOK'
    BY <1>1 DEF ArenaTypeOK
  <1>5. SocketOfPlayer'
    BY <1>1, <1>2, <1>3 DEF SocketOfPlayer
  <1> QED
    BY <1>4, <1>5

(* leaveRoom keeps those who stay reachable.                               *)
LEMMA LeaveRoomReachable ==
  ASSUME ArenaTypeOK, SocketOfPlayer, NEW s \in Sockets, LeaveRoom(s)
  PROVE  ArenaTypeOK' /\ SocketOfPlayer'
  <1>1. /\ socketToUser' = Without(socketToUser, s) /\ connected' = connected
        /\ players' = IF Owner[s] \in DOMAIN players THEN Without(players, Owner[s]) ELSE players
    BY DEF LeaveRoom, RemovePlayer
  <1> QED
    BY <1>1, GoneReachable

(* A closing socket keeps those who stay reachable.                        *)
LEMMA DisconnectReachable ==
  ASSUME ArenaTypeOK, SocketOfPlayer, NEW s \in Sockets, Disconnect(s)
  PROVE  ArenaTypeOK' /\ SocketOfPlayer'
  <1>1. CASE s \in DOMAIN socketToUser
    <2> DEFINE u == Owner[s]
    <2>1. socketToUser[s] = u
      BY <1>1 DEF ArenaTypeOK
    <2>2. /\ socketToUser' = Without(socketToUser, s) /\ connected' = connected \ {s}
          /\ players' = IF u \in DOMAIN players THEN Without(players, u) ELSE players
      BY <1>1, <2>1 DEF Disconnect, ForgetSocket, MarkDisconnected, rosterVars
    <2> QED
      BY <2>2, GoneReachable
  <1>2. CASE s \notin DOMAIN socketToUser
    BY <1>2 DEF Disconnect, ArenaTypeOK, SocketOfPlayer, engineVars, rosterVars
  <1> QED
    BY <1>1, <1>2

(* Every step keeps every player reachable.                                *)
LEMMA ArenaStepReachable ==
  ASSUME EngineInv, ArenaTypeOK, SocketOfPlayer, [ArenaNext]_arenaVars
  PROVE  ArenaTypeOK' /\ SocketOfPlayer'
  <1>0. EngineTypeOK /\ TickShape
    BY DEF EngineInv
  <1>1. ASSUME NEW s \in Sockets, PlayerInput(s)
        PROVE  ArenaTypeOK' /\ SocketOfPlayer'
    <2>1. Owner[s] \in Users
      BY GatewayAssumption DEF GatewayAssumption
    <2>2. PlayersStay /\ UNCHANGED socketVars
      BY <1>0, <1>1, <2>1, CollectItemRoster
      DEF PlayerInput, HandlePlayerInput, rosterVars, PlayersStay
    <2> QED
      BY <2>2, PlayersStayReachable
  <1>2. CASE Gateway
    BY <1>0, <1>1, <1>2, ConnectReachable, JoinRoomReachable, LeaveRoomReachable,
       DisconnectReachable DEF Gateway
  <1>3. CASE Tick
    BY <1>0, <1>3, TickRoster, PlayersStayReachable DEF Tick
  <1>4. CASE (\E u \in Users : MapReports(u)) \/ DoorClocks \/ UNCHANGED arenaVars
    BY <1>4, PlayersStayReachable
    DEF MapReports, DoorClocks, arenaVars, engineVars, rosterVars, PlayersStay
  <1>5. CASE EngineClocks
    BY <1>5, PlayersStayReachable
    DEF EngineClocks, Clocks, ManagePickups, Elapse, ShotExpires, rosterVars, PlayersStay
  <1> QED
    BY <1>2, <1>3, <1>4, <1>5 DEF ArenaNext
-----------------------------------------------------------------------------
(* The inductive invariant of the arena: the engine's, and the sockets'.   *)
ArenaInv == EngineInv /\ ArenaTypeOK /\ SocketOfPlayer

(* The invariant of engine and sockets holds in every reachable state of   *)
(* the arena.                                                              *)
THEOREM ArenaInvariant == ArenaSpec => []ArenaInv
  <1>1. ArenaInit => ArenaInv
    BY EngineInitInv
    DEF ArenaInit, ArenaInv, ArenaTypeOK, SocketOfPlayer, EngineInit
  <1>2. ArenaInv /\ [ArenaNext]_arenaVars => ArenaInv'
    BY ArenaStepIsEngineStep, EngineNextInv, ArenaStepReachable DEF ArenaInv
  <1> QED
    BY <1>1, <1>2, PTL DEF ArenaSpec

(* Every player in the room has an open socket that is registered for the  *)
(* user, so that its closing will be noticed.                              *)
THEOREM SocketOfPlayerAlways == ArenaSpec => []SocketOfPlayer
  <1>1. ArenaInv => SocketOfPlayer
    BY DEF ArenaInv
  <1> QED
    BY ArenaInvariant, <1>1, PTL

(* The engine keeps its promises under the gateway too.                    *)
THEOREM RewardsPaidOnceInArena == ArenaSpec => []RewardsPaidOnce
  <1>1. ArenaInv => RewardsPaidOnce
    BY DEF ArenaInv, EngineInv
  <1> QED
    BY ArenaInvariant, <1>1, PTL
-----------------------------------------------------------------------------
(* The refinement.                                                         *)

(* The instance brings its own copies of the operators of FiniteSets.      *)
LEMMA RosterCardinality ==
  ASSUME NEW S
  PROVE  Roster!Cardinality(S) = Cardinality(S)
  BY DEF Roster!Cardinality, Cardinality

(* The operators on finite sets, as ArenaRoster sees them.                 *)
LEMMA RosterFinite ==
  ASSUME NEW S
  PROVE  Roster!IsFiniteSet(S) = IsFiniteSet(S)
  BY DEF Roster!IsFiniteSet, IsFiniteSet

(* A message of a client enters or quits in ArenaRoster, or is a           *)
(* stutter.                                                                *)
LEMMA GatewayRefines ==
  ASSUME EngineTypeOK, ArenaTypeOK, NEW s \in Sockets,
         Connect(s) \/ JoinRoom(s) \/ LeaveRoom(s) \/ Disconnect(s) \/ PlayerInput(s)
  PROVE  [Roster!RosterNext]_(Roster!rosterSpecVars)
  <1>1. Owner[s] \in Users
    BY GatewayAssumption DEF GatewayAssumption
  <1>2. CASE Connect(s)
    BY <1>2 DEF Connect, Roster!rosterSpecVars, engineVars, rosterVars, zoneVars
  <1>3. CASE JoinRoom(s)
    <2>1. DOMAIN players' = DOMAIN players \cup {Owner[s]}
      BY <1>3 DEF JoinRoom, AddPlayer, With
    <2>2. zoneState'.activePlayers = Cardinality(DOMAIN players')
      BY <1>3 DEF JoinRoom, Zone!LockZone, Zone!UnlockZone, CountAfter
    <2>3. Roster!Enter(Owner[s])
      BY <1>3, <2>1, <2>2, RosterCardinality DEF JoinRoom, RoomHasSpace, Roster!Enter
    <2> QED
      BY <1>1, <2>3 DEF Roster!RosterNext
  <1>4. CASE LeaveRoom(s)
    <2>1. DOMAIN players' = DOMAIN players \ {Owner[s]}
      BY <1>4 DEF LeaveRoom, RemovePlayer, Without, Restrict
    <2>2. zoneState'.activePlayers = Cardinality(DOMAIN players')
      BY <1>4 DEF LeaveRoom, Zone!UnlockZone, CountAfter
    <2>3. Roster!Quit(Owner[s])
      BY <2>1, <2>2, RosterCardinality DEF Roster!Quit
    <2> QED
      BY <1>1, <2>3 DEF Roster!RosterNext
  <1>5. CASE Disconnect(s)
    <2>1. CASE s \in DOMAIN socketToUser
      <3>1. socketToUser[s] = Owner[s]
        BY <2>1 DEF ArenaTypeOK
      <3>2. DOMAIN players' = DOMAIN players \ {Owner[s]}
        BY <1>5, <2>1, <3>1 DEF Disconnect, MarkDisconnected, Without, Restrict, rosterVars
      <3>3. zoneState'.activePlayers = Cardinality(DOMAIN players')
        BY <1>5, <2>1 DEF Disconnect, Zone!UnlockZone, CountAfter
      <3>4. Roster!Quit(Owner[s])
        BY <3>2, <3>3, RosterCardinality DEF Roster!Quit
      <3> QED
        BY <1>1, <3>4 DEF Roster!RosterNext
    <2>2. CASE s \notin DOMAIN socketToUser
      BY <1>5, <2>2 DEF Disconnect, Roster!rosterSpecVars, engineVars, rosterVars, zoneVars
    <2> QED
      BY <2>1, <2>2
  <1>6. CASE PlayerInput(s)
    <2>1. DOMAIN players' = DOMAIN players /\ zoneState' = zoneState
      BY <1>1, <1>6, CollectItemRoster DEF PlayerInput, HandlePlayerInput, rosterVars, zoneVars
    <2> QED
      BY <2>1 DEF Roster!rosterSpecVars
  <1> QED
    BY <1>2, <1>3, <1>4, <1>5, <1>6

(* Every step of the arena is a step of ArenaRoster or a stutter.          *)
LEMMA ArenaStepRefines ==
  ASSUME EngineInv, ArenaTypeOK, [ArenaNext]_arenaVars
  PROVE  [Roster!RosterNext]_(Roster!rosterSpecVars)
  <1>0. EngineTypeOK /\ TickShape /\ DOMAIN players \subseteq Users
    BY DEF EngineInv, EngineTypeOK
  <1>1. CASE Gateway
    BY <1>0, <1>1, GatewayRefines DEF Gateway
  <1>2. CASE \E u \in Users : MapReports(u)
    <2>1. DOMAIN players' = DOMAIN players /\ zoneState' = zoneState
      BY <1>2
      DEF MapReports, engineVars, rosterVars, Zone!CheckShooterZone, Zone!ReportOutside,
          Zone!StepIn, Zone!Stay, Zone!Trigger
    <2> QED
      BY <2>1 DEF Roster!rosterSpecVars
  <1>3. CASE Tick
    <2>1. AtMostOneFalls /\ zoneState' = zoneState
      BY <1>0, <1>3, TickRoster DEF Tick, zoneVars
    <2>2. CASE DOMAIN players' = DOMAIN players
      BY <2>1, <2>2 DEF Roster!rosterSpecVars
    <2>3. ASSUME NEW v \in DOMAIN players, DOMAIN players' = DOMAIN players \ {v}
          PROVE  Roster!RosterNext
      <3>1. v \in Users /\ Roster!Fall(v)
        BY <1>0, <2>1, <2>3 DEF Roster!Fall
      <3> QED
        BY <3>1 DEF Roster!RosterNext
    <2> QED
      BY <2>1, <2>2, <2>3 DEF AtMostOneFalls
  <1>4. CASE EngineClocks
    BY <1>4
    DEF EngineClocks, Clocks, ManagePickups, Elapse, ShotExpires, rosterVars, zoneVars,
        Roster!rosterSpecVars
  <1>5. CASE DoorClocks
    BY <1>5
    DEF DoorClocks, Zone!ZoneTimers, Zone!ExpireStaleEntries, Zone!RearmFires, Zone!ZoneElapse,
        engineVars, rosterVars, Roster!rosterSpecVars
  <1>6. CASE UNCHANGED arenaVars
    BY <1>6 DEF arenaVars, engineVars, rosterVars, zoneVars, Roster!rosterSpecVars
  <1> QED
    BY <1>1, <1>2, <1>3, <1>4, <1>5, <1>6 DEF ArenaNext

(* The room and the number on the map implement ArenaRoster.               *)
THEOREM ArenaImplementsRoster == ArenaSpec => ImplementsRoster
  <1>1. ArenaInit => Roster!RosterInit
    BY DEF ArenaInit, EngineInit, Zone!ZoneInit, Roster!RosterInit
  <1>2. ArenaInv /\ [ArenaNext]_arenaVars => [Roster!RosterNext]_(Roster!rosterSpecVars)
    BY ArenaStepRefines DEF ArenaInv
  <1> QED
    BY <1>1, <1>2, ArenaInvariant, PTL DEF ArenaSpec, ImplementsRoster, Roster!RosterSpec

(* The room is never over MAX_PLAYERS, and the map never shows fewer       *)
(* players than there are.                                                 *)
THEOREM RoomBoundedAlways == ArenaSpec => []RoomBounded
  <1>1. Roster!IsFiniteSet(Users) /\ MaxPlayers \in Nat
    BY RosterFinite, ArenaAssumption, GatewayAssumption DEF ArenaAssumption, GatewayAssumption
  <1>2. Roster!RosterSpec => []Roster!NeverOverfull
    BY <1>1, Roster!RosterNeverOverfull
  <1> QED
    BY <1>2, ArenaImplementsRoster, PTL DEF ImplementsRoster, RoomBounded
-----------------------------------------------------------------------------
(* The engine under the gateway.                                           *)

(* The arena never does to the engine what the engine alone could not do.  *)
THEOREM ArenaImplementsEngine == ArenaSpec => EngineSafety
  <1>1. ArenaInit => EngineInit
    BY DEF ArenaInit
  <1>2. ArenaInv /\ [ArenaNext]_arenaVars => [EngineNext]_engineVars
    BY ArenaStepIsEngineStep DEF ArenaInv
  <1> QED
    BY <1>1, <1>2, ArenaInvariant, PTL DEF ArenaSpec, EngineSafety

(* Joining twice, late closes and eliminations leave nobody in the room    *)
(* and reconnecting at once, nor the loop running in an empty room.        *)
THEOREM OneLifeInArena == ArenaSpec => [](OneLife /\ LoopFollowsRoster)
  <1>1. ArenaInv => OneLife /\ LoopFollowsRoster
    BY DEF ArenaInv, EngineInv
  <1> QED
    BY ArenaInvariant, <1>1, PTL

(* Messages of any socket, joined or not, keep the boxes few and apart.    *)
THEOREM PickupsSpreadInArena == ArenaSpec => []PickupsSpread
  BY ArenaImplementsEngine, SafetyPickups, PTL

(* Whatever the sockets do, kills come back only through an open window.   *)
THEOREM ScoreNeedsWindowInArena == ArenaSpec => ScoreNeedsWindow
  BY ArenaImplementsEngine, SafetyScore, PTL
-----------------------------------------------------------------------------
(* The doorway under the gateways.  Its own specification takes one call   *)
(* at a time and any number of players; here a goodbye releases the user   *)
(* and unlocks in one step, and the number is that of the room.            *)
Door == INSTANCE ZoneServiceProofs

(* The proofs about the doorway rest on its constants.                     *)
LEMMA DoorConstants ==
  /\ MaxPlayers \in Nat \ {0} /\ Dwell \in Nat \ {0} /\ Stale \in Nat /\ Rearm \in Nat \ {0}
  BY GatewayAssumption DEF GatewayAssumption

(* A number the map may show, after a step.                                *)
LEMMA CountInBounds ==
  ASSUME Roster!NeverOverfull', zoneState'.activePlayers = CountAfter
  PROVE  CountAfter \in 0..MaxPlayers
  BY DEF Roster!NeverOverfull

(* What a socket says keeps the doorway's invariant.                       *)
LEMMA GatewayDoor ==
  ASSUME ArenaTypeOK, Roster!NeverOverfull', Door!ZoneInv, NEW s \in Sockets,
         Connect(s) \/ JoinRoom(s) \/ LeaveRoom(s) \/ Disconnect(s) \/ PlayerInput(s)
  PROVE  Door!ZoneInv'
  <1>1. Owner[s] \in Users
    BY GatewayAssumption DEF GatewayAssumption
  <1>2. CASE UNCHANGED zoneVars
    BY <1>2, DoorConstants, Door!ZoneNextInv DEF zoneVars, Door!zoneVars
  <1>3. CASE JoinRoom(s)
    <2>1. CountAfter \in 0..MaxPlayers
      BY <1>3, CountInBounds DEF JoinRoom, Zone!LockZone, Zone!UnlockZone
    <2>2. \/ Door!UnlockZone(CountAfter)
          \/ CountAfter >= MaxPlayers /\ Door!LockZone(CountAfter)
      BY <1>3 DEF JoinRoom, Zone!LockZone, Zone!UnlockZone, Door!LockZone, Door!UnlockZone
    <2> QED
      BY <1>3, <2>1, <2>2, DoorConstants, Door!LockInv DEF JoinRoom
  <1>4. ASSUME NEW u \in Users, Zone!ClearTriggered(u), Zone!UnlockZone(CountAfter),
               UNCHANGED <<rearm, sinceOut>>
        PROVE  Door!ZoneInv'
    <2>1. CountAfter \in 0..MaxPlayers
      BY <1>4, CountInBounds DEF Zone!UnlockZone
    <2>2. Door!ClearTriggered(u) /\ Door!UnlockZone(CountAfter)
      BY <1>4
      DEF Zone!ClearTriggered, Zone!ForgetEntry, Zone!Without, Zone!Restrict, Zone!UnlockZone,
          Door!ClearTriggered, Door!ForgetEntry, Door!Without, Door!Restrict, Door!UnlockZone
    <2> QED
      BY <1>4, <2>1, <2>2, DoorConstants, Door!ClearTriggeredInv
  <1>5. CASE LeaveRoom(s)
    BY <1>1, <1>4, <1>5 DEF LeaveRoom
  <1>6. CASE Disconnect(s) /\ s \in DOMAIN socketToUser
    BY <1>1, <1>4, <1>6 DEF Disconnect, ArenaTypeOK
  <1>7. CASE Connect(s) \/ PlayerInput(s) \/ (Disconnect(s) /\ s \notin DOMAIN socketToUser)
    BY <1>2, <1>7 DEF Connect, PlayerInput, Disconnect
  <1> QED
    BY <1>3, <1>5, <1>6, <1>7

(* So does every step of the arena.                                        *)
LEMMA ArenaStepDoor ==
  ASSUME ArenaTypeOK, EngineTypeOK, Roster!NeverOverfull', Door!ZoneInv, [ArenaNext]_arenaVars
  PROVE  Door!ZoneInv'
  <1>1. ASSUME [Door!ZoneNext]_(Door!zoneVars) PROVE Door!ZoneInv'
    BY <1>1, DoorConstants, Door!ZoneNextInv
  <1>2. CASE Gateway
    BY <1>2, GatewayDoor DEF Gateway
  <1>3. ASSUME NEW u \in Users, Zone!ClearTriggered(u), UNCHANGED <<zoneState, rearm, sinceOut>>
        PROVE  Door!ZoneNext
    BY <1>3
    DEF Zone!ClearTriggered, Zone!ForgetEntry, Zone!Without, Zone!Restrict, Door!ZoneNext,
        Door!ZoneCalls, Door!ClearTriggered, Door!ForgetEntry, Door!Without, Door!Restrict
  <1>4. ASSUME NEW u \in Users, Zone!CheckShooterZone(u) PROVE Door!ZoneNext
    <2>1. Door!CheckShooterZone(u)
      BY <1>4
      DEF Zone!CheckShooterZone, Zone!ReportOutside, Zone!StepIn, Zone!Stay, Zone!Trigger,
          Zone!ForgetEntry, Zone!StartTimer, Zone!StillWaiting, Zone!Available, Zone!Tracked,
          Zone!With, Zone!Without, Zone!Restrict,
          Door!CheckShooterZone, Door!ReportOutside, Door!StepIn, Door!Stay, Door!Trigger,
          Door!ForgetEntry, Door!StartTimer, Door!StillWaiting, Door!Available, Door!Tracked,
          Door!With, Door!Without, Door!Restrict
    <2> QED
      BY <2>1 DEF Door!ZoneNext, Door!ZoneCalls
  <1>5. CASE \E u \in Users : MapReports(u)
    BY <1>1, <1>3, <1>4, <1>5 DEF MapReports
  <1>6. CASE Tick
    <2>1. CASE Reported = {}
      BY <1>1, <1>6, <2>1 DEF Tick, zoneVars, Door!zoneVars
    <2>2. CASE Reported # {}
      BY <1>1, <1>3, <1>6, <2>2 DEF Tick, Reported
    <2> QED
      BY <2>1, <2>2
  <1>7. CASE DoorClocks
    <2>1. Zone!ZoneTimers
      BY <1>7 DEF DoorClocks
    <2>2. Door!ZoneTimers
      BY <2>1
      DEF Zone!ZoneTimers, Zone!ExpireStaleEntries, Zone!RearmFires, Zone!ZoneElapse,
          Zone!StaleEntries, Zone!Tracked, Zone!Restrict, Zone!Least,
          Door!ZoneTimers, Door!ExpireStaleEntries, Door!RearmFires, Door!ZoneElapse,
          Door!StaleEntries, Door!Tracked, Door!Restrict, Door!Least
    <2> QED
      BY <1>1, <2>2 DEF Door!ZoneNext
  <1>8. CASE EngineClocks \/ UNCHANGED arenaVars
    BY <1>1, <1>8 DEF EngineClocks, arenaVars, zoneVars, Door!zoneVars
  <1> QED
    BY <1>2, <1>5, <1>6, <1>7, <1>8 DEF ArenaNext

(* The doorway's invariant holds whatever the two gateways and the engine  *)
(* do to it; the number of players is in its range because the room is.    *)
THEOREM DoorInvariantInArena == ArenaSpec => []Door!ZoneInv
  <1>1. ArenaInit => Door!ZoneInv
    <2>1. ArenaInit => Door!ZoneInit
      BY DEF ArenaInit, Zone!ZoneInit, Door!ZoneInit
    <2> QED
      BY <2>1, DoorConstants, Door!ZoneInitInv
  <1>2. ArenaInv /\ Roster!NeverOverfull' /\ Door!ZoneInv /\ [ArenaNext]_arenaVars
          => Door!ZoneInv'
    BY ArenaStepDoor DEF ArenaInv, EngineInv
  <1>3. ArenaSpec => []Roster!NeverOverfull
    BY RoomBoundedAlways, PTL DEF RoomBounded
  <1> QED
    BY <1>1, <1>2, <1>3, ArenaInvariant, PTL DEF ArenaSpec

(* Nobody is invited for walking past, nobody's flag is without a timer,   *)
(* and the lock agrees with the number shown, in the composition too.      *)
THEOREM DoorPromisesInArena ==
  ArenaSpec => [](Zone!DwellIsContinuous /\ Zone!FlagHasTimer /\ Zone!LockMatchesCount)
  <1>1. Door!ZoneInv => Zone!DwellIsContinuous /\ Zone!FlagHasTimer /\ Zone!LockMatchesCount
    BY DEF Door!ZoneInv, Door!DwellIsContinuous, Door!FlagHasTimer, Door!LockMatchesCount,
           Door!Tracked, Zone!DwellIsContinuous, Zone!FlagHasTimer, Zone!LockMatchesCount,
           Zone!Tracked
  <1> QED
    BY DoorInvariantInArena, <1>1, PTL
-----------------------------------------------------------------------------
(* Ways out.                                                               *)

(* Whoever a tick has eliminated is out of the room, and between ticks     *)
(* nobody is counted as eliminated.                                        *)
FallenAreOut ==
  /\ phase = "idle" => \A u \in Users : elims[u] = 0
  /\ \A u \in Users : elims[u] > 0 => u \notin DOMAIN players

(* What a step of the tick does to the room, to the count of eliminations  *)
(* and to its own phase.                                                   *)
Falls ==
  \/ \E v \in Users : /\ DOMAIN players' = DOMAIN players \ {v}
                      /\ elims' = [elims EXCEPT ![v] = Least(2, @ + 1)]
                      /\ phase' # "idle"
  \/ DOMAIN players' = DOMAIN players /\ elims' = elims /\ phase' # "idle"
  \/ DOMAIN players' = DOMAIN players /\ elims' = [u \in Users |-> 0]

(* Every step of the tick is of this form.                                 *)
LEMMA TickFalls ==
  ASSUME EngineTypeOK, TickStep
  PROVE  Falls
  <1>1. ASSUME NEW v \in Users, NEW a, NEW damage, ApplyHit(v, a, damage), phase' = "projectiles"
        PROVE  Falls
    <2>1. CASE Survives(v, damage)
      BY <1>1, <2>1 DEF ApplyHit, Falls
    <2>2. CASE ~Survives(v, damage)
      BY <1>1, <2>2 DEF ApplyHit, Eliminate, Falls
    <2> QED
      BY <2>1, <2>2
  <1>2. CASE \/ TickStart \/ StartProjectiles \/ ProjectileFlies \/ ProjectileStops \/ TickEnd
             \/ \E victims \in SUBSET Users : RocketExplodes(victims)
    BY <1>2
    DEF TickStart, StartProjectiles, ProjectileFlies, ProjectileStops, TickEnd, RocketExplodes,
        Due, rosterVars, Falls
  <1>3. CASE ProcessInput
    BY <1>3 DEF ProcessInput, tickVars, Falls
  <1>4. ASSUME NEW v \in Users, ProjectileHits(v) \/ BlastHits(v) PROVE Falls
    BY <1>1, <1>4 DEF ProjectileHits, BlastHits, Due
  <1> QED
    BY <1>2, <1>3, <1>4 DEF TickStep

(* The count of eliminations is kept right by every step of the engine.    *)
LEMMA FallenStep ==
  ASSUME EngineTypeOK, FallenAreOut, [EngineNext]_engineVars
  PROVE  FallenAreOut'
  <1>1. elims \in [Users -> 0..2]
    BY DEF EngineTypeOK
  <1>2. CASE TickStep
    <2>1. Falls
      BY <1>2, TickFalls
    <2>2. ASSUME NEW v \in Users, DOMAIN players' = DOMAIN players \ {v},
                 elims' = [elims EXCEPT ![v] = Least(2, @ + 1)], phase' # "idle"
          PROVE  FallenAreOut'
      <3>1. \A u \in Users \ {v} : elims'[u] = elims[u]
        BY <1>1, <2>2
      <3> QED
        BY <2>2, <3>1 DEF FallenAreOut
    <2>3. ASSUME DOMAIN players' = DOMAIN players, elims' = elims, phase' # "idle"
          PROVE  FallenAreOut'
      BY <2>3 DEF FallenAreOut
    <2>4. ASSUME elims' = [u \in Users |-> 0] PROVE FallenAreOut'
      BY <2>4 DEF FallenAreOut
    <2> QED
      BY <2>1, <2>2, <2>3, <2>4 DEF Falls
  <1>3. ASSUME Idle, elims' = elims PROVE FallenAreOut'
    BY <1>1, <1>3 DEF Idle, FallenAreOut
  <1>4. CASE Calls
    <2>1. Idle /\ elims' = elims
      BY <1>4
      DEF Calls, AddPlayer, RemovePlayer, MarkDisconnected, HandlePlayerInput, CollectItem, tickVars
    <2> QED
      BY <1>3, <2>1
  <1>5. CASE Clocks
    <2>1. Idle /\ elims' = elims
      BY <1>5 DEF Clocks, ManagePickups, Elapse, ShotExpires, tickVars
    <2> QED
      BY <1>3, <2>1
  <1>6. CASE UNCHANGED engineVars
    BY <1>6 DEF engineVars, rosterVars, tickVars, FallenAreOut
  <1> QED
    BY <1>2, <1>4, <1>5, <1>6 DEF EngineNext

Reopened(u) == u \notin triggered' /\ u \notin DOMAIN entryTracking'

(* clearTriggered opens the door.                                          *)
LEMMA ClearedIsReopened ==
  ASSUME NEW u, Zone!ClearTriggered(u)
  PROVE  Reopened(u)
  BY DEF Zone!ClearTriggered, Zone!ForgetEntry, Zone!Without, Zone!Restrict, Reopened

(* An elimination is reported, and the callback opens the door.            *)
LEMMA FallReopens ==
  ASSUME EngineTypeOK, FallenAreOut, Tick, NEW u \in DOMAIN players \ DOMAIN players'
  PROVE  Reopened(u)
  <1>1. elims \in [Users -> 0..2] /\ u \in Users
    BY DEF EngineTypeOK
  <1>2. elims[u] = 0
    BY <1>1 DEF FallenAreOut
  <1>3. PICK v \in Users : /\ DOMAIN players' = DOMAIN players \ {v}
                           /\ elims' = [elims EXCEPT ![v] = Least(2, @ + 1)]
    BY TickFalls DEF Tick, Falls
  <1>4. u = v
    BY <1>3
  <1>5. Reported = {u}
    BY <1>1, <1>2, <1>3, <1>4 DEF Reported, Least
  <1>6. Zone!ClearTriggered(u)
    BY <1>5 DEF Tick
  <1> QED
    BY <1>6, ClearedIsReopened

(* Whatever takes somebody out of the room opens the door again.           *)
LEMMA ExitStep ==
  ASSUME EngineTypeOK, FallenAreOut, ArenaNext, NEW u \in DOMAIN players \ DOMAIN players'
  PROVE  Reopened(u)
  <1>1. ASSUME NEW s \in Sockets, LeaveRoom(s) PROVE Reopened(u)
    <2>1. u = Owner[s]
      BY <1>1 DEF LeaveRoom, RemovePlayer, Without, Restrict
    <2> QED
      BY <1>1, <2>1, ClearedIsReopened DEF LeaveRoom
  <1>2. ASSUME NEW s \in Sockets, Disconnect(s) PROVE Reopened(u)
    <2>1. s \in DOMAIN socketToUser
      BY <1>2 DEF Disconnect, engineVars, rosterVars
    <2>2. u = socketToUser[s]
      BY <1>2, <2>1 DEF Disconnect, MarkDisconnected, Without, Restrict, rosterVars
    <2> QED
      BY <1>2, <2>1, <2>2, ClearedIsReopened DEF Disconnect
  <1>3. ASSUME NEW s \in Sockets
        PROVE  ~Connect(s) /\ ~JoinRoom(s)
    BY DEF Connect, JoinRoom, AddPlayer, With, engineVars, rosterVars
  <1>4. ASSUME NEW s \in Sockets, PlayerInput(s) PROVE FALSE
    BY <1>4 DEF PlayerInput, HandlePlayerInput, CollectItem, rosterVars
  <1>5. ~(\E v \in Users : MapReports(v)) /\ ~DoorClocks
    BY DEF MapReports, DoorClocks, engineVars, rosterVars
  <1>6. ~EngineClocks
    BY DEF EngineClocks, Clocks, ManagePickups, Elapse, ShotExpires, rosterVars
  <1> QED
    BY <1>1, <1>2, <1>3, <1>4, <1>5, <1>6, FallReopens DEF ArenaNext, Gateway

(* Leaving, losing the connection or being eliminated: whoever gets out of *)
(* the room may be invited again at once.                                  *)
THEOREM ExitReopensDoorAlways == ArenaSpec => ExitReopensDoor
  <1> DEFINE Exit == \A u \in DOMAIN players \ DOMAIN players' :
                       u \notin triggered' /\ u \notin DOMAIN entryTracking'
  <1>1. ArenaInit => FallenAreOut
    BY DEF ArenaInit, EngineInit, FallenAreOut
  <1>2. ArenaInv /\ FallenAreOut /\ [ArenaNext]_arenaVars => FallenAreOut'
    BY FallenStep, ArenaStepIsEngineStep DEF ArenaInv, EngineInv
  <1>3. ArenaInv /\ FallenAreOut /\ [ArenaNext]_arenaVars => [Exit]_arenaVars
    BY ExitStep DEF ArenaInv, EngineInv, Reopened
  <1>4. ArenaSpec => []FallenAreOut
    BY <1>1, <1>2, ArenaInvariant, PTL DEF ArenaSpec
  <1> QED
    BY <1>3, <1>4, ArenaInvariant, PTL DEF ArenaSpec, ExitReopensDoor

(* Type correctness of the sockets.                                        *)
THEOREM ArenaTypeCorrect == ArenaSpec => []ArenaTypeOK
  <1>1. ArenaInv => ArenaTypeOK
    BY DEF ArenaInv
  <1> QED
    BY ArenaInvariant, <1>1, PTL
=============================================================================
