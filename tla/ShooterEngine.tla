--------------------------- MODULE ShooterEngine ---------------------------
(***************************************************************************)
(* The authoritative engine of the shooter arena                           *)
(* (shooter-engine.service.ts): the players in the room, the reconnection  *)
(* window, the game loop and its tick, shots and hits, pickups, rewards.   *)
(*                                                                         *)
(* A public method of the service runs to completion on Node's event loop, *)
(* so it is one action.  A tick is one callback too, but it is modelled by *)
(* smaller steps (one queued input, one projectile, one victim of a blast) *)
(* and `phase' keeps every other action out until the callback returns.    *)
(*                                                                         *)
(* Abstracted: positions, velocities and geometry.  Where a projectile     *)
(* lands is a choice among everything a geometry could decide.  Time is a  *)
(* set of clocks that Elapse moves together; the 1 s window of the fire    *)
(* rates is the exception: each shot leaves it on its own.                 *)
(***************************************************************************)
EXTENDS Naturals, Sequences, FiniteSets, JsMap

CONSTANTS
  Users,            \* user ids, the keys of every Map of the room
  Sockets,          \* socket ids a player can be reached at
  Weapons,          \* the weapons in use, a subset of WeaponTypes
  Commands,         \* what an input may ask: a weapon name stands for "shoot with it"
  MaxHealth,        \* config.player.maxHealth
  MaxShield,        \* shieldConfig.maxShield
  HealAmount,       \* restoreAmount of a health box
  Damage,           \* [Weapons -> damage]
  FireRate,         \* [Weapons -> shots allowed per window]
  Volley,           \* [Weapons -> projectiles of one shot]
  KillsForBadge,    \* config.badges.killsThreshold
  XpSurvival,       \* config.xp.survivalMs, in units of Elapse
  BadgeSurvival,    \* config.badges.survivalMs
  SurvivalPeriod,   \* survival is looked at once in this many ticks
  ReconnectWindow,  \* 10 s
  Positions,        \* PICKUP_SPAWN_POSITIONS
  TooClose,         \* pairs of positions nearer than MIN_BOX_SPACING
  PickupTypes,      \* the types pickWeightedRandomType can return
  MaxBoxes,         \* MAX_BOXES
  PickupLife,       \* 10 s
  KillsCap,         \* bound: kills are counted up to here
  AgeCap,           \* bound: time in the room is measured up to here
  QueueBound,       \* bound: inputs waiting for a tick
  ProjectileBound   \* bound: projectiles that outlive a tick

WeaponTypes == {"normal", "shotgun", "rocket", "laser"}
RewardKinds == {"xp:survival-5min", "sobreviviente", "tirador-del-campus"}

ASSUME ArenaAssumption ==
  /\ IsFiniteSet(Users)
  /\ Weapons \subseteq WeaponTypes
  /\ Commands \subseteq Weapons \cup {"move", "activateShield"}
  /\ MaxHealth \in Nat \ {0} /\ MaxShield \in Nat /\ HealAmount \in Nat
  /\ Damage \in [Weapons -> Nat \ {0}]
  /\ FireRate \in [Weapons -> Nat]
  /\ Volley \in [Weapons -> Nat \ {0}]
  /\ KillsForBadge \in Nat /\ XpSurvival \in Nat /\ BadgeSurvival \in Nat
  /\ SurvivalPeriod \in Nat \ {0} /\ ReconnectWindow \in Nat
  /\ IsFiniteSet(Positions)
  /\ \A p \in Positions : <<p, p>> \in TooClose
  /\ \A p, q \in Positions : <<p, q>> \in TooClose => <<q, p>> \in TooClose
  /\ MaxBoxes \in Nat /\ PickupLife \in Nat
  /\ KillsCap \in Nat /\ AgeCap \in Nat
  /\ QueueBound \in Nat /\ ProjectileBound \in Nat

VARIABLES
  players,       \* room.players: user -> health, shield, kills, socket
  reconnecting,  \* room.reconnecting: user -> time left and the player's state
  joinAge,       \* room.joinTimestamps: user -> time since then
  badges,        \* room.badgesAwarded: user -> rewards already given
  awards,        \* how often each reward was emitted (history, up to 2)
  shots,         \* the four ...Timestamps maps: shots inside the last window
  gameLoop,      \* room.gameLoopInterval is set
  pickupTimer,   \* room.pickupTimer is set
  pickups,       \* room.pickups: boxes with position, type and age
  inputQueue,    \* inputs waiting for the next tick
  projectiles,   \* room.projectiles, in insertion order
  tick,          \* room.tick modulo SurvivalPeriod
  phase,         \* where the running tick is; "idle" between callbacks
  grid,          \* users in playerGrid, the hit-test index of this tick
  pending,       \* projectiles updateProjectiles has not reached yet
  blast,         \* users the exploding rocket has still to hit
  elims          \* playerEliminated events of this tick per user (up to 2)

rosterVars == <<players, reconnecting>>
rewardVars == <<joinAge, badges, awards>>
loopVars   == <<gameLoop, pickupTimer, pickups>>
combatVars == <<shots, inputQueue, projectiles>>
tickVars   == <<tick, phase, grid, pending, blast, elims>>
engineVars == <<rosterVars, rewardVars, loopVars, combatVars, tickVars>>

Player == [health: 0..MaxHealth, shield: 0..MaxShield,
           kills: 0..KillsCap, socket: Sockets]
Box == [pos: Positions, type: PickupTypes, age: 0..PickupLife]
Projectile == [owner: Users, weapon: Weapons]

FreshPlayer(s) == [health |-> MaxHealth, shield |-> 0, kills |-> 0, socket |-> s]
NoShots == [w \in Weapons |-> 0]
Idle == phase = "idle"
-----------------------------------------------------------------------------
(* The game loop runs while somebody is in the room.                       *)

(* Mutant: the roster is looked at before the newcomer is in it. *)
StartGameLoopLate ==
  /\ gameLoop' = (gameLoop \/ DOMAIN players # {})
  /\ pickupTimer' = gameLoop'
  /\ UNCHANGED pickups

StartGameLoop ==
  /\ gameLoop' = TRUE
  /\ pickupTimer' = (pickupTimer \/ ~gameLoop)
  /\ UNCHANGED pickups

(* Mutant: the pickup timer is left running. *)
StopGameLoopOnly == gameLoop' = FALSE /\ UNCHANGED <<pickupTimer, pickups>>

StopGameLoop ==
  IF gameLoop
  THEN gameLoop' = FALSE /\ pickupTimer' = FALSE /\ pickups' = {}
  ELSE UNCHANGED loopVars

StopGameLoopIfEmpty ==
  IF DOMAIN players' = {} THEN StopGameLoop ELSE UNCHANGED loopVars

-----------------------------------------------------------------------------
(* Joining, leaving, losing the connection.                                *)

(* Mutant: the window is never over. *)
CanRestoreForever(u) == u \in DOMAIN reconnecting /\ reconnecting[u].state.health > 0

CanRestore(u) ==
  /\ u \in DOMAIN reconnecting
  /\ reconnecting[u].left > 0
  /\ reconnecting[u].state.health > 0

(* Mutant: the restored player keeps the socket that was lost. *)
JoiningAsWas(u, s) == IF CanRestore(u) THEN reconnecting[u].state ELSE FreshPlayer(s)

Joining(u, s) ==
  IF CanRestore(u) THEN [reconnecting[u].state EXCEPT !.socket = s]
                   ELSE FreshPlayer(s)

AddPlayer(u, s) ==
  /\ Idle
  /\ players' = With(players, u, Joining(u, s))
  /\ reconnecting' = Without(reconnecting, u)
  /\ joinAge' = With(joinAge, u, 0)
  /\ badges' = IF u \in DOMAIN badges THEN badges ELSE With(badges, u, {})
  /\ StartGameLoop
  /\ UNCHANGED <<awards, combatVars, tickVars>>

RemovePlayer(u) ==
  /\ Idle
  /\ IF u \in DOMAIN players
     THEN /\ players' = Without(players, u)
          /\ shots' = [shots EXCEPT ![u] = NoShots]
          /\ joinAge' = Without(joinAge, u)
          /\ StopGameLoopIfEmpty
     ELSE UNCHANGED <<players, shots, joinAge, loopVars>>
  /\ UNCHANGED <<reconnecting, badges, awards, inputQueue, projectiles, tickVars>>

MarkDisconnected(u) ==
  /\ Idle
  /\ IF u \in DOMAIN players
     THEN /\ reconnecting' =
               IF players[u].health > 0
               THEN With(reconnecting, u,
                         [left |-> ReconnectWindow, state |-> players[u]])
               ELSE reconnecting
          /\ players' = Without(players, u)
          /\ shots' = [shots EXCEPT ![u] = NoShots]
          /\ StopGameLoopIfEmpty
     ELSE UNCHANGED <<rosterVars, shots, loopVars>>
  /\ UNCHANGED <<rewardVars, inputQueue, projectiles, tickVars>>

(* An input is queued whether or not its user is in the room.              *)
HandlePlayerInput(u, command) ==
  /\ Idle
  /\ Len(inputQueue) < QueueBound
  /\ inputQueue' = Append(inputQueue, [user |-> u, command |-> command])
  /\ UNCHANGED <<rosterVars, rewardVars, loopVars, shots, projectiles, tickVars>>
-----------------------------------------------------------------------------
(* Pickups.                                                                *)

(* The box goes to whoever names it; only a health box acts on a player,   *)
(* and only on one who is in the room.                                     *)
CollectItem(u, box) ==
  /\ Idle
  /\ box \in pickups
  /\ pickups' = pickups \ {box}
  /\ players' =
       IF box.type = "health" /\ u \in DOMAIN players
       THEN [players EXCEPT ![u].health = Least(MaxHealth, @ + HealAmount)]
       ELSE players
  /\ UNCHANGED <<reconnecting, rewardVars, gameLoop, pickupTimer, combatVars, tickVars>>

(* Mutant: only the very same position counts as occupied. *)
NotOccupied(p, boxes) == \A b \in boxes : p # b.pos

Clear(p, boxes) == \A b \in boxes : <<p, b.pos>> \notin TooClose

(* Boxes past their life go; new ones are put one by one on positions that *)
(* are clear of all the others, until there are MaxBoxes or no such place. *)
ManagePickups ==
  /\ Idle /\ pickupTimer
  /\ LET alive == {b \in pickups : b.age < PickupLife}
         Fresh == [pos: Positions, type: PickupTypes, age: {0}]
     IN \E new \in SUBSET Fresh :
          /\ Cardinality(alive \cup new) <= MaxBoxes \/ new = {}
          /\ \A b \in new : Clear(b.pos, alive \cup (new \ {b}))
          /\ \/ Cardinality(alive \cup new) >= MaxBoxes
             \/ \A b \in Fresh : ~Clear(b.pos, alive \cup new)
          /\ pickups' = alive \cup new
  /\ UNCHANGED <<rosterVars, rewardVars, gameLoop, pickupTimer, combatVars, tickVars>>
-----------------------------------------------------------------------------
(* Hits.                                                                   *)

TakeDamage(p, damage) ==
  LET absorbed == Least(p.shield, damage)
  IN  [p EXCEPT !.shield = @ - absorbed, !.health = Minus(@, damage - absorbed)]

Credited(p) == [p EXCEPT !.kills = Least(KillsCap, @ + 1)]

(* Mutant: badgesAwarded is not consulted. *)
EarnsKillBadgeAgain(a) ==
  a \in DOMAIN players /\ a \in DOMAIN badges /\ Credited(players[a]).kills >= KillsForBadge

EarnsKillBadge(a) ==
  /\ a \in DOMAIN players /\ a \in DOMAIN badges
  /\ Credited(players[a]).kills >= KillsForBadge
  /\ "tirador-del-campus" \notin badges[a]

(* v is out: the attacker is credited if still in the room, and v keeps    *)
(* nothing but the rewards.                                                *)
Eliminate(v, a) ==
  /\ players' = [u \in DOMAIN players \ {v} |->
                   IF u = a THEN Credited(players[u]) ELSE players[u]]
  /\ IF EarnsKillBadge(a)
     THEN /\ badges' = [badges EXCEPT ![a] = @ \cup {"tirador-del-campus"}]
          /\ awards' = [awards EXCEPT ![a]["tirador-del-campus"] = Least(2, @ + 1)]
     ELSE UNCHANGED <<badges, awards>>
  /\ shots' = [shots EXCEPT ![v] = NoShots]
  /\ joinAge' = Without(joinAge, v)
  /\ reconnecting' = Without(reconnecting, v)
  /\ elims' = [elims EXCEPT ![v] = Least(2, @ + 1)]
  /\ StopGameLoopIfEmpty

(* Mutant: off by one at health 0. *)
SurvivesAtZero(v, damage) ==
  v \in DOMAIN players /\ TakeDamage(players[v], damage).health >= 0

Survives(v, damage) ==
  v \in DOMAIN players /\ TakeDamage(players[v], damage).health > 0

(* A user of `grid' who is no longer in the room was eliminated earlier in *)
(* this tick: the grid still holds the object, with no health and no       *)
(* shield, so a further hit takes the elimination branch again.            *)
ApplyHit(v, a, damage) ==
  IF Survives(v, damage)
  THEN /\ players' = [players EXCEPT ![v] = TakeDamage(@, damage)]
       /\ UNCHANGED <<reconnecting, rewardVars, shots, loopVars, elims>>
  ELSE Eliminate(v, a)
-----------------------------------------------------------------------------
(* The tick.                                                               *)

TickStart ==
  /\ Idle /\ gameLoop
  /\ phase' = "inputs"
  /\ tick' = (tick + 1) % SurvivalPeriod
  /\ UNCHANGED <<rosterVars, rewardVars, loopVars, combatVars, grid, pending, blast, elims>>

CreateProjectile(u, w) ==
  IF shots[u][w] >= FireRate[w]
  THEN UNCHANGED <<shots, projectiles>>
  ELSE /\ shots' = [shots EXCEPT ![u][w] = @ + 1]
       /\ projectiles' = projectiles \o [i \in 1..Volley[w] |-> [owner |-> u, weapon |-> w]]

(* Mutant: shields add up. *)
ShieldStacked(p) == [p EXCEPT !.shield = @ + MaxShield]

ShieldActivated(p) == [p EXCEPT !.shield = MaxShield]

ProcessInput ==
  /\ phase = "inputs" /\ inputQueue # <<>>
  /\ LET u == Head(inputQueue).user
         command == Head(inputQueue).command
     IN /\ players' = IF u \in DOMAIN players /\ command = "activateShield"
                      THEN [players EXCEPT ![u] = ShieldActivated(@)]
                      ELSE players
        /\ IF u \in DOMAIN players /\ command \in Weapons
           THEN CreateProjectile(u, command)
           ELSE UNCHANGED <<shots, projectiles>>
  /\ inputQueue' = Tail(inputQueue)
  /\ UNCHANGED <<reconnecting, rewardVars, loopVars, tickVars>>

(* Mutant: a tick may go on with inputs still waiting. *)
InputsSkipped == TRUE

InputsDone == inputQueue = <<>>

(* Players have moved; the grid is filled with those in the room.          *)
StartProjectiles ==
  /\ phase = "inputs" /\ InputsDone
  /\ phase' = "projectiles"
  /\ grid' = DOMAIN players
  /\ pending' = projectiles
  /\ projectiles' = <<>>
  /\ UNCHANGED <<rosterVars, rewardVars, loopVars, shots, inputQueue, tick, blast, elims>>

(* The next projectile is due and no rocket is exploding.                  *)
Due == phase = "projectiles" /\ pending # <<>> /\ blast = {}

ProjectileFlies ==
  /\ Due
  /\ Len(projectiles) < ProjectileBound
  /\ projectiles' = Append(projectiles, Head(pending))
  /\ pending' = Tail(pending)
  /\ UNCHANGED <<rosterVars, rewardVars, loopVars, shots, inputQueue, tick, phase, grid,
                 blast, elims>>

(* It reaches the border or a cover structure.                             *)
ProjectileStops ==
  /\ Due /\ Head(pending).weapon # "rocket"
  /\ pending' = Tail(pending)
  /\ UNCHANGED <<rosterVars, rewardVars, loopVars, combatVars, tick, phase, grid, blast, elims>>

ProjectileHits(v) ==
  /\ Due /\ Head(pending).weapon # "rocket"
  /\ v \in grid /\ v # Head(pending).owner
  /\ ApplyHit(v, Head(pending).owner, Damage[Head(pending).weapon])
  /\ pending' = Tail(pending)
  /\ UNCHANGED <<inputQueue, projectiles, tick, phase, grid, blast>>

(* A rocket explodes where it stops and reaches everybody around it, its   *)
(* owner included.                                                         *)
RocketExplodes(victims) ==
  /\ Due /\ Head(pending).weapon = "rocket"
  /\ victims \subseteq grid
  /\ blast' = victims
  /\ pending' = IF victims = {} THEN Tail(pending) ELSE pending
  /\ UNCHANGED <<rosterVars, rewardVars, loopVars, combatVars, tick, phase, grid, elims>>

BlastHits(v) ==
  /\ phase = "projectiles" /\ v \in blast
  /\ ApplyHit(v, Head(pending).owner, Damage["rocket"])
  /\ blast' = blast \ {v}
  /\ pending' = IF blast = {v} THEN Tail(pending) ELSE pending
  /\ UNCHANGED <<inputQueue, projectiles, tick, phase, grid>>

SurvivalRewards(u) ==
  {r \in {"xp:survival-5min"} : joinAge[u] >= XpSurvival}
    \cup {r \in {"sobreviviente"} : joinAge[u] >= BadgeSurvival}

(* Mutant: the reward on record is not consulted. *)
OwedAgain(u) == IF tick = 0 /\ u \in DOMAIN joinAge THEN SurvivalRewards(u) ELSE {}

(* What checkSurvivalRewards gives u: everybody with a join time is looked *)
(* at, in the room or not.                                                 *)
Owed(u) == IF tick = 0 /\ u \in DOMAIN joinAge THEN SurvivalRewards(u) \ badges[u] ELSE {}

TickEnd ==
  /\ phase = "projectiles" /\ pending = <<>>
  /\ badges' = [u \in DOMAIN badges |-> badges[u] \cup Owed(u)]
  /\ awards' = [u \in Users |-> [r \in RewardKinds |->
                  IF u \in DOMAIN badges /\ r \in Owed(u)
                  THEN Least(2, awards[u][r] + 1) ELSE awards[u][r]]]
  /\ phase' = "idle" /\ grid' = {} /\ elims' = [u \in Users |-> 0]
  /\ UNCHANGED <<rosterVars, joinAge, loopVars, combatVars, tick, pending, blast>>
-----------------------------------------------------------------------------
(* Time.                                                                   *)

Elapse ==
  /\ Idle
  /\ reconnecting' = [u \in DOMAIN reconnecting |->
                        [reconnecting[u] EXCEPT !.left = Minus(@, 1)]]
  /\ joinAge' = [u \in DOMAIN joinAge |-> Least(AgeCap, joinAge[u] + 1)]
  /\ pickups' = {[b EXCEPT !.age = Least(PickupLife, @ + 1)] : b \in pickups}
  /\ UNCHANGED <<players, badges, awards, gameLoop, pickupTimer, combatVars, tickVars>>

(* A shot is no longer inside the window that `now - t < 1000' keeps.      *)
ShotExpires(u, w) ==
  /\ Idle
  /\ shots[u][w] > 0
  /\ shots' = [shots EXCEPT ![u][w] = @ - 1]
  /\ UNCHANGED <<rosterVars, rewardVars, loopVars, inputQueue, projectiles, tickVars>>
-----------------------------------------------------------------------------
EngineInit ==
  /\ players = <<>> /\ reconnecting = <<>>
  /\ joinAge = <<>> /\ badges = <<>>
  /\ awards = [u \in Users |-> [r \in RewardKinds |-> 0]]
  /\ shots = [u \in Users |-> NoShots]
  /\ gameLoop = FALSE /\ pickupTimer = FALSE /\ pickups = {}
  /\ inputQueue = <<>> /\ projectiles = <<>>
  /\ tick = 0 /\ phase = "idle"
  /\ grid = {} /\ pending = <<>> /\ blast = {}
  /\ elims = [u \in Users |-> 0]

TickStep ==
  \/ TickStart
  \/ ProcessInput
  \/ StartProjectiles
  \/ ProjectileFlies
  \/ ProjectileStops
  \/ \E v \in Users : ProjectileHits(v)
  \/ \E victims \in SUBSET Users : RocketExplodes(victims)
  \/ \E v \in Users : BlastHits(v)
  \/ TickEnd

Clocks ==
  \/ ManagePickups
  \/ Elapse
  \/ \E u \in Users, w \in Weapons : ShotExpires(u, w)

(* The calls of the gateway, here without the gateway's own conditions.    *)
Calls ==
  \E u \in Users :
    \/ \E s \in Sockets : AddPlayer(u, s)
    \/ RemovePlayer(u)
    \/ MarkDisconnected(u)
    \/ \E command \in Commands : HandlePlayerInput(u, command)
    \/ \E box \in pickups : CollectItem(u, box)

EngineNext == Calls \/ TickStep \/ Clocks

(* Intervals keep firing and a callback that has begun returns; callers    *)
(* and time owe nothing.                                                   *)
EngineSpec == EngineInit /\ [][EngineNext]_engineVars /\ WF_engineVars(TickStep)
-----------------------------------------------------------------------------
(* Properties.                                                             *)

EngineTypeOK ==
  /\ DOMAIN players \subseteq Users
  /\ players \in [DOMAIN players -> Player]
  /\ DOMAIN reconnecting \subseteq Users
  /\ reconnecting \in [DOMAIN reconnecting -> [left: 0..ReconnectWindow, state: Player]]
  /\ DOMAIN joinAge \subseteq Users
  /\ joinAge \in [DOMAIN joinAge -> 0..AgeCap]
  /\ DOMAIN badges \subseteq Users
  /\ badges \in [DOMAIN badges -> SUBSET RewardKinds]
  /\ awards \in [Users -> [RewardKinds -> 0..2]]
  /\ shots \in [Users -> [Weapons -> Nat]]
  /\ gameLoop \in BOOLEAN /\ pickupTimer \in BOOLEAN
  /\ pickups \subseteq Box
  /\ inputQueue \in Seq([user: Users, command: Commands])
  /\ projectiles \in Seq(Projectile) /\ pending \in Seq(Projectile)
  /\ tick \in 0..(SurvivalPeriod - 1)
  /\ phase \in {"idle", "inputs", "projectiles"}
  /\ grid \subseteq Users /\ blast \subseteq Users
  /\ elims \in [Users -> 0..2]

(* The loop and the pickup timer run exactly while somebody is in the room *)
(* whichever of leaving, losing the connection or being eliminated in the  *)
(* middle of a tick took the last player out; a stopped room has no boxes. *)
LoopFollowsRoster ==
  /\ gameLoop = (DOMAIN players # {})
  /\ pickupTimer = gameLoop
  /\ ~gameLoop => pickups = {}

(* A user is either in the room or waiting in the reconnection window, and *)
(* alive in both: nobody in the room has health 0 and no dead state waits  *)
(* to be restored.                                                         *)
OneLife ==
  /\ DOMAIN players \cap DOMAIN reconnecting = {}
  /\ \A u \in DOMAIN players : players[u].health > 0
  /\ \A u \in DOMAIN reconnecting : reconnecting[u].state.health > 0

(* However often a user leaves, is eliminated or reconnects, each reward   *)
(* is emitted once, and exactly when it is on record (badgesAwarded).      *)
RewardsPaidOnce ==
  \A u \in Users, r \in RewardKinds :
    awards[u][r] = IF u \in DOMAIN badges /\ r \in badges[u] THEN 1 ELSE 0

(* Where a tick can stand: nothing is left over between ticks, and a blast *)
(* belongs to the rocket at the head of the projectiles still to do.       *)
TickShape ==
  /\ phase # "projectiles" => pending = <<>>
  /\ blast # {} => pending # <<>> /\ Head(pending).weapon = "rocket"

(* The part of the invariant that is inductive for the whole engine.       *)
EngineInv ==
  EngineTypeOK /\ LoopFollowsRoster /\ OneLife /\ TickShape /\ RewardsPaidOnce

(* At most MAX_BOXES boxes, no two nearer than MIN_BOX_SPACING, however    *)
(* spawning, expiry and collecting interleave.                             *)
PickupsSpread ==
  /\ Cardinality(pickups) <= MaxBoxes
  /\ \A b, c \in pickups : b # c => <<b.pos, c.pos>> \notin TooClose

(* Kills enter the room only through an open reconnection window: nobody   *)
(* keeps a score over leaving, elimination or a window that has closed.    *)
ScoreNeedsWindow ==
  [][\A u \in DOMAIN players' \ DOMAIN players :
       players'[u].kills > 0 => /\ u \in DOMAIN reconnecting
                                /\ reconnecting[u].left > 0
                                /\ players'[u].kills = reconnecting[u].state.kills
    ]_engineVars

(* Inputs do not pile up: while the loop runs, the queue is emptied.       *)
InputsConsumed ==
  (gameLoop /\ inputQueue # <<>>) ~> (inputQueue = <<>> \/ ~gameLoop)

(* Whoever stays long enough gets the survival reward.                     *)
SurvivorPaid ==
  \A u \in Users :
    (u \in DOMAIN players /\ joinAge[u] >= XpSurvival)
      ~> (u \notin DOMAIN players \/ "xp:survival-5min" \in badges[u]
          \/ joinAge[u] < XpSurvival)

(* README, "Sistema de salud": at 0 health the player is eliminated and    *)
(* expelled, "solo eliminacion definitiva".  So one tick eliminates nobody *)
(* twice.                                                                  *)
EliminatedOnce == \A u \in Users : elims[u] <= 1
=============================================================================
