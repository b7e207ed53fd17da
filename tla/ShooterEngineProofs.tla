------------------------ MODULE ShooterEngineProofs ------------------------
(***************************************************************************)
(* Proofs about ShooterEngine: EngineInv is inductive, so the engine is    *)
(* type correct, its loop follows the room, nobody is dead in the room or  *)
(* both inside and reconnecting, and no reward is paid twice, for every    *)
(* set of users, weapons and every value of the configuration; boxes keep  *)
(* their distance, and kills come back only through an open window.        *)
(***************************************************************************)
EXTENDS ShooterEngine, FiniteSetTheorems, TLAPS
-----------------------------------------------------------------------------
(* The types of the fields of a player.                                    *)
LEMMA PlayerFields ==
  ASSUME NEW p \in Player
  PROVE  /\ p.health \in 0..MaxHealth /\ p.shield \in 0..MaxShield
         /\ p.kills \in 0..KillsCap /\ p.socket \in Sockets
  BY DEF Player

(* A hit keeps a player a player and takes health only behind the shield.  *)
LEMMA TakeDamageType ==
  ASSUME NEW p \in Player, NEW damage \in Nat
  PROVE  /\ TakeDamage(p, damage) \in Player
         /\ TakeDamage(p, damage).kills = p.kills
         /\ TakeDamage(p, damage).health < p.health => TakeDamage(p, damage).shield = 0
  <1> DEFINE absorbed == Least(p.shield, damage)
             shield == p.shield - absorbed
             health == Minus(p.health, damage - absorbed)
  <1>1. /\ absorbed \in Nat /\ absorbed <= p.shield /\ absorbed <= damage
        /\ absorbed < damage => absorbed = p.shield
    BY ArenaAssumption, PlayerFields DEF Least, ArenaAssumption
  <1>2. shield \in 0..MaxShield /\ health \in 0..MaxHealth /\ (health < p.health => shield = 0)
    BY ArenaAssumption, PlayerFields, <1>1 DEF ArenaAssumption, Minus
  <1>3. TakeDamage(p, damage) = [p EXCEPT !.shield = shield, !.health = health]
    BY DEF TakeDamage
  <1> QED
    BY <1>2, <1>3 DEF Player

(* A kill keeps a player well typed.                                       *)
LEMMA CreditedType ==
  ASSUME NEW p \in Player
  PROVE  Credited(p) \in Player /\ Credited(p).health = p.health
  BY ArenaAssumption DEF ArenaAssumption, Credited, Player, Least

(* A newcomer is well typed and alive.                                     *)
LEMMA FreshPlayerType ==
  ASSUME NEW s \in Sockets
  PROVE  FreshPlayer(s) \in Player /\ FreshPlayer(s).health > 0
  BY ArenaAssumption DEF ArenaAssumption, FreshPlayer, Player
-----------------------------------------------------------------------------
(* The invariant holds in the empty room.                                  *)
LEMMA EngineInitInv == EngineInit => EngineInv
  <1> SUFFICES ASSUME EngineInit PROVE EngineInv
    OBVIOUS
  <1>1. /\ DOMAIN players = {} /\ DOMAIN reconnecting = {}
        /\ DOMAIN joinAge = {} /\ DOMAIN badges = {}
    BY DEF EngineInit
  <1>2. /\ players \in [DOMAIN players -> Player]
        /\ reconnecting \in [DOMAIN reconnecting -> [left: 0..ReconnectWindow, state: Player]]
        /\ joinAge \in [DOMAIN joinAge -> 0..AgeCap]
        /\ badges \in [DOMAIN badges -> SUBSET RewardKinds]
    BY DEF EngineInit
  <1>3. /\ awards \in [Users -> [RewardKinds -> 0..2]]
        /\ shots \in [Users -> [Weapons -> Nat]]
        /\ elims \in [Users -> 0..2]
        /\ tick \in 0..(SurvivalPeriod - 1)
    BY ArenaAssumption DEF ArenaAssumption, EngineInit, NoShots
  <1>4. /\ inputQueue \in Seq([user: Users, command: Commands])
        /\ projectiles \in Seq(Projectile) /\ pending \in Seq(Projectile)
    BY DEF EngineInit
  <1>5. EngineTypeOK
    BY <1>1, <1>2, <1>3, <1>4 DEF EngineInit, EngineTypeOK
  <1>6. LoopFollowsRoster /\ OneLife
    BY <1>1 DEF EngineInit, LoopFollowsRoster, OneLife
  <1>7. TickShape
    BY DEF EngineInit, TickShape
  <1>8. RewardsPaidOnce
    BY <1>1 DEF EngineInit, RewardsPaidOnce
  <1> QED
    BY <1>5, <1>6, <1>7, <1>8 DEF EngineInv

(* AddPlayer preserves the invariant.                                      *)
LEMMA AddPlayerInv ==
  ASSUME EngineInv, NEW u \in Users, NEW s \in Sockets, AddPlayer(u, s)
  PROVE  EngineInv'
  <1>0. EngineTypeOK /\ LoopFollowsRoster /\ OneLife /\ TickShape /\ RewardsPaidOnce
    BY DEF EngineInv
  <1>1. Joining(u, s) \in Player /\ Joining(u, s).health > 0
    <2>1. CASE CanRestore(u)
      <3>1. reconnecting[u].state \in Player /\ reconnecting[u].state.health > 0
        BY <1>0, <2>1 DEF EngineTypeOK, OneLife, CanRestore
      <3> QED
        BY <2>1, <3>1 DEF Joining, Player
    <2>2. CASE ~CanRestore(u)
      BY <2>2, FreshPlayerType DEF Joining
    <2> QED
      BY <2>1, <2>2
  <1>2. /\ DOMAIN players' = DOMAIN players \cup {u}
        /\ players' \in [DOMAIN players' -> Player]
        /\ players'[u].health > 0
        /\ \A y \in DOMAIN players \ {u} : players'[y] = players[y]
    <2>1. /\ players' = With(players, u, Joining(u, s))
          /\ players \in [DOMAIN players -> Player] /\ DOMAIN players \subseteq Users
      BY <1>0 DEF AddPlayer, EngineTypeOK
    <2> QED
      BY <1>1, <2>1 DEF With
  <1>3. /\ DOMAIN reconnecting' = DOMAIN reconnecting \ {u}
        /\ reconnecting' \in [DOMAIN reconnecting' -> [left: 0..ReconnectWindow, state: Player]]
        /\ \A y \in DOMAIN reconnecting' : reconnecting'[y] = reconnecting[y]
    <2>1. /\ reconnecting' = Without(reconnecting, u)
          /\ reconnecting \in [DOMAIN reconnecting -> [left: 0..ReconnectWindow, state: Player]]
      BY <1>0 DEF AddPlayer, EngineTypeOK
    <2> QED
      BY <2>1 DEF Without, Restrict
  <1>4. /\ DOMAIN joinAge' \subseteq Users
        /\ joinAge' \in [DOMAIN joinAge' -> 0..AgeCap]
    <2>0. 0 \in 0..AgeCap
      BY ArenaAssumption DEF ArenaAssumption
    <2>1. /\ joinAge' = With(joinAge, u, 0)
          /\ joinAge \in [DOMAIN joinAge -> 0..AgeCap] /\ DOMAIN joinAge \subseteq Users
      BY <1>0 DEF AddPlayer, EngineTypeOK
    <2>2. DOMAIN joinAge' = DOMAIN joinAge \cup {u}
      BY <2>1 DEF With
    <2>3. \A y \in DOMAIN joinAge' : joinAge'[y] \in 0..AgeCap
      BY <2>0, <2>1, <2>2 DEF With
    <2>4. joinAge' = [y \in DOMAIN joinAge' |-> joinAge'[y]]
      BY <2>1 DEF With
    <2> QED
      BY <1>0, <2>2, <2>3, <2>4 DEF EngineTypeOK
  <1>5. /\ DOMAIN badges' \subseteq Users
        /\ badges' \in [DOMAIN badges' -> SUBSET RewardKinds]
        /\ \A v \in Users, r \in RewardKinds :
             (v \in DOMAIN badges' /\ r \in badges'[v]) <=> (v \in DOMAIN badges /\ r \in badges[v])
    BY <1>0 DEF AddPlayer, EngineTypeOK, With
  <1>6. EngineTypeOK'
    BY <1>0, <1>2, <1>3, <1>4, <1>5
    DEF AddPlayer, EngineTypeOK, StartGameLoop, combatVars, tickVars
  <1>7. LoopFollowsRoster'
    BY <1>0, <1>2 DEF AddPlayer, LoopFollowsRoster, StartGameLoop, EngineTypeOK
  <1>8. OneLife'
    BY <1>0, <1>2, <1>3 DEF OneLife
  <1>9. TickShape'
    BY <1>0 DEF AddPlayer, TickShape, tickVars
  <1>10. RewardsPaidOnce'
    BY <1>0, <1>5 DEF AddPlayer, RewardsPaidOnce
  <1> QED
    BY <1>6, <1>7, <1>8, <1>9, <1>10 DEF EngineInv

(* Forgetting the shots of a user keeps the timestamps typed.              *)
LEMMA ClearShotsType ==
  ASSUME NEW f \in [Users -> [Weapons -> Nat]], NEW u
  PROVE  [f EXCEPT ![u] = NoShots] \in [Users -> [Weapons -> Nat]]
  <1>1. NoShots \in [Weapons -> Nat]
    BY DEF NoShots
  <1> QED
    BY <1>1

(* A room that got emptier or kept its players follows the rule again.     *)
LEMMA StopGameLoopIfEmptyInv ==
  ASSUME EngineTypeOK, LoopFollowsRoster, StopGameLoopIfEmpty,
         DOMAIN players' # {} => DOMAIN players # {}
  PROVE  /\ LoopFollowsRoster'
         /\ gameLoop' \in BOOLEAN /\ pickupTimer' \in BOOLEAN /\ pickups' \subseteq Box
  BY DEF EngineTypeOK, LoopFollowsRoster, StopGameLoopIfEmpty, StopGameLoop, loopVars

(* RemovePlayer preserves the invariant.                                   *)
LEMMA RemovePlayerInv ==
  ASSUME EngineInv, NEW u \in Users, RemovePlayer(u)
  PROVE  EngineInv'
  <1>0. EngineTypeOK /\ LoopFollowsRoster /\ OneLife /\ TickShape /\ RewardsPaidOnce
    BY DEF EngineInv
  <1>1. CASE u \notin DOMAIN players
    BY <1>0, <1>1
    DEF EngineInv, RemovePlayer, EngineTypeOK, LoopFollowsRoster, OneLife, TickShape,
        RewardsPaidOnce, loopVars, tickVars
  <1>2. CASE u \in DOMAIN players
    <2>1. /\ DOMAIN players' = DOMAIN players \ {u}
          /\ players' \in [DOMAIN players' -> Player]
          /\ \A y \in DOMAIN players' : players'[y] = players[y]
      BY <1>0, <1>2 DEF RemovePlayer, EngineTypeOK, Without, Restrict
    <2>2. /\ DOMAIN joinAge' \subseteq Users
          /\ joinAge' \in [DOMAIN joinAge' -> 0..AgeCap]
      BY <1>0, <1>2 DEF RemovePlayer, EngineTypeOK, Without, Restrict
    <2>3. shots' \in [Users -> [Weapons -> Nat]]
      <3>1. shots' = [shots EXCEPT ![u] = NoShots] /\ shots \in [Users -> [Weapons -> Nat]]
        BY <1>0, <1>2 DEF RemovePlayer, EngineTypeOK
      <3> QED
        BY <3>1, ClearShotsType
    <2>4. /\ LoopFollowsRoster'
          /\ gameLoop' \in BOOLEAN /\ pickupTimer' \in BOOLEAN /\ pickups' \subseteq Box
      BY <1>0, <1>2, <2>1, StopGameLoopIfEmptyInv DEF RemovePlayer
    <2>5. EngineTypeOK'
      BY <1>0, <2>1, <2>2, <2>3, <2>4 DEF RemovePlayer, EngineTypeOK, tickVars
    <2>6. OneLife' /\ TickShape' /\ RewardsPaidOnce'
      BY <1>0, <2>1 DEF RemovePlayer, OneLife, TickShape, RewardsPaidOnce, tickVars
    <2> QED
      BY <2>4, <2>5, <2>6 DEF EngineInv
  <1> QED
    BY <1>1, <1>2

(* MarkDisconnected preserves the invariant.                               *)
LEMMA MarkDisconnectedInv ==
  ASSUME EngineInv, NEW u \in Users, MarkDisconnected(u)
  PROVE  EngineInv'
  <1>0. EngineTypeOK /\ LoopFollowsRoster /\ OneLife /\ TickShape /\ RewardsPaidOnce
    BY DEF EngineInv
  <1>1. CASE u \notin DOMAIN players
    BY <1>0, <1>1
    DEF EngineInv, MarkDisconnected, EngineTypeOK, LoopFollowsRoster, OneLife, TickShape,
        RewardsPaidOnce, rosterVars, rewardVars, loopVars, tickVars
  <1>2. CASE u \in DOMAIN players
    <2>1. /\ DOMAIN players' = DOMAIN players \ {u}
          /\ players' \in [DOMAIN players' -> Player]
          /\ \A y \in DOMAIN players' : players'[y] = players[y]
      BY <1>0, <1>2 DEF MarkDisconnected, EngineTypeOK, Without, Restrict
    <2>2. players[u] \in Player /\ players[u].health > 0
      BY <1>0, <1>2 DEF EngineTypeOK, OneLife
    <2>3. reconnecting' = With(reconnecting, u, [left |-> ReconnectWindow, state |-> players[u]])
      BY <1>2, <2>2 DEF MarkDisconnected
    <2>4. /\ DOMAIN reconnecting' = DOMAIN reconnecting \cup {u}
          /\ reconnecting' \in [DOMAIN reconnecting' -> [left: 0..ReconnectWindow, state: Player]]
          /\ \A y \in DOMAIN reconnecting' : reconnecting'[y].state.health > 0
      <3>1. [left |-> ReconnectWindow, state |-> players[u]] \in [left: 0..ReconnectWindow, state: Player]
        BY <2>2, ArenaAssumption DEF ArenaAssumption
      <3>2. reconnecting \in [DOMAIN reconnecting -> [left: 0..ReconnectWindow, state: Player]]
        BY <1>0 DEF EngineTypeOK
      <3> QED
        BY <1>0, <2>2, <2>3, <3>1, <3>2 DEF OneLife, With
    <2>5. shots' \in [Users -> [Weapons -> Nat]]
      <3>1. shots' = [shots EXCEPT ![u] = NoShots] /\ shots \in [Users -> [Weapons -> Nat]]
        BY <1>0, <1>2 DEF MarkDisconnected, EngineTypeOK
      <3> QED
        BY <3>1, ClearShotsType
    <2>6. /\ LoopFollowsRoster'
          /\ gameLoop' \in BOOLEAN /\ pickupTimer' \in BOOLEAN /\ pickups' \subseteq Box
      BY <1>0, <1>2, <2>1, StopGameLoopIfEmptyInv DEF MarkDisconnected
    <2>7. EngineTypeOK'
      BY <1>0, <2>1, <2>4, <2>5, <2>6 DEF MarkDisconnected, EngineTypeOK, rewardVars, tickVars
    <2>8. OneLife' /\ TickShape' /\ RewardsPaidOnce'
      BY <1>0, <2>1, <2>4
      DEF MarkDisconnected, OneLife, TickShape, RewardsPaidOnce, rewardVars, tickVars
    <2> QED
      BY <2>6, <2>7, <2>8 DEF EngineInv
  <1> QED
    BY <1>1, <1>2

(* HandlePlayerInput preserves the invariant.                              *)
LEMMA HandlePlayerInputInv ==
  ASSUME EngineInv, NEW u \in Users, NEW command \in Commands, HandlePlayerInput(u, command)
  PROVE  EngineInv'
  <1>0. EngineTypeOK /\ LoopFollowsRoster /\ OneLife /\ TickShape /\ RewardsPaidOnce
    BY DEF EngineInv
  <1>1. inputQueue' \in Seq([user: Users, command: Commands])
    BY <1>0 DEF HandlePlayerInput, EngineTypeOK
  <1> QED
    BY <1>0, <1>1
    DEF EngineInv, HandlePlayerInput, EngineTypeOK, LoopFollowsRoster, OneLife, TickShape,
        RewardsPaidOnce, rosterVars, rewardVars, loopVars, tickVars

(* CollectItem preserves the invariant.                                    *)
LEMMA CollectItemInv ==
  ASSUME EngineInv, NEW u \in Users, NEW box \in pickups, CollectItem(u, box)
  PROVE  EngineInv'
  <1>0. EngineTypeOK /\ LoopFollowsRoster /\ OneLife /\ TickShape /\ RewardsPaidOnce
    BY DEF EngineInv
  <1>1. /\ DOMAIN players' = DOMAIN players
        /\ players' \in [DOMAIN players -> Player]
        /\ \A y \in DOMAIN players : players'[y].health > 0
    <2>1. CASE box.type = "health" /\ u \in DOMAIN players
      <3> DEFINE healed == [players[u] EXCEPT !.health = Least(MaxHealth, @ + HealAmount)]
      <3>1. players[u] \in Player /\ players[u].health > 0
        BY <1>0, <2>1 DEF EngineTypeOK, OneLife
      <3>2. healed \in Player /\ healed.health > 0
        BY <3>1, ArenaAssumption DEF ArenaAssumption, Player, Least
      <3>3. players' = [players EXCEPT ![u] = healed]
        BY <2>1 DEF CollectItem
      <3> QED
        BY <1>0, <3>2, <3>3 DEF EngineTypeOK, OneLife
    <2>2. CASE ~(box.type = "health" /\ u \in DOMAIN players)
      BY <1>0, <2>2 DEF CollectItem, EngineTypeOK, OneLife
    <2> QED
      BY <2>1, <2>2
  <1>2. pickups' \subseteq Box /\ (pickups = {} => pickups' = {})
    BY <1>0 DEF CollectItem, EngineTypeOK
  <1>3. EngineTypeOK'
    BY <1>0, <1>1, <1>2 DEF CollectItem, EngineTypeOK, rewardVars, combatVars, tickVars
  <1>4. LoopFollowsRoster' /\ OneLife' /\ TickShape' /\ RewardsPaidOnce'
    BY <1>0, <1>1, <1>2
    DEF CollectItem, LoopFollowsRoster, OneLife, TickShape, RewardsPaidOnce, rewardVars,
        tickVars
  <1> QED
    BY <1>3, <1>4 DEF EngineInv

(* ManagePickups preserves the invariant.                                  *)
LEMMA ManagePickupsInv ==
  ASSUME EngineInv, ManagePickups
  PROVE  EngineInv'
  <1>0. EngineTypeOK /\ LoopFollowsRoster /\ OneLife /\ TickShape /\ RewardsPaidOnce
    BY DEF EngineInv
  <1>1. pickups' \subseteq Box
    <2> DEFINE alive == {b \in pickups : b.age < PickupLife}
               Fresh == [pos: Positions, type: PickupTypes, age: {0}]
    <2>1. PICK new \in SUBSET Fresh : pickups' = alive \cup new
      BY DEF ManagePickups
    <2>2. Fresh \subseteq Box
      BY ArenaAssumption DEF ArenaAssumption, Box
    <2>3. alive \subseteq Box
      BY <1>0 DEF EngineTypeOK
    <2> QED
      BY <2>1, <2>2, <2>3
  <1>2. EngineTypeOK'
    BY <1>0, <1>1 DEF ManagePickups, EngineTypeOK, rosterVars, rewardVars, combatVars, tickVars
  <1>3. LoopFollowsRoster'
    BY <1>0 DEF ManagePickups, LoopFollowsRoster, rosterVars
  <1>4. OneLife' /\ TickShape' /\ RewardsPaidOnce'
    BY <1>0
    DEF ManagePickups, OneLife, TickShape, RewardsPaidOnce, rosterVars, rewardVars, tickVars
  <1> QED
    BY <1>2, <1>3, <1>4 DEF EngineInv

(* Elapse preserves the invariant.                                         *)
LEMMA ElapseInv ==
  ASSUME EngineInv, Elapse
  PROVE  EngineInv'
  <1>0. EngineTypeOK /\ LoopFollowsRoster /\ OneLife /\ TickShape /\ RewardsPaidOnce
    BY DEF EngineInv
  <1>1. /\ DOMAIN reconnecting' = DOMAIN reconnecting
        /\ reconnecting' \in [DOMAIN reconnecting -> [left: 0..ReconnectWindow, state: Player]]
        /\ \A u \in DOMAIN reconnecting : reconnecting'[u].state = reconnecting[u].state
    <2>1. \A e \in [left: 0..ReconnectWindow, state: Player] :
            /\ [e EXCEPT !.left = Minus(@, 1)] \in [left: 0..ReconnectWindow, state: Player]
            /\ [e EXCEPT !.left = Minus(@, 1)].state = e.state
      BY ArenaAssumption DEF ArenaAssumption, Minus
    <2>2. /\ reconnecting \in [DOMAIN reconnecting -> [left: 0..ReconnectWindow, state: Player]]
          /\ reconnecting' = [u \in DOMAIN reconnecting |->
                                [reconnecting[u] EXCEPT !.left = Minus(@, 1)]]
      BY <1>0 DEF Elapse, EngineTypeOK
    <2> QED
      BY <2>1, <2>2
  <1>2. /\ DOMAIN joinAge' = DOMAIN joinAge
        /\ joinAge' \in [DOMAIN joinAge -> 0..AgeCap]
    <2>1. joinAge' = [u \in DOMAIN joinAge |-> Least(AgeCap, joinAge[u] + 1)]
      BY DEF Elapse
    <2>2. \A n \in 0..AgeCap : Least(AgeCap, n + 1) \in 0..AgeCap
      BY ArenaAssumption DEF ArenaAssumption, Least
    <2>3. joinAge \in [DOMAIN joinAge -> 0..AgeCap]
      BY <1>0 DEF EngineTypeOK
    <2> QED
      BY <2>1, <2>2, <2>3
  <1>3. pickups' \subseteq Box /\ (pickups = {} => pickups' = {})
    <2>1. \A b \in Box : [b EXCEPT !.age = Least(PickupLife, @ + 1)] \in Box
      BY ArenaAssumption DEF ArenaAssumption, Box, Least
    <2> QED
      BY <1>0, <2>1 DEF Elapse, EngineTypeOK
  <1>4. EngineTypeOK'
    BY <1>0, <1>1, <1>2, <1>3 DEF Elapse, EngineTypeOK, combatVars, tickVars
  <1>5. LoopFollowsRoster' /\ OneLife' /\ TickShape' /\ RewardsPaidOnce'
    BY <1>0, <1>1, <1>3
    DEF Elapse, LoopFollowsRoster, OneLife, TickShape, RewardsPaidOnce, tickVars
  <1> QED
    BY <1>4, <1>5 DEF EngineInv

(* ShotExpires preserves the invariant.                                    *)
LEMMA ShotExpiresInv ==
  ASSUME EngineInv, NEW u \in Users, NEW w \in Weapons, ShotExpires(u, w)
  PROVE  EngineInv'
  <1>0. EngineTypeOK /\ LoopFollowsRoster /\ OneLife /\ TickShape /\ RewardsPaidOnce
    BY DEF EngineInv
  <1>1. shots' \in [Users -> [Weapons -> Nat]]
    <2>1. shots[u] \in [Weapons -> Nat] /\ shots[u][w] - 1 \in Nat
      BY <1>0 DEF ShotExpires, EngineTypeOK
    <2>2. [shots[u] EXCEPT ![w] = shots[u][w] - 1] \in [Weapons -> Nat]
      BY <2>1
    <2> QED
      BY <1>0, <2>2 DEF ShotExpires, EngineTypeOK
  <1> QED
    BY <1>0, <1>1
    DEF EngineInv, ShotExpires, EngineTypeOK, LoopFollowsRoster, OneLife, TickShape,
        RewardsPaidOnce, rosterVars, rewardVars, loopVars, tickVars
-----------------------------------------------------------------------------
(* Hits.  What a hit does to the room is the same wherever in the tick it  *)
(* comes from; where the tick stands afterwards is the caller's part.      *)

(* An elimination preserves the invariant: the badge it may give is        *)
(* recorded with the award, and the last player takes the loop along.      *)
LEMMA EliminateInv ==
  ASSUME EngineInv, NEW v \in Users, NEW a, Eliminate(v, a),
         pending' \in Seq(Projectile), blast' \subseteq Users, TickShape',
         UNCHANGED <<inputQueue, projectiles, tick, phase, grid>>
  PROVE  EngineInv'
  <1>0. EngineTypeOK /\ LoopFollowsRoster /\ OneLife /\ RewardsPaidOnce
    BY DEF EngineInv
  <1>1. /\ DOMAIN players' = DOMAIN players \ {v}
        /\ players' \in [DOMAIN players' -> Player]
        /\ \A u \in DOMAIN players' : players'[u].health > 0
    <2>1. \A u \in DOMAIN players :
            /\ players[u] \in Player /\ players[u].health > 0
            /\ Credited(players[u]) \in Player /\ Credited(players[u]).health > 0
      BY <1>0, CreditedType DEF EngineTypeOK, OneLife
    <2>2. players' = [u \in DOMAIN players \ {v} |->
                        IF u = a THEN Credited(players[u]) ELSE players[u]]
      BY DEF Eliminate
    <2> QED
      BY <2>1, <2>2
  <1>2. /\ DOMAIN reconnecting' = DOMAIN reconnecting \ {v}
        /\ reconnecting' \in [DOMAIN reconnecting' -> [left: 0..ReconnectWindow, state: Player]]
        /\ \A u \in DOMAIN reconnecting' : reconnecting'[u] = reconnecting[u]
    BY <1>0 DEF Eliminate, EngineTypeOK, Without, Restrict
  <1>3. DOMAIN joinAge' \subseteq Users /\ joinAge' \in [DOMAIN joinAge' -> 0..AgeCap]
    BY <1>0 DEF Eliminate, EngineTypeOK, Without, Restrict
  <1>4. shots' \in [Users -> [Weapons -> Nat]]
    <2>1. shots' = [shots EXCEPT ![v] = NoShots] /\ shots \in [Users -> [Weapons -> Nat]]
      BY <1>0 DEF Eliminate, EngineTypeOK
    <2> QED
      BY <2>1, ClearShotsType
  <1>5. /\ DOMAIN badges' \subseteq Users
        /\ badges' \in [DOMAIN badges' -> SUBSET RewardKinds]
        /\ awards' \in [Users -> [RewardKinds -> 0..2]]
        /\ RewardsPaidOnce'
    <2>1. CASE ~EarnsKillBadge(a)
      BY <1>0, <2>1 DEF Eliminate, EngineTypeOK, RewardsPaidOnce
    <2>2. CASE EarnsKillBadge(a)
      <3> DEFINE r == "tirador-del-campus"
      <3>1. a \in Users /\ a \in DOMAIN badges /\ r \in RewardKinds /\ r \notin badges[a]
        BY <1>0, <2>2 DEF EarnsKillBadge, EngineTypeOK, RewardKinds
      <3>2. awards[a][r] = 0
        BY <1>0, <3>1 DEF RewardsPaidOnce
      <3>3. /\ badges' = [badges EXCEPT ![a] = badges[a] \cup {r}]
            /\ awards' = [awards EXCEPT ![a] = [awards[a] EXCEPT ![r] = 1]]
        BY <2>2, <3>2 DEF Eliminate, Least
      <3>4. awards \in [Users -> [RewardKinds -> 0..2]] /\ awards[a] \in [RewardKinds -> 0..2]
        BY <1>0, <3>1 DEF EngineTypeOK
      <3>5. [awards[a] EXCEPT ![r] = 1] \in [RewardKinds -> 0..2]
        BY <3>1, <3>4
      <3>6. awards' \in [Users -> [RewardKinds -> 0..2]]
        BY <3>3, <3>4, <3>5
      <3>7. DOMAIN badges' = DOMAIN badges /\ badges' \in [DOMAIN badges' -> SUBSET RewardKinds]
        BY <1>0, <3>1, <3>3 DEF EngineTypeOK
      <3>8. ASSUME NEW u \in Users, NEW k \in RewardKinds
            PROVE  awards'[u][k] = IF u \in DOMAIN badges' /\ k \in badges'[u] THEN 1 ELSE 0
        <4>1. awards[u][k] = IF u \in DOMAIN badges /\ k \in badges[u] THEN 1 ELSE 0
          BY <1>0 DEF RewardsPaidOnce
        <4> QED
          <5>1. CASE u = a /\ k = r
            BY <3>1, <3>3, <3>4, <5>1
          <5>2. CASE u = a /\ k # r
            BY <3>1, <3>3, <3>4, <4>1, <5>2
          <5>3. CASE u # a
            BY <3>1, <3>3, <3>4, <4>1, <5>3
          <5> QED
            BY <5>1, <5>2, <5>3
      <3> QED
        BY <1>0, <3>6, <3>7, <3>8 DEF EngineTypeOK, RewardsPaidOnce
    <2> QED
      BY <2>1, <2>2
  <1>6. elims' \in [Users -> 0..2]
    <2>1. elims[v] \in 0..2 /\ elims \in [Users -> 0..2]
      BY <1>0 DEF EngineTypeOK
    <2>2. Least(2, elims[v] + 1) \in 0..2
      BY <2>1 DEF Least
    <2> QED
      BY <2>1, <2>2 DEF Eliminate
  <1>7. /\ LoopFollowsRoster'
        /\ gameLoop' \in BOOLEAN /\ pickupTimer' \in BOOLEAN /\ pickups' \subseteq Box
    BY <1>0, <1>1, StopGameLoopIfEmptyInv DEF Eliminate
  <1>8. EngineTypeOK'
    BY <1>0, <1>1, <1>2, <1>3, <1>4, <1>5, <1>6, <1>7 DEF EngineTypeOK
  <1>9. OneLife'
    BY <1>0, <1>1, <1>2 DEF OneLife
  <1> QED
    BY <1>5, <1>7, <1>8, <1>9 DEF EngineInv

(* ApplyHit preserves the invariant.                                       *)
LEMMA ApplyHitInv ==
  ASSUME EngineInv, NEW v \in Users, NEW a, NEW damage \in Nat, ApplyHit(v, a, damage),
         pending' \in Seq(Projectile), blast' \subseteq Users, TickShape',
         UNCHANGED <<inputQueue, projectiles, tick, phase, grid>>
  PROVE  EngineInv'
  <1>0. EngineTypeOK /\ LoopFollowsRoster /\ OneLife /\ RewardsPaidOnce
    BY DEF EngineInv
  <1>1. CASE v \in DOMAIN players /\ TakeDamage(players[v], damage).health > 0
    <2>1. /\ players' = [players EXCEPT ![v] = TakeDamage(players[v], damage)]
          /\ UNCHANGED <<reconnecting, rewardVars, shots, loopVars, elims>>
      BY <1>1 DEF ApplyHit, Survives
    <2>2. players[v] \in Player /\ TakeDamage(players[v], damage) \in Player
      BY <1>0, <1>1, TakeDamageType DEF EngineTypeOK
    <2>3. /\ DOMAIN players' = DOMAIN players
          /\ players' \in [DOMAIN players -> Player]
          /\ \A u \in DOMAIN players : players'[u].health > 0
      BY <1>0, <1>1, <2>1, <2>2 DEF EngineTypeOK, OneLife
    <2>4. EngineTypeOK'
      BY <1>0, <2>1, <2>3 DEF EngineTypeOK, rewardVars, loopVars
    <2>5. LoopFollowsRoster' /\ OneLife' /\ RewardsPaidOnce'
      BY <1>0, <2>1, <2>3 DEF LoopFollowsRoster, OneLife, RewardsPaidOnce, rewardVars, loopVars
    <2> QED
      BY <2>4, <2>5 DEF EngineInv
  <1>2. CASE ~(v \in DOMAIN players /\ TakeDamage(players[v], damage).health > 0)
    BY <1>2, EliminateInv DEF ApplyHit, Survives
  <1> QED
    BY <1>1, <1>2
-----------------------------------------------------------------------------
(* The steps of a tick.                                                    *)

(* TickStart preserves the invariant.                                      *)
LEMMA TickStartInv ==
  ASSUME EngineInv, TickStart
  PROVE  EngineInv'
  <1>0. EngineTypeOK /\ LoopFollowsRoster /\ OneLife /\ TickShape /\ RewardsPaidOnce
    BY DEF EngineInv
  <1>1. tick' \in 0..(SurvivalPeriod - 1)
    <2>1. tick' = (tick + 1) % SurvivalPeriod
      BY DEF TickStart
    <2>2. tick \in 0..(SurvivalPeriod - 1)
      BY <1>0 DEF EngineTypeOK
    <2>3. SurvivalPeriod \in Nat /\ SurvivalPeriod > 0
      BY ArenaAssumption DEF ArenaAssumption
    <2>4. \A n \in Nat : n % SurvivalPeriod \in 0..(SurvivalPeriod - 1)
      BY <2>3
    <2>5. tick + 1 \in Nat
      BY <2>2, <2>3
    <2> QED
      BY <2>1, <2>4, <2>5
  <1>2. EngineTypeOK'
    BY <1>0, <1>1
    DEF TickStart, EngineTypeOK, rosterVars, rewardVars, loopVars, combatVars
  <1>3. LoopFollowsRoster' /\ OneLife' /\ TickShape' /\ RewardsPaidOnce'
    BY <1>0
    DEF TickStart, Idle, LoopFollowsRoster, OneLife, TickShape, RewardsPaidOnce, rosterVars,
        rewardVars, loopVars
  <1> QED
    BY <1>2, <1>3 DEF EngineInv

(* A volley is a sequence of projectiles.                                  *)
LEMMA CreateProjectileType ==
  ASSUME EngineTypeOK, NEW u \in Users, NEW w \in Weapons, CreateProjectile(u, w)
  PROVE  shots' \in [Users -> [Weapons -> Nat]] /\ projectiles' \in Seq(Projectile)
  <1>1. shots \in [Users -> [Weapons -> Nat]] /\ projectiles \in Seq(Projectile)
    BY DEF EngineTypeOK
  <1>2. CASE shots[u][w] >= FireRate[w]
    BY <1>1, <1>2 DEF CreateProjectile
  <1>3. CASE ~(shots[u][w] >= FireRate[w])
    <2> DEFINE volley == [i \in 1..Volley[w] |-> [owner |-> u, weapon |-> w]]
    <2>1. /\ shots' = [shots EXCEPT ![u] = [shots[u] EXCEPT ![w] = shots[u][w] + 1]]
          /\ projectiles' = projectiles \o volley
      BY <1>3 DEF CreateProjectile
    <2>2. shots[u] \in [Weapons -> Nat] /\ shots[u][w] + 1 \in Nat
      BY <1>1
    <2>3. [shots[u] EXCEPT ![w] = shots[u][w] + 1] \in [Weapons -> Nat]
      BY <2>2
    <2>4. Volley[w] \in Nat
      BY ArenaAssumption DEF ArenaAssumption
    <2>5. volley \in [1..Volley[w] -> Projectile]
      BY DEF Projectile
    <2>6. volley \in Seq(Projectile)
      BY <2>4, <2>5
    <2> HIDE DEF volley
    <2> QED
      BY <1>1, <2>1, <2>3, <2>6
  <1> QED
    BY <1>2, <1>3

(* ProcessInput preserves the invariant.                                   *)
LEMMA ProcessInputInv ==
  ASSUME EngineInv, ProcessInput
  PROVE  EngineInv'
  <1>0. EngineTypeOK /\ LoopFollowsRoster /\ OneLife /\ TickShape /\ RewardsPaidOnce
    BY DEF EngineInv
  <1> DEFINE u == Head(inputQueue).user
             command == Head(inputQueue).command
  <1>1. /\ Head(inputQueue) \in [user: Users, command: Commands]
        /\ inputQueue' \in Seq([user: Users, command: Commands])
    <2> DEFINE Input == [user: Users, command: Commands]
    <2>1. inputQueue \in Seq(Input) /\ inputQueue # <<>> /\ inputQueue' = Tail(inputQueue)
      BY <1>0 DEF ProcessInput, EngineTypeOK
    <2> HIDE DEF Input
    <2>2. Head(inputQueue) \in Input /\ Tail(inputQueue) \in Seq(Input)
      BY <2>1
    <2> QED
      BY <2>1, <2>2 DEF Input
  <1>2. u \in Users
    BY <1>1
  <1>3. /\ players' = IF u \in DOMAIN players /\ command = "activateShield"
                      THEN [players EXCEPT ![u].shield = MaxShield] ELSE players
        /\ IF u \in DOMAIN players /\ command \in Weapons
           THEN CreateProjectile(u, command)
           ELSE UNCHANGED <<shots, projectiles>>
        /\ UNCHANGED <<reconnecting, rewardVars, loopVars, tickVars>>
    BY DEF ProcessInput, ShieldActivated
  <1> HIDE DEF u, command
  <1>4. /\ DOMAIN players' = DOMAIN players
        /\ players' \in [DOMAIN players -> Player]
        /\ \A y \in DOMAIN players : players'[y].health > 0
    <2>1. CASE u \in DOMAIN players /\ command = "activateShield"
      <3> DEFINE shielded == [players[u] EXCEPT !.shield = MaxShield]
      <3>1. players[u] \in Player /\ players[u].health > 0
        BY <1>0, <2>1 DEF EngineTypeOK, OneLife
      <3>2. shielded \in Player /\ shielded.health > 0
        BY <3>1, ArenaAssumption DEF ArenaAssumption, Player
      <3>3. players' = [players EXCEPT ![u] = shielded]
        BY <1>3, <2>1
      <3> QED
        BY <1>0, <3>2, <3>3 DEF EngineTypeOK, OneLife
    <2>2. CASE ~(u \in DOMAIN players /\ command = "activateShield")
      BY <1>0, <1>3, <2>2 DEF EngineTypeOK, OneLife
    <2> QED
      BY <2>1, <2>2
  <1>5. shots' \in [Users -> [Weapons -> Nat]] /\ projectiles' \in Seq(Projectile)
    <2>1. CASE u \in DOMAIN players /\ command \in Weapons
      BY <1>0, <1>2, <1>3, <2>1, CreateProjectileType
    <2>2. CASE ~(u \in DOMAIN players /\ command \in Weapons)
      BY <1>0, <1>3, <2>2 DEF EngineTypeOK
    <2> QED
      BY <2>1, <2>2
  <1>6. EngineTypeOK'
    BY <1>0, <1>1, <1>3, <1>4, <1>5 DEF EngineTypeOK, rewardVars, loopVars, tickVars
  <1>7. LoopFollowsRoster' /\ OneLife' /\ TickShape' /\ RewardsPaidOnce'
    BY <1>0, <1>3, <1>4
    DEF LoopFollowsRoster, OneLife, TickShape, RewardsPaidOnce, rewardVars, loopVars, tickVars
  <1> QED
    BY <1>6, <1>7 DEF EngineInv

(* StartProjectiles preserves the invariant.                               *)
LEMMA StartProjectilesInv ==
  ASSUME EngineInv, StartProjectiles
  PROVE  EngineInv'
  <1>0. EngineTypeOK /\ LoopFollowsRoster /\ OneLife /\ TickShape /\ RewardsPaidOnce
    BY DEF EngineInv
  <1>1. blast = {} /\ blast' = {} /\ phase' = "projectiles"
    BY <1>0 DEF StartProjectiles, TickShape
  <1>2. EngineTypeOK'
    BY <1>0, <1>1 DEF StartProjectiles, EngineTypeOK, rosterVars, rewardVars, loopVars
  <1>3. LoopFollowsRoster' /\ OneLife' /\ RewardsPaidOnce'
    BY <1>0
    DEF StartProjectiles, LoopFollowsRoster, OneLife, RewardsPaidOnce, rosterVars, rewardVars,
        loopVars
  <1>4. TickShape'
    BY <1>1 DEF TickShape
  <1> QED
    BY <1>2, <1>3, <1>4 DEF EngineInv

(* The projectile whose turn it is.                                        *)
LEMMA DueFacts ==
  ASSUME EngineTypeOK, pending # <<>>
  PROVE  /\ Head(pending) \in Projectile /\ Tail(pending) \in Seq(Projectile)
         /\ Damage[Head(pending).weapon] \in Nat
  <1>1. Head(pending) \in Projectile /\ Tail(pending) \in Seq(Projectile)
    BY DEF EngineTypeOK
  <1>2. Head(pending).weapon \in Weapons
    BY <1>1 DEF Projectile
  <1> QED
    BY <1>1, <1>2, ArenaAssumption DEF ArenaAssumption

(* ProjectileFlies preserves the invariant.                                *)
LEMMA ProjectileFliesInv ==
  ASSUME EngineInv, ProjectileFlies
  PROVE  EngineInv'
  <1>0. EngineTypeOK /\ LoopFollowsRoster /\ OneLife /\ TickShape /\ RewardsPaidOnce
    BY DEF EngineInv
  <1>1. pending' \in Seq(Projectile) /\ projectiles' \in Seq(Projectile)
    BY <1>0, DueFacts DEF ProjectileFlies, Due, EngineTypeOK
  <1>2. EngineTypeOK'
    BY <1>0, <1>1 DEF ProjectileFlies, EngineTypeOK, rosterVars, rewardVars, loopVars
  <1>3. LoopFollowsRoster' /\ OneLife' /\ RewardsPaidOnce'
    BY <1>0
    DEF ProjectileFlies, LoopFollowsRoster, OneLife, RewardsPaidOnce, rosterVars, rewardVars,
        loopVars
  <1>4. TickShape'
    BY DEF ProjectileFlies, Due, TickShape
  <1> QED
    BY <1>2, <1>3, <1>4 DEF EngineInv

(* ProjectileStops preserves the invariant.                                *)
LEMMA ProjectileStopsInv ==
  ASSUME EngineInv, ProjectileStops
  PROVE  EngineInv'
  <1>0. EngineTypeOK /\ LoopFollowsRoster /\ OneLife /\ TickShape /\ RewardsPaidOnce
    BY DEF EngineInv
  <1>1. pending' \in Seq(Projectile)
    BY <1>0, DueFacts DEF ProjectileStops, Due
  <1>2. EngineTypeOK'
    BY <1>0, <1>1
    DEF ProjectileStops, EngineTypeOK, rosterVars, rewardVars, loopVars, combatVars
  <1>3. LoopFollowsRoster' /\ OneLife' /\ RewardsPaidOnce'
    BY <1>0
    DEF ProjectileStops, LoopFollowsRoster, OneLife, RewardsPaidOnce, rosterVars, rewardVars,
        loopVars
  <1>4. TickShape'
    BY DEF ProjectileStops, Due, TickShape
  <1> QED
    BY <1>2, <1>3, <1>4 DEF EngineInv

(* ProjectileHits preserves the invariant.                                 *)
LEMMA ProjectileHitsInv ==
  ASSUME EngineInv, NEW v \in Users, ProjectileHits(v)
  PROVE  EngineInv'
  <1>0. EngineTypeOK
    BY DEF EngineInv
  <1>1. /\ ApplyHit(v, Head(pending).owner, Damage[Head(pending).weapon])
        /\ Damage[Head(pending).weapon] \in Nat
        /\ pending' \in Seq(Projectile)
    BY <1>0, DueFacts DEF ProjectileHits, Due
  <1>2. blast' = {} /\ blast' \subseteq Users /\ TickShape'
    BY DEF ProjectileHits, Due, TickShape
  <1>3. UNCHANGED <<inputQueue, projectiles, tick, phase, grid>>
    BY DEF ProjectileHits
  <1> QED
    BY <1>1, <1>2, <1>3, ApplyHitInv

(* RocketExplodes preserves the invariant.                                 *)
LEMMA RocketExplodesInv ==
  ASSUME EngineInv, NEW victims \in SUBSET Users, RocketExplodes(victims)
  PROVE  EngineInv'
  <1>0. EngineTypeOK /\ LoopFollowsRoster /\ OneLife /\ TickShape /\ RewardsPaidOnce
    BY DEF EngineInv
  <1>1. pending' \in Seq(Projectile)
    BY <1>0, DueFacts DEF RocketExplodes, Due, EngineTypeOK
  <1>2. EngineTypeOK'
    BY <1>0, <1>1
    DEF RocketExplodes, EngineTypeOK, rosterVars, rewardVars, loopVars, combatVars
  <1>3. LoopFollowsRoster' /\ OneLife' /\ RewardsPaidOnce'
    BY <1>0
    DEF RocketExplodes, LoopFollowsRoster, OneLife, RewardsPaidOnce, rosterVars, rewardVars,
        loopVars
  <1>4. TickShape'
    BY DEF RocketExplodes, Due, TickShape
  <1> QED
    BY <1>2, <1>3, <1>4 DEF EngineInv

(* BlastHits preserves the invariant.                                      *)
LEMMA BlastHitsInv ==
  ASSUME EngineInv, NEW v \in Users, BlastHits(v)
  PROVE  EngineInv'
  <1>0. EngineTypeOK /\ TickShape
    BY DEF EngineInv
  <1>1. blast # {} /\ pending # <<>> /\ Head(pending).weapon = "rocket"
    BY <1>0 DEF BlastHits, TickShape
  <1>2. /\ ApplyHit(v, Head(pending).owner, Damage["rocket"])
        /\ Damage["rocket"] \in Nat
        /\ pending' \in Seq(Projectile)
    BY <1>0, <1>1, DueFacts DEF BlastHits, EngineTypeOK
  <1>3. blast' \subseteq Users /\ TickShape'
    BY <1>0, <1>1 DEF BlastHits, TickShape, EngineTypeOK
  <1>4. UNCHANGED <<inputQueue, projectiles, tick, phase, grid>>
    BY DEF BlastHits
  <1> QED
    BY <1>2, <1>3, <1>4, ApplyHitInv

(* TickEnd preserves the invariant.                                        *)
LEMMA TickEndInv ==
  ASSUME EngineInv, TickEnd
  PROVE  EngineInv'
  <1>0. EngineTypeOK /\ LoopFollowsRoster /\ OneLife /\ TickShape /\ RewardsPaidOnce
    BY DEF EngineInv
  <1>1. \A u : Owed(u) \subseteq RewardKinds /\ \A r \in Owed(u) : r \notin badges[u]
    BY DEF Owed, SurvivalRewards, RewardKinds
  <1>2. /\ badges' = [u \in DOMAIN badges |-> badges[u] \cup Owed(u)]
        /\ awards' = [u \in Users |-> [r \in RewardKinds |->
                        IF u \in DOMAIN badges /\ r \in Owed(u)
                        THEN Least(2, awards[u][r] + 1) ELSE awards[u][r]]]
    BY DEF TickEnd
  <1>3. /\ DOMAIN badges' = DOMAIN badges
        /\ badges' \in [DOMAIN badges -> SUBSET RewardKinds]
    BY <1>0, <1>1, <1>2 DEF EngineTypeOK
  <1>4. \A u \in Users, r \in RewardKinds :
          awards'[u][r] = IF u \in DOMAIN badges' /\ r \in badges'[u] THEN 1 ELSE 0
    <2> SUFFICES ASSUME NEW u \in Users, NEW r \in RewardKinds
                 PROVE  awards'[u][r] = IF u \in DOMAIN badges' /\ r \in badges'[u] THEN 1 ELSE 0
      OBVIOUS
    <2>1. awards[u][r] = IF u \in DOMAIN badges /\ r \in badges[u] THEN 1 ELSE 0
      BY <1>0 DEF RewardsPaidOnce
    <2>2. awards'[u][r] = IF u \in DOMAIN badges /\ r \in Owed(u)
                          THEN Least(2, awards[u][r] + 1) ELSE awards[u][r]
      BY <1>2
    <2> QED
      BY <1>1, <1>2, <2>1, <2>2 DEF Least
  <1>5. awards' \in [Users -> [RewardKinds -> 0..2]]
    <2>1. \A u \in Users, r \in RewardKinds : awards'[u][r] \in 0..2
      BY <1>4
    <2> QED
      BY <1>2, <2>1
  <1>6. EngineTypeOK'
    BY <1>0, <1>3, <1>5
    DEF TickEnd, EngineTypeOK, rosterVars, loopVars, combatVars
  <1>7. LoopFollowsRoster' /\ OneLife' /\ TickShape'
    BY <1>0 DEF TickEnd, LoopFollowsRoster, OneLife, TickShape, rosterVars, loopVars
  <1> QED
    BY <1>4, <1>6, <1>7 DEF EngineInv, RewardsPaidOnce
-----------------------------------------------------------------------------
(* Every step of a tick preserves the invariant.                           *)
LEMMA TickStepInv ==
  ASSUME EngineInv, TickStep
  PROVE  EngineInv'
  BY TickStartInv, ProcessInputInv, StartProjectilesInv, ProjectileFliesInv,
     ProjectileStopsInv, ProjectileHitsInv, RocketExplodesInv, BlastHitsInv, TickEndInv
  DEF TickStep

(* Every step of the engine preserves the invariant.                       *)
LEMMA EngineNextInv ==
  ASSUME EngineInv, [EngineNext]_engineVars
  PROVE  EngineInv'
  <1>1. CASE Calls
    BY <1>1, AddPlayerInv, RemovePlayerInv, MarkDisconnectedInv, HandlePlayerInputInv,
       CollectItemInv DEF Calls
  <1>2. CASE TickStep
    BY <1>2, TickStepInv
  <1>3. CASE Clocks
    BY <1>3, ManagePickupsInv, ElapseInv, ShotExpiresInv DEF Clocks
  <1>4. CASE UNCHANGED engineVars
    BY <1>4
    DEF EngineInv, EngineTypeOK, LoopFollowsRoster, OneLife, TickShape, RewardsPaidOnce,
        engineVars, rosterVars, rewardVars, loopVars, combatVars, tickVars
  <1> QED
    BY <1>1, <1>2, <1>3, <1>4 DEF EngineNext

(* The engine without its scheduling, as it runs under the gateway too.    *)
EngineSafety == EngineInit /\ [][EngineNext]_engineVars

(* The inductive invariant needs no fairness.                              *)
LEMMA SafetyInvariant == EngineSafety => []EngineInv
  <1>1. EngineInv /\ [EngineNext]_engineVars => EngineInv'
    BY EngineNextInv
  <1> QED
    BY EngineInitInv, <1>1, PTL DEF EngineSafety

(* The inductive invariant of the engine.                                  *)
THEOREM EngineInvariant == EngineSpec => []EngineInv
  BY SafetyInvariant, PTL DEF EngineSpec, EngineSafety

(* Type correctness.                                                       *)
THEOREM EngineTypeCorrect == EngineSpec => []EngineTypeOK
  <1>1. EngineInv => EngineTypeOK
    BY DEF EngineInv
  <1> QED
    BY EngineInvariant, <1>1, PTL

(* startGameLoop and stopGameLoop follow the room: in every reachable      *)
(* state the loop and the pickup timer run iff a player is in the room.    *)
THEOREM LoopFollowsRosterAlways == EngineSpec => []LoopFollowsRoster
  <1>1. EngineInv => LoopFollowsRoster
    BY DEF EngineInv
  <1> QED
    BY EngineInvariant, <1>1, PTL

(* Nobody is in the room and reconnecting at once, nobody in either place  *)
(* is dead.                                                                *)
THEOREM OneLifeAlways == EngineSpec => []OneLife
  <1>1. EngineInv => OneLife
    BY DEF EngineInv
  <1> QED
    BY EngineInvariant, <1>1, PTL

(* Every reward is emitted at most once per user.                          *)
THEOREM RewardsPaidOnceAlways == EngineSpec => []RewardsPaidOnce
  <1>1. EngineInv => RewardsPaidOnce
    BY DEF EngineInv
  <1> QED
    BY EngineInvariant, <1>1, PTL
-----------------------------------------------------------------------------
(* Pickups.                                                                *)

Spread(boxes) == \A b, c \in boxes : b # c => <<b.pos, c.pos>> \notin TooClose

(* Boxes that keep their distance are on different positions, so there are *)
(* finitely many of them.                                                  *)
LEMMA SpreadIsFinite ==
  ASSUME NEW boxes, boxes \subseteq Box, Spread(boxes)
  PROVE  IsFiniteSet(boxes)
  <1> DEFINE pos == [b \in boxes |-> b.pos]
  <1>1. pos \in [boxes -> Positions]
    BY DEF Box
  <1>2. \A b, c \in boxes : pos[b] = pos[c] => b = c
    BY <1>1, ArenaAssumption DEF Spread, ArenaAssumption
  <1>3. pos \in Injection(boxes, Positions)
    BY <1>1, <1>2 DEF Injection, IsInjective
  <1> QED
    BY <1>3, FS_Injection, ArenaAssumption DEF ArenaAssumption

(* Fewer boxes keep their distance and their limit.                        *)
LEMMA FewerBoxes ==
  ASSUME EngineTypeOK, PickupsSpread, NEW boxes, boxes \subseteq pickups
  PROVE  Spread(boxes) /\ Cardinality(boxes) <= MaxBoxes
  <1>1. IsFiniteSet(pickups)
    BY SpreadIsFinite DEF EngineTypeOK, PickupsSpread, Spread
  <1>2. /\ Cardinality(boxes) \in Nat /\ Cardinality(pickups) \in Nat
        /\ Cardinality(boxes) <= Cardinality(pickups)
    BY <1>1, FS_Subset, FS_CardinalityType
  <1> QED
    BY <1>2, ArenaAssumption DEF PickupsSpread, Spread, ArenaAssumption

(* New boxes are put clear of each other and of those that are left.       *)
LEMMA ManagePickupsSpread ==
  ASSUME EngineTypeOK, PickupsSpread, ManagePickups
  PROVE  PickupsSpread'
  <1> DEFINE alive == {b \in pickups : b.age < PickupLife}
             Fresh == [pos: Positions, type: PickupTypes, age: {0}]
  <1>1. PICK new \in SUBSET Fresh :
          /\ Cardinality(alive \cup new) <= MaxBoxes \/ new = {}
          /\ \A b \in new : Clear(b.pos, alive \cup (new \ {b}))
          /\ pickups' = alive \cup new
    BY DEF ManagePickups
  <1>2. Spread(alive) /\ Cardinality(alive) <= MaxBoxes
    <2>1. alive \subseteq pickups
      OBVIOUS
    <2> QED
      BY <2>1, FewerBoxes
  <1>3. \A b \in alive \cup new : b.pos \in Positions
    BY DEF EngineTypeOK, Box
  <1>4. ASSUME NEW b \in alive \cup new, NEW c \in alive \cup new, b # c
        PROVE  <<b.pos, c.pos>> \notin TooClose
    <2>1. CASE b \in new
      BY <1>1, <1>4, <2>1 DEF Clear
    <2>2. CASE c \in new
      <3>1. <<c.pos, b.pos>> \notin TooClose
        BY <1>1, <1>4, <2>2 DEF Clear
      <3> QED
        BY <1>3, <3>1, ArenaAssumption DEF ArenaAssumption
    <2>3. CASE b \in alive /\ c \in alive
      BY <1>2, <1>4, <2>3 DEF Spread
    <2> QED
      BY <2>1, <2>2, <2>3
  <1>5. Cardinality(alive \cup new) <= MaxBoxes
    <2>1. CASE new = {}
      <3>1. alive \cup new = alive
        BY <2>1
      <3> QED
        BY <1>2, <3>1
    <2> QED
      BY <1>1, <2>1
  <1> QED
    BY <1>1, <1>4, <1>5 DEF PickupsSpread

(* Boxes grow older where they are.                                        *)
LEMMA ElapseSpread ==
  ASSUME EngineTypeOK, PickupsSpread, Elapse
  PROVE  PickupsSpread'
  <1> DEFINE aged(b) == [b EXCEPT !.age = Least(PickupLife, @ + 1)]
             aging == [b \in pickups |-> aged(b)]
  <1>1. pickups' = {aged(b) : b \in pickups}
    BY DEF Elapse
  <1>2. \A b \in pickups : aged(b).pos = b.pos
    BY DEF EngineTypeOK, Box
  <1>3. IsFiniteSet(pickups)
    BY SpreadIsFinite DEF EngineTypeOK, PickupsSpread, Spread
  <1>4. aging \in Surjection(pickups, pickups')
    BY <1>1 DEF Surjection
  <1>5. /\ Cardinality(pickups') \in Nat /\ Cardinality(pickups) \in Nat
        /\ Cardinality(pickups') <= Cardinality(pickups)
    BY <1>3, <1>4, FS_Surjection, FS_CardinalityType
  <1>6. Cardinality(pickups') <= MaxBoxes
    BY <1>5, ArenaAssumption DEF PickupsSpread, ArenaAssumption
  <1>7. \A b, c \in pickups' : b # c => <<b.pos, c.pos>> \notin TooClose
    <2> SUFFICES ASSUME NEW b \in pickups', NEW c \in pickups', b # c
                 PROVE  <<b.pos, c.pos>> \notin TooClose
      OBVIOUS
    <2>1. PICK b0 \in pickups, c0 \in pickups : b = aged(b0) /\ c = aged(c0)
      BY <1>1
    <2>2. b.pos = b0.pos /\ c.pos = c0.pos
      BY <1>2, <2>1
    <2>3. b0 # c0
      BY <2>1
    <2> QED
      BY <2>2, <2>3 DEF PickupsSpread
  <1> QED
    BY <1>6, <1>7 DEF PickupsSpread

(* What else happens takes boxes away or leaves them alone.                *)
LEMMA PickupsStep ==
  ASSUME EngineNext, ~ManagePickups, ~Elapse
  PROVE  pickups' \subseteq pickups
  <1>1. ASSUME NEW v, NEW a, NEW damage, ApplyHit(v, a, damage) PROVE pickups' \subseteq pickups
    BY <1>1 DEF ApplyHit, Eliminate, StopGameLoopIfEmpty, StopGameLoop, loopVars
  <1>2. CASE TickStep
    BY <1>1, <1>2
    DEF TickStep, TickStart, ProcessInput, StartProjectiles, ProjectileFlies, ProjectileStops,
        ProjectileHits, RocketExplodes, BlastHits, TickEnd, loopVars
  <1>3. CASE Calls
    BY <1>3
    DEF Calls, AddPlayer, RemovePlayer, MarkDisconnected, HandlePlayerInput, CollectItem,
        StartGameLoop, StopGameLoopIfEmpty, StopGameLoop, loopVars
  <1>4. ASSUME NEW u \in Users, NEW w \in Weapons, ShotExpires(u, w)
        PROVE  pickups' \subseteq pickups
    BY <1>4 DEF ShotExpires, loopVars
  <1> QED
    BY <1>2, <1>3, <1>4 DEF EngineNext, Clocks

(* The boxes stay few and apart, without any fairness.                     *)
LEMMA SafetyPickups == EngineSafety => []PickupsSpread
  <1>1. EngineInit => PickupsSpread
    BY FS_EmptySet, ArenaAssumption DEF EngineInit, PickupsSpread, ArenaAssumption
  <1>2. EngineInv /\ PickupsSpread /\ [EngineNext]_engineVars => PickupsSpread'
    <2> SUFFICES ASSUME EngineInv, PickupsSpread, [EngineNext]_engineVars PROVE PickupsSpread'
      OBVIOUS
    <2>1. EngineTypeOK
      BY DEF EngineInv
    <2>2. CASE ManagePickups \/ Elapse
      BY <2>1, <2>2, ManagePickupsSpread, ElapseSpread
    <2>3. CASE ~ManagePickups /\ ~Elapse
      <3>1. pickups' \subseteq pickups
        BY <2>3, PickupsStep DEF engineVars, loopVars
      <3> QED
        BY <2>1, <3>1, FewerBoxes DEF PickupsSpread, Spread
    <2> QED
      BY <2>2, <2>3
  <1> QED
    BY <1>1, <1>2, SafetyInvariant, PTL DEF EngineSafety

(* There are never more than MAX_BOXES boxes, and no two of them nearer    *)
(* than MIN_BOX_SPACING.                                                   *)
THEOREM PickupsSpreadAlways == EngineSpec => []PickupsSpread
  BY SafetyPickups, PTL DEF EngineSpec, EngineSafety
-----------------------------------------------------------------------------
(* Only addPlayer brings somebody into the room.                           *)
LEMMA OnlyJoiningAdds ==
  ASSUME [EngineNext]_engineVars, NEW u \in DOMAIN players' \ DOMAIN players
  PROVE  \E s \in Sockets : AddPlayer(u, s)
  <1>1. ASSUME NEW v, NEW a, NEW damage, ApplyHit(v, a, damage) PROVE FALSE
    BY <1>1 DEF ApplyHit, Eliminate
  <1>2. ~TickStep
    BY <1>1
    DEF TickStep, TickStart, ProcessInput, StartProjectiles, ProjectileFlies, ProjectileStops,
        ProjectileHits, RocketExplodes, BlastHits, TickEnd, rosterVars
  <1>3. ~Clocks
    BY DEF Clocks, ManagePickups, Elapse, ShotExpires, rosterVars
  <1>4. ASSUME NEW v \in Users
        PROVE  /\ ~RemovePlayer(v) /\ ~MarkDisconnected(v)
               /\ \A command \in Commands : ~HandlePlayerInput(v, command)
               /\ \A box \in pickups : ~CollectItem(v, box)
    BY DEF RemovePlayer, MarkDisconnected, HandlePlayerInput, CollectItem, Without, Restrict,
           rosterVars
  <1>5. ASSUME NEW v \in Users, NEW s \in Sockets, AddPlayer(v, s) PROVE u = v
    BY <1>5 DEF AddPlayer, With
  <1> QED
    BY <1>2, <1>3, <1>4, <1>5 DEF EngineNext, Calls, engineVars, rosterVars

(* Each way into the room, without any fairness.                           *)
LEMMA SafetyScore == EngineSafety => ScoreNeedsWindow
  <1> DEFINE Kept(u) == players'[u].kills > 0 => /\ u \in DOMAIN reconnecting
                                                 /\ reconnecting[u].left > 0
                                                 /\ players'[u].kills = reconnecting[u].state.kills
  <1>1. ASSUME EngineInv, [EngineNext]_engineVars, NEW u \in DOMAIN players' \ DOMAIN players
        PROVE  Kept(u)
    <2>1. PICK s \in Sockets : AddPlayer(u, s)
      BY <1>1, OnlyJoiningAdds
    <2>2. players'[u] = Joining(u, s)
      BY <2>1 DEF AddPlayer, With
    <2>3. CASE CanRestore(u)
      <3>1. u \in DOMAIN reconnecting /\ reconnecting[u].left > 0
        BY <2>3 DEF CanRestore
      <3>2. reconnecting[u].state \in Player
        BY <1>1, <3>1 DEF EngineInv, EngineTypeOK
      <3>3. players'[u].kills = reconnecting[u].state.kills
        BY <2>2, <2>3, <3>2 DEF Joining, Player
      <3> QED
        BY <3>1, <3>3
    <2>4. CASE ~CanRestore(u)
      BY <2>2, <2>4 DEF Joining, FreshPlayer
    <2> QED
      BY <2>3, <2>4
  <1>2. EngineInv /\ [EngineNext]_engineVars
          => [\A u \in DOMAIN players' \ DOMAIN players : Kept(u)]_engineVars
    BY <1>1
  <1> QED
    BY <1>2, SafetyInvariant, PTL DEF EngineSafety, ScoreNeedsWindow

(* A score comes back into the room only through an open window.           *)
THEOREM ScoreNeedsWindowAlways == EngineSpec => ScoreNeedsWindow
  BY SafetyScore, PTL DEF EngineSpec, EngineSafety
=============================================================================
