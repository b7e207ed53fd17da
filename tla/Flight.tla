------------------------------- MODULE Flight -------------------------------
(***************************************************************************)
(* Where players and projectiles of the arena are: spawning, movement and  *)
(* cover (collision.service.ts, cover-structures.ts), the sub-steps of a   *)
(* projectile and the grid it looks its victims up in                      *)
(* (shooter-engine.service.ts, spatial-hash.ts), and the pool projectiles  *)
(* are taken from (object-pool.ts).  What a hit does to health, kills and  *)
(* rewards is ShooterEngine's; here a hit may be fatal or not.             *)
(*                                                                         *)
(* A pixel has Grain grains, and coordinates are whole numbers of them:    *)
(* the finer the grain, the closer to the numbers of the code.  A player   *)
(* who is pushed off a corner of a structure lands on any of the points of *)
(* this raster next to the one that the code computes.  Projectiles fly in *)
(* directions in which they stay on it; the pellets of a shotgun, whose    *)
(* angles have no such directions, are left out.                           *)
(***************************************************************************)
EXTENDS Integers, FiniteSets, Sequences, JsMap

CONSTANTS
  Grain,      \* grains per pixel
  Users,
  Ids,        \* uuids of projectiles (bound on projectiles in the room)
  Objects,    \* projectile objects, pooled or not (bound)
  PoolSize,   \* objects made in advance
  Spots,      \* points generateRespawnPosition may draw
  Moves,      \* <<dx, dy>> of a move, in grains: any two numbers
  Aims,       \* <<a, b, c>>: the direction (a/c, b/c), a^2 + b^2 = c^2
  Arms,       \* weapon -> speed, in pixels
  InputBound, \* moves, shots and lost connections (bound)
  TickBound,  \* ticks (bound)
  None

Square(a) == a * a

(* Lengths, in grains.                                                     *)
PLAYER_RADIUS == 20 * Grain
PROJECTILE_RADIUS == 6 * Grain
Reach == PLAYER_RADIUS + PROJECTILE_RADIUS
BlastReach == 120 * Grain + PLAYER_RADIUS      \* explosionRadius of the rocket
MaxSpeed == 50 * Grain                          \* maxSpeedViolation
Width == 1600 * Grain
Height == 1200 * Grain
CellSize == 80 * Grain
PlayerSpeed == 5                                \* a factor, not a length

(* Spawning draws points at a margin from the border; the direction of a   *)
(* shot is normalised, (1, 0) if there is none.                            *)
Margin == PLAYER_RADIUS + 10 * Grain

ASSUME FlightAssumption ==
  /\ Grain \in Nat \ {0}
  /\ Ids # {} /\ IsFiniteSet(Objects) /\ PoolSize \in Nat
  /\ Spots \subseteq [x : Margin..Width - Margin, y : Margin..Height - Margin]
  /\ Moves \subseteq Int \X Int
  /\ Aims \subseteq Int \X Int \X (Nat \ {0})
  /\ \A aim \in Aims : Square(aim[1]) + Square(aim[2]) = Square(aim[3])
  /\ Arms \in [DOMAIN Arms -> Nat \ {0}]
  /\ InputBound \in Nat /\ TickBound \in Nat

VARIABLES
  players,      \* room.players: user -> position and velocity
  away,         \* room.reconnecting: the same, as it was when the socket closed
  projectiles,  \* room.projectiles: id -> object
  bodies,       \* the fields of the objects in the room
  pool,         \* object -> how often it is on the stack of projectilePool
  phase,        \* where in tick() the engine is
  grid,         \* playerGrid: user -> position, filled once per tick
  pending,      \* projectiles the loop has not come to
  current,      \* the projectile in flight
  toRemoveIds,
  blast,        \* history: the explosion of the last step
  inputs, ticks \* counters (bounds)

store == <<projectiles, bodies, pool>>
loop == <<phase, grid, pending, current, toRemoveIds, blast>>
flightVars == <<players, away, store, loop, inputs, ticks>>
-----------------------------------------------------------------------------
Box(bx, by, w, h) ==
  [x |-> bx * Grain, y |-> by * Grain, width |-> w * Grain, height |-> h * Grain]

COVER_STRUCTURES ==
  << Box(720, 540, 80, 80),   Box(860, 490, 120, 40),  Box(760, 660, 40, 100),
     Box(900, 620, 60, 60),   Box(180, 130, 100, 40),  Box(320, 250, 50, 50),
     Box(100, 320, 40, 120),  Box(1280, 110, 90, 50),  Box(1150, 270, 50, 50),
     Box(1420, 200, 40, 130), Box(150, 900, 110, 40),  Box(310, 1010, 50, 50),
     Box(90, 780, 40, 100),   Box(1300, 950, 100, 40), Box(1180, 1050, 60, 60),
     Box(1450, 840, 40, 110), Box(500, 580, 150, 35),  Box(1050, 560, 35, 150),
     Box(600, 900, 80, 40),   Box(1000, 280, 40, 80) >>

Cover == {COVER_STRUCTURES[i] : i \in DOMAIN COVER_STRUCTURES}

Point(a, b) == [x |-> a, y |-> b]
DistSq(p, q) == Square(p.x - q.x) + Square(p.y - q.y)
Between(low, a, high) == IF a < low THEN low ELSE IF a > high THEN high ELSE a

(* The point of a structure that is closest to p.                          *)
Closest(p, s) ==
  Point(Between(s.x, p.x, s.x + s.width), Between(s.y, p.y, s.y + s.height))

Collides(p, s, radius) == DistSq(p, Closest(p, s)) <= Square(radius)
-----------------------------------------------------------------------------
(* Movement of players.                                                    *)

(* The grains next to k * PLAYER_RADIUS / sqrt(d), or that number itself.  *)
Rounded(k, d) ==
  LET near == {n \in 0..PLAYER_RADIUS :
                 /\ n = 0 \/ Square(n - 1) * d < Square(PLAYER_RADIUS * k)
                 /\ Square(PLAYER_RADIUS * k) < Square(n + 1) * d}
  IN  IF k < 0 THEN {-n : n \in near} ELSE near

(* Whoever is in reach of a structure is pushed to its edge; a centre      *)
(* inside of it has no direction to be pushed in.                          *)
PushedOut(p, s) ==
  LET c == Closest(p, s)
      d == DistSq(p, c)
  IN  IF d = 0 \/ d >= Square(PLAYER_RADIUS) THEN {p}
      ELSE {Point(c.x + m, c.y + n) : m \in Rounded(p.x - c.x, d), n \in Rounded(p.y - c.y, d)}

Clamped(p) ==
  Point(Between(PLAYER_RADIUS, p.x, Width - PLAYER_RADIUS),
        Between(PLAYER_RADIUS, p.y, Height - PLAYER_RADIUS))

(* Mutant: the push is left to the next tick. *)
ClampedOnly(p) == {Clamped(p)}

(* One structure after the other, each from where the last one left them.  *)
After(p) ==
  LET after[i \in 0..Len(COVER_STRUCTURES)] ==
        IF i = 0 THEN {Clamped(p)}
        ELSE UNION {PushedOut(q, COVER_STRUCTURES[i]) : q \in after[i - 1]}
  IN  after

Resolved(p) == After(p)[Len(COVER_STRUCTURES)]

(* Whoever is too fast is stopped.                                         *)
Moved(q) ==
  LET fast == Square(q.vx) + Square(q.vy) > Square(MaxSpeed)
      vx == IF fast THEN 0 ELSE q.vx
      vy == IF fast THEN 0 ELSE q.vy
  IN  {[x |-> p.x, y |-> p.y, vx |-> vx, vy |-> vy] :
         p \in Resolved(Point(q.x + vx, q.y + vy))}

(* generateRespawnPosition: away from cover and from the others, or, when  *)
(* fifty draws were in vain, the corner.                                   *)
FreeSpots ==
  {p \in Spots :
     /\ \A s \in Cover : ~Collides(p, s, PLAYER_RADIUS + 15 * Grain)
     /\ \A u \in DOMAIN players : DistSq(p, players[u]) >= Square(3 * PLAYER_RADIUS)}

(* addPlayer: at a spawn point, and what was kept is forgotten, or, in     *)
(* time, with the position and the velocity of before.                     *)
Spawn(u) ==
  /\ phase = "idle" /\ u \notin DOMAIN players
  /\ \E p \in FreeSpots \cup {Point(Margin, Margin)} :
       players' = With(players, u, [x |-> p.x, y |-> p.y, vx |-> 0, vy |-> 0])
  /\ away' = Without(away, u)
  /\ UNCHANGED <<store, loop, inputs, ticks>>

Restore(u) ==
  /\ phase = "idle" /\ u \notin DOMAIN players /\ u \in DOMAIN away
  /\ players' = With(players, u, away[u])
  /\ away' = Without(away, u)
  /\ UNCHANGED <<store, loop, inputs, ticks>>

Counted == inputs < InputBound /\ inputs' = inputs + 1

(* removePlayer, and markDisconnected, which keeps the state.              *)
Leave(u) ==
  /\ phase = "idle" /\ u \in DOMAIN players
  /\ players' = Without(players, u)
  /\ UNCHANGED <<away, store, loop, inputs, ticks>>

Disconnect(u) ==
  /\ phase = "idle" /\ u \in DOMAIN players /\ Counted
  /\ away' = With(away, u, players[u])
  /\ players' = Without(players, u)
  /\ UNCHANGED <<store, loop, ticks>>
-----------------------------------------------------------------------------
(* The inputs of a tick.                                                   *)

TickStart ==
  /\ phase = "idle" /\ DOMAIN players # {} /\ ticks < TickBound
  /\ phase' = "inputs" /\ ticks' = ticks + 1
  /\ UNCHANGED <<players, away, store, grid, pending, current, toRemoveIds, blast, inputs>>

NextInput == phase = "inputs" /\ Counted

Move(u, m) ==
  /\ NextInput /\ u \in DOMAIN players
  /\ players' = [players EXCEPT ![u].vx = m[1] * PlayerSpeed, ![u].vy = m[2] * PlayerSpeed]
  /\ UNCHANGED <<away, store, loop, ticks>>

Made == {o \in Objects : pool[o] > 0 \/ \E id \in DOMAIN projectiles : projectiles[id] = o}

(* projectilePool.acquire: from the stack, or made by the factory.         *)
Acquire(o) ==
  \/ pool[o] > 0 /\ pool' = [pool EXCEPT ![o] = @ - 1]
  \/ /\ \A other \in Objects : pool[other] = 0
     /\ o \in Objects \ Made
     /\ UNCHANGED pool

(* Mutant: a projectile jumps to where the tick takes it. *)
OneStep(weapon) == 1

(* max(1, ceil(speed / 10)); the length of a velocity is the weapon's speed. *)
SubSteps(weapon) == (Arms[weapon] + 9) \div 10

Speed(weapon) == Arms[weapon] * Grain

(* All sub-steps in this direction end on the raster.                      *)
Whole(aim, weapon) ==
  \A i \in {1, 2} : (Speed(weapon) * aim[i]) % (aim[3] * SubSteps(weapon)) = 0

(* A shot that the fire rate allows: the projectile starts at the player.  *)
Shoot(u, aim, weapon) ==
  LET speed == Speed(weapon) IN
  /\ NextInput /\ u \in DOMAIN players /\ Whole(aim, weapon)
  /\ \E id \in Ids \ DOMAIN projectiles, o \in Objects :
       /\ Acquire(o)
       /\ projectiles' = With(projectiles, id, o)
       /\ bodies' = With(bodies, o,
            [owner |-> u, weapon |-> weapon, x |-> players[u].x, y |-> players[u].y,
             vx |-> (speed * aim[1]) \div aim[3], vy |-> (speed * aim[2]) \div aim[3]])
  /\ UNCHANGED <<players, away, loop, ticks>>

(* Everybody's next place: which grain each push lands on is open.         *)
Steps ==
  {f \in [DOMAIN players -> UNION {Moved(players[u]) : u \in DOMAIN players}] :
     \A u \in DOMAIN players : f[u] \in Moved(players[u])}

(* updatePlayers, then the grid is filled with the players of the room.    *)
UpdatePlayers ==
  /\ phase = "inputs"
  /\ players' \in Steps
  /\ grid' = [u \in DOMAIN players |-> Point(players'[u].x, players'[u].y)]
  /\ phase' = "projectiles"
  /\ pending' = DOMAIN projectiles
  /\ UNCHANGED <<away, store, current, toRemoveIds, blast, inputs, ticks>>
-----------------------------------------------------------------------------
(* SpatialHashGrid.                                                        *)

(* The cells a circle is entered into, or looked up in.                    *)
Cells(p, radius) ==
  ((p.x - radius) \div CellSize .. (p.x + radius) \div CellSize)
    \X ((p.y - radius) \div CellSize .. (p.y + radius) \div CellSize)

(* Mutant: only the cell of the centre is looked at. *)
QueryCentre(p, radius) ==
  {u \in DOMAIN grid : Cells(grid[u], PLAYER_RADIUS) \cap Cells(p, 0) # {}}

(* insert and query: who shares a cell; `seen' keeps everybody once.       *)
Query(p, radius) ==
  {u \in DOMAIN grid : Cells(grid[u], PLAYER_RADIUS) \cap Cells(p, radius) # {}}

Struck(p, radius) == {u \in Query(p, radius) : DistSq(p, grid[u]) <= Square(radius)}
-----------------------------------------------------------------------------
(* The flight of a projectile.                                             *)

Depart(id) ==
  /\ phase = "projectiles" /\ current = None /\ id \in pending
  /\ LET body == bodies[projectiles[id]] IN
     current' = [id |-> id, from |-> Point(body.x, body.y), at |-> 0, steps |-> SubSteps(body.weapon)]
  /\ pending' = pending \ {id}
  /\ UNCHANGED <<players, away, store, phase, grid, toRemoveIds, blast, inputs, ticks>>

Flying == phase = "projectiles" /\ current # None
Body == bodies[projectiles[current.id]]

(* Where the next sub-step takes it.                                       *)
NextPoint ==
  Point(Body.x + Body.vx \div current.steps, Body.y + Body.vy \div current.steps)

AtBorder(p) ==
  \/ p.x - PROJECTILE_RADIUS <= 0 \/ p.x + PROJECTILE_RADIUS >= Width
  \/ p.y - PROJECTILE_RADIUS <= 0 \/ p.y + PROJECTILE_RADIUS >= Height

AtCover(p) == \E s \in Cover : Collides(p, s, PROJECTILE_RADIUS)

Targets(p) == Struck(p, Reach) \ {Body.owner}

(* The projectile stops; whoever of the victims has no health left is out  *)
(* of the room, but stays in the grid.  A rocket explodes, on its owner    *)
(* too.                                                                    *)
Stops(p, victims) ==
  /\ toRemoveIds' = toRemoveIds \cup {current.id}
  /\ current' = None
  /\ IF Body.weapon = "rocket"
     THEN /\ blast' = [at |-> p, struck |-> Struck(p, BlastReach)]
          /\ \E dead \in SUBSET Struck(p, BlastReach) :
               players' = Restrict(players, DOMAIN players \ dead)
     ELSE /\ UNCHANGED blast
          /\ \E dead \in SUBSET victims :
               players' = Restrict(players, DOMAIN players \ dead)
  /\ UNCHANGED <<away, store, phase, grid, pending, inputs, ticks>>

HitsWall ==
  /\ Flying /\ current.at < current.steps
  /\ AtBorder(NextPoint) \/ AtCover(NextPoint)
  /\ Stops(NextPoint, {})

(* Which of several targets the grid lists first is left open.             *)
HitsPlayer ==
  /\ Flying /\ current.at < current.steps
  /\ ~AtBorder(NextPoint) /\ ~AtCover(NextPoint)
  /\ \E u \in Targets(NextPoint) : Stops(NextPoint, {u})

FliesOn ==
  /\ Flying /\ current.at < current.steps
  /\ ~AtBorder(NextPoint) /\ ~AtCover(NextPoint) /\ Targets(NextPoint) = {}
  /\ bodies' = [bodies EXCEPT ![projectiles[current.id]].x = NextPoint.x,
                              ![projectiles[current.id]].y = NextPoint.y]
  /\ current' = [current EXCEPT !.at = @ + 1]
  /\ UNCHANGED <<players, away, projectiles, pool, phase, grid, pending, toRemoveIds, blast,
                 inputs, ticks>>

Arrives ==
  /\ Flying /\ current.at = current.steps
  /\ current' = None
  /\ UNCHANGED <<players, away, store, phase, grid, pending, toRemoveIds, blast, inputs, ticks>>

(* Mutant: the room goes on holding what the pool gives away again. *)
RoomAsWas == projectiles

RoomWithout == Restrict(projectiles, DOMAIN projectiles \ toRemoveIds)

(* What stopped goes back to the pool.  Nobody reads an object there, and  *)
(* acquire resets it; its fields are forgotten.                            *)
TickEnd ==
  LET released == {projectiles[id] : id \in toRemoveIds} IN
  /\ phase = "projectiles" /\ current = None /\ pending = {}
  /\ projectiles' = RoomWithout
  /\ pool' = [o \in Objects |-> IF o \in released THEN pool[o] + 1 ELSE pool[o]]
  /\ bodies' = Restrict(bodies, DOMAIN bodies \ released)
  /\ phase' = "idle" /\ grid' = <<>> /\ toRemoveIds' = {} /\ blast' = None
  /\ UNCHANGED <<players, away, pending, current, inputs, ticks>>
-----------------------------------------------------------------------------
FlightInit ==
  /\ players = <<>> /\ away = <<>> /\ projectiles = <<>> /\ bodies = <<>>
  /\ \E stock \in SUBSET Objects :
       /\ Cardinality(stock) = PoolSize
       /\ pool = [o \in Objects |-> IF o \in stock THEN 1 ELSE 0]
  /\ phase = "idle" /\ grid = <<>> /\ pending = {} /\ current = None
  /\ toRemoveIds = {} /\ blast = None
  /\ inputs = 0 /\ ticks = 0

Inputs == \E u \in Users :
  \/ Spawn(u) \/ Restore(u) \/ Leave(u) \/ Disconnect(u)
  \/ \E m \in Moves : Move(u, m)
  \/ \E aim \in Aims, weapon \in DOMAIN Arms : Shoot(u, aim, weapon)

FlightNext ==
  \/ Inputs
  \/ TickStart \/ UpdatePlayers
  \/ \E id \in Ids : Depart(id)
  \/ HitsWall \/ HitsPlayer \/ FliesOn \/ Arrives
  \/ TickEnd

FlightSpec == FlightInit /\ [][FlightNext]_flightVars
-----------------------------------------------------------------------------
(* Properties.                                                             *)

Points == [x : Int, y : Int]
Bodies == [owner : Users, weapon : DOMAIN Arms, x : Int, y : Int, vx : Int, vy : Int]
Flights == [id : Ids, from : Points, at : Nat, steps : Nat \ {0}]

Places == [x : Int, y : Int, vx : Int, vy : Int]

(* That the numbers are whole is the raster of the model.                  *)
OnRaster ==
  /\ players \in [DOMAIN players -> Places]
  /\ away \in [DOMAIN away -> Places]

FlightTypeOK ==
  /\ DOMAIN players \subseteq Users /\ DOMAIN away \subseteq Users /\ OnRaster
  /\ DOMAIN players \cap DOMAIN away = {}
  /\ DOMAIN projectiles \subseteq Ids /\ projectiles \in [DOMAIN projectiles -> Objects]
  /\ DOMAIN bodies = {projectiles[id] : id \in DOMAIN projectiles}
  /\ bodies \in [DOMAIN bodies -> Bodies]
  /\ pool \in [Objects -> Nat]
  /\ phase \in {"idle", "inputs", "projectiles"}
  /\ DOMAIN grid \subseteq Users /\ grid \in [DOMAIN grid -> Points]
  /\ pending \subseteq DOMAIN projectiles /\ toRemoveIds \subseteq DOMAIN projectiles
  /\ current # None => current \in Flights
  /\ inputs \in 0..InputBound /\ ticks \in 0..TickBound

(* A projectile does not pass through a player between two of its samples  *)
(* (shooter-engine.service.ts:380-441): as long as it flies, its way in    *)
(* this tick has not led within 24 pixels of anybody of the grid but its   *)
(* owner.  24 is the depth from which steps of 10 cannot miss a circle of  *)
(* 26: 24^2 + 10^2 = 26^2.                                                 *)
Depth == 24 * Grain

Crosses(a, b, p) ==
  LET along == (p.x - a.x) * (b.x - a.x) + (p.y - a.y) * (b.y - a.y)
      across == (p.x - a.x) * (b.y - a.y) - (p.y - a.y) * (b.x - a.x)
  IN  /\ DistSq(a, p) <= DistSq(a, b) + Square(Depth)   \* follows; keeps numbers small
      /\ 0 <= along /\ along <= DistSq(a, b)
      /\ Square(across) <= Square(Depth) * DistSq(a, b)

NoTunnelling ==
  Flying /\ current.at > 0 =>
    \A u \in DOMAIN grid \ {Body.owner} : ~Crosses(current.from, Body, grid[u])

(* An explosion strikes exactly the players of the grid in its reach, also *)
(* those several cells away (spatial-hash.ts:69-91).                       *)
BlastComplete ==
  blast # None =>
    blast.struck = {u \in DOMAIN grid : DistSq(blast.at, grid[u]) <= Square(BlastReach)}

(* An object is on the stack of the pool or flies as one projectile, never *)
(* both and never twice, whatever is fired while others are given back     *)
(* (object-pool.ts:28-39, shooter-engine.service.ts:446-454).              *)
PoolExact ==
  /\ \A o \in Objects : pool[o] \in {0, 1}
  /\ \A id \in DOMAIN projectiles :
       /\ pool[projectiles[id]] = 0
       /\ \A other \in DOMAIN projectiles : projectiles[other] = projectiles[id] => other = id

(* Two structures with room for a player between them, side by side or one *)
(* above the other.                                                        *)
Apart(s, t) ==
  LET room == 2 * PLAYER_RADIUS
  IN  \/ s.x + s.width + room <= t.x \/ t.x + t.width + room <= s.x
      \/ s.y + s.height + room <= t.y \/ t.y + t.height + room <= s.y

(* The push out of a later structure may lead back into these.             *)
Squeezed ==
  {COVER_STRUCTURES[i] : i \in
     {i \in DOMAIN COVER_STRUCTURES : \E j \in i + 1..Len(COVER_STRUCTURES) :
        ~Apart(COVER_STRUCTURES[i], COVER_STRUCTURES[j])}}

InArena(p) ==
  /\ p.x \in PLAYER_RADIUS .. Width - PLAYER_RADIUS
  /\ p.y \in PLAYER_RADIUS .. Height - PLAYER_RADIUS

Clearance(p, s) == DistSq(p, Closest(p, s))

(* How close to a structure the centre of somebody outside may be left: at *)
(* the edge of a push, but for the rounding, and, in the corner between    *)
(* q3a and q3c, where the passage of 28.3 pixels is narrower than a player *)
(* is wide, 8.3 pixels from q3a.                                           *)
Kept(s) == IF s \in Squeezed THEN 8 * Grain - 2 ELSE PLAYER_RADIUS - 2

(* Cover holds against any move the server accepts, up to 50 pixels a tick *)
(* and in any direction (shooter-engine.service.ts:329-366): nobody leaves *)
(* the arena, and nobody stands halfway in a structure.  Either the centre *)
(* has come to lie inside, in one leap, and is not pushed any more         *)
(* (collision.service.ts:98), or all pushes together, each from where the  *)
(* one before has led, leave the player as far away as Kept says, and a    *)
(* push out of one does not end in another or over the border.             *)
InsideOrClear ==
  \A u \in DOMAIN players :
    /\ InArena(players[u])
    /\ \A s \in Cover :
         \/ Clearance(players[u], s) = 0
         \/ Clearance(players[u], s) >= Square(Kept(s))

(* Nobody gets inside of a structure but by a leap over its whole edge: in *)
(* one step of at least 18 pixels, 6 for q3a, at the coarsest grain.       *)
EntersByLeap ==
  [][\A u \in DOMAIN players \cap DOMAIN players', s \in Cover :
        Clearance(players[u], s) > 0 /\ Clearance(players'[u], s) = 0 =>
          DistSq(players[u], players'[u]) >= Square(Kept(s))]_flightVars
=============================================================================
