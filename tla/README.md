# Verification of the VirtualEnviroment backend

TLA+ modules, TLC configurations and TLAPS proofs for the NestJS backend of the
virtual environment: a shared 2D map, a shooter arena that is entered through a
zone of the map, and a 1v1 football duel that starts from two pads on the map
and crowns its winner. The state of map, arena and duel lives in the memory of
one Node.js process (`README.md:356`, "Instancia única obligatoria"); user
accounts, their refresh tokens and the leaderboard are in a database.

Paths below are relative to `src/features/` of the repository unless they start
with `README.md`.

## How the program runs, and what that means for the models

Node runs one callback at a time. A socket event, an HTTP request, a timer and
an interval are callbacks; a callback runs until it returns, together with the
continuations of promises that are already resolved. Most `await`s of this code
wait for such promises: the in-memory repository, `client.join` and
`client.leave` of the local adapter, `verifyAsync`, the callbacks between
services. So nearly every handler is **one action**, and the interleavings that
matter are those of whole callbacks: messages of several sockets of several
users, sockets that close early, late or twice for one user, intervals
(`tick`, `managePickups`, `pollActivation`, `expireStaleEntries`,
`checkExpiry`, the countdown of a match) and one-shot timers (the 30 s of the
zone).

Three places are finer:

* `joinMap` awaits the **database** (`join-map.use-case.ts:20,24`). Its start,
  each answer and each failure are actions of their own in `VirtualMap`, and
  anything may happen between them.
* Every request of **authentication** awaits the database several times
  (`auth.service.ts`). In `Auth` a request is a record that moves from one query
  to the next, and everything else may happen between two queries.
* One **tick** of the arena is a callback, but a long one with an outcome that
  depends on its order, so `ShooterEngine` makes it of small steps (one queued
  input, one projectile, one victim of a blast) and `Flight` of still smaller
  ones (one sub-step of a projectile). `phase` keeps every other action out until
  the callback returns, which is what the event loop does.

## Inventory

| Component | State | Operations | Interacts with | Hard behaviour |
|---|---|---|---|---|
| Shooter engine (`shooter-arena/application/services/shooter-engine.service.ts`) | `room` (players, reconnecting, join times, badges, shot timestamps, projectiles, pickups, timers, tick), `inputQueue`, `playerGrid` | `addPlayer`, `removePlayer`, `markDisconnected`, `handlePlayerInput`, `collectItem`, `tick`, `managePickups` | gateway (calls), zone (callback on elimination) | the room changes in the middle of a tick; reconnection window; rewards over many sessions |
| Zone (`zone.service.ts`) | `zoneState`, `entryTracking`, `triggered`, pending 30 s timers | `handleCheckShooterZone`, `clearTriggered`, `lockZone`, `unlockZone`, `expireStaleEntries` | called by both gateways, reads the engine | dwell time, silence, stale timers, lock |
| Arena gateway (`shooter.gateway.ts`) | `socketToUser` | `joinRoom`, `leaveRoom`, `playerInput`, `collectItem`, `checkShooterZone`, disconnect | engine, zone | several sockets of one user, room limit |
| Duel pads (`football-duel/duel-pad.service.ts`) | `occupants`, `presenceTimestamps`, `locked`, `activationProgress` | `handleCheckDuelPads`, `pollActivation`, `lockPads`, `unlockPads` | starts matches | presence runs out, lock before an await |
| Duel engine (`duel-engine.service.ts`) | `matches` with score and countdown | `createMatch`, `handlePlayerInput`, `checkGoals`, countdown, `handlePlayerDisconnect`, `endMatch` | pads, crown (callback) | several causes of one end |
| Duel gateway (`football-duel.gateway.ts`) | `socketToMatch` | `joinMatch`, `playerInput`, disconnect, `handleMatchEnded` | engine, crown, pads | sockets that outlive their match |
| Crown (`crown.service.ts`) | the stored crown | `awardCrown`, `checkExpiry` | repository, map | two readers of one expiry |
| Virtual map (`virtual-world/...`) | `presenceMap`, `positionMap`, `userNameMap` | `joinMap`, `leaveMap`, `updatePosition`, disconnect | database, clients | database awaits against closing sockets |
| Chat | `chatMap` | `sendChatMessage` | map | none: what is stored is never read |
| Auth, users (`auth/`, `users/`) | the table of users with `refreshTokenHash`; the `rt` cookie of each browser | register, login, refresh, logout | database, browsers | check-then-write around awaits; a query fails half way; the answer with the new cookie is lost |
| Geometry, spatial hash, object pool (`collision.service.ts`, `spatial-hash.ts`, `object-pool.ts`) | positions, `playerGrid`, `projectilePool` | spawning, movement, cover, sub-steps, look-up, acquire and release | engine | fast projectiles, circles over several cells, objects used twice |
| Leaderboard | table of entries | queries (`recordMatch` has no caller) | database | none |
| Configuration, bootstrap, health | — | — | — | wiring |

The football duel ships disabled (`featureFlags.ts`, `FOOTBALL_DUEL_ENABLED`);
its code is complete and is modelled as enabled.

What makes them correct, in short: the loop runs exactly while somebody plays;
nobody is in two places, dead or restored twice; a reward is paid once; the
room keeps its limit and the doorway lets people in again after they leave;
only a continuous stay is invited; one duel at a time between two who are
there, ended once, with the crown to one of them; everybody on the map sees the
same avatars; no shot jumps over anybody and no blast misses anybody in reach;
no name is registered twice, a refresh token that was rotated or revoked is
worth nothing, and nobody is logged out by a failure half way. `PROJECT.json`
lists the hazards at their lines with the properties that cover them.

## Modules

| Module | Models |
|---|---|
| `JsMap` | `Map.set`, `Map.delete`, bounded clocks |
| `ShooterEngine` | the shooter engine |
| `ZoneService` | the doorway |
| `ShooterArena` | gateway + engine + doorway: `EXTENDS ShooterEngine`, `Zone == INSTANCE ZoneService` |
| `ArenaRoster` | abstract: who is in the arena and the number the map shows (with its one theorem) |
| `FootballDuel` | pads, match, duel sockets, crown |
| `DuelCycle` | abstract: one duel at a time and who wears the crown |
| `VirtualMap` | presence and positions around the awaits of `joinMap` |
| `Flight` | spawning, movement, cover, sub-steps, spatial hash and object pool of the arena |
| `Auth` | requests of browsers, the table of users, refresh tokens |
| `MC*` | small instances for TLC |
| `*Proofs` | theorems |

### ShooterEngine

`players`, `reconnecting`, `joinAge`, `badges`, `shots`, `pickups`,
`projectiles`, `inputQueue` are the fields of `room` and the queue; instants
(`expiresAt`, `joinTimestamps`, `spawnTime`) are clocks that `Elapse` moves
together; the four timestamp maps are counters of the shots of the last second,
and each shot leaves its window on its own (`ShotExpires`), which allows more
than one common clock would. `awards` and `elims` are history: how often a
reward was emitted, and how often `playerEliminated` in this tick.

Geometry is a choice here (`Flight` computes it): a projectile flies on, stops,
or hits anybody of the grid but its owner; a rocket reaches any set of the grid.
`grid` is `playerGrid`, filled once per tick (`StartProjectiles`) with objects that an earlier
projectile may eliminate, and `ApplyHit` on such an object takes the elimination
branch again, as the code does. `ManagePickups` gives every result the spawning
loop can reach. `Owed` looks at everybody in `joinTimestamps`, in the room or
not, as `checkSurvivalRewards` does.

### ZoneService

A report is outside or inside; `Elapse` waits for callbacks that are due
(a timer fires before time goes on; intervals are as frequent as a unit of
time). `sinceOut` is history. A user can have several pending 30 s timers and
each of them clears the flag, also the flag of a later visit: this is what the
code does.

### ShooterArena

Each handler is the conjunction of the engine's action, the zone's and the
change of `socketToUser`, in one action. The elimination callback runs inside
the step of the tick. The clocks of engine and doorway advance separately; the
process has one clock, so the model allows more interleavings and the safety
properties shown here are the stronger for it. `Disconnect` looks at the user of
the socket only, so the late close of an old socket takes out a player who is
there on a new one: this is the code (`shooter.gateway.ts:91-97`).

`ImplementsRoster` maps `members` to the users in the room and `advertised` to
`zoneState.activePlayers`.

### FootballDuel

`PollActivation` is `pollActivation` with everything it awaits (`createMatch`,
`lockPads`): those promises are resolved, so no event comes in between, and
`locked` is set before. `EndMatch` is `endMatch` with its callback (crown, pads)
and `destroyMatch`. `socketToMatch` is not cleared when a match ends;
`After` renames the id of the ended match to `Gone`, since an id is never used
again and all ended ids behave alike; that a late close of an old socket leaves
a later match alone rests on this, and no property claims it. `CheckExpiry` has two cases because the
repository and the poll read the clock one after the other.

### VirtualMap

The database is external: a query answers, finds nobody, or fails. `shown` is
the map of a client that has listened all the time. `Connect` gives a socket id
only if nothing refers to it any more. A socket may have a `joinMap` under way
after it has closed.

### Flight

Coordinates are whole numbers of *grains*, of which a pixel has `Grain`; the
structures, radii and sizes are those of `cover-structures.ts` and the engine. A
tick is `TickStart`, the inputs, one `UpdatePlayers` (stop whoever is too fast,
move, clamp to the border, then push out of the 20 structures one after the
other, as the loop does: `After`), and every projectile in sub-steps of at most
10 pixels. A raster stands in for real numbers, and it favours nobody: a push
off a corner lands on *any* of the grains next to the point the code computes
(`Rounded`), on either side of it, so `After`, `Resolved` and `Moved` are sets
and `Steps` combines them over the players. Nothing is claimed of the raster
itself: it is a convention of the model. `Moves` is any set of pairs, fractions
of a pixel included, up to and beyond `maxSpeedViolation`. Projectiles fly in
directions `(a/c, b/c)` with `a² + b² = c²`, in which all sub-steps end on the
raster. `Spawn` and `Restore` are the two branches of `addPlayer`; `Restore`
brings back the position and velocity that `Disconnect` has kept in `away`.

What cover promises against any such move is `InsideOrClear`. A centre that
leaps into a structure is not pushed at all (`collision.service.ts:98`) and may
be there, walk about there and shoot from there: this is what the code does and
the run does it. But nobody is left *halfway*: a centre outside is a radius away
from every structure, but for two grains of rounding, although each push starts
from where the one before has led. The exception is `Squeezed`, computed from
the list (structures that have a later one too close). It is q3a alone: q3a
and q3c are 20 pixels apart in either direction, 28.3 from corner to corner and
closer than a player is wide, and q3c comes later. Who gets into the passage is
pushed out of q3a, then out of q3c, and ends up as close as 28.3 − 20 = 8.3
pixels to q3a. `Kept` bounds both by what the proof needs. `EntersByLeap` says that the pushes are the only guard there is and
a good one against walking: a centre enters a structure in one step over the
whole distance `Kept`, never by sliding along or pressing against it.

`Query` and `Cells` are the grid: a player is entered into every cell of the
bounding square and looked up in every cell of the searched one. Which of
several targets the grid lists first is left open. A player whom a hit
eliminates leaves `players` but stays in `grid`, as in the engine; whether a hit
is fatal is `ShooterEngine`'s question and a choice here. `pool` counts how often
an object is on the stack of `projectilePool`, so that a double release would
show. `blast` is history.

### Auth

A request is a record: its stage is the query that comes next, and `Proceed`,
`Refuse` and `Answer` move it. `Begin` takes the cookie the browser has *at that
moment*; `Answer` sets the cookie the browser will have. Passwords, signatures
and SHA-256 are abstract: a token is a value, `owner` its `sub`, and the hash in
the table identifies it. Unique columns are part of the table (`CreateUser` may
fail although both look-ups found nothing). Any query may fail; the catch of
`logout` makes an answer of the failure. A write that was applied but reported as
failed is a composition of actions: `CreateUser` and a failing next query,
`IssueTokens` and a lost answer, `ClearToken`. `Crash` forgets all requests and keeps
the table. Tokens and cookies expire, the cookie after its token.

`holders` (browsers that were given a token of an account) and `disturbed`
(browsers with two requests at once, a lost answer, a crash, or a logout whose
write failed) are history. They say exactly when a session may be lost:
`SessionSurvives` and `LogoutEndsSession` hold for every browser that met none
of these cases, so no other interleaving or failure has this effect.

## What is checked

| Run | Instance | Shows |
|---|---|---|
| `engine_combat` | 2 users, rocket and shotgun, health 2, shield 1 | type, loop, one life, kill badge once, scores only through the window |
| `engine_rewards` | 2 users, no weapons, 3 positions of which 2 exclude each other | survival rewards once and eventually, boxes apart, inputs consumed |
| `zone` | 2 users, limit 1, dwell 2, stale 1, rearm 3 | dwell is continuous, flags and tracking end |
| `arena` | 2 users, 3 sockets (one user has two), limit 2, rockets | every player reachable, every exit reopens the door, the composition implements `ArenaRoster` |
| `duel` | 2 users, 2 matches, duration 2, crown 2 | implements `DuelCycle`, pads follow the match, occupants real, presence needed, quitters not crowned, pads reopen, silent occupants lose the pad |
| `map` | 2 users, 3 sockets, 2 places | views agree, who is hidden is joining and does not stay so, ghosts have one cause |
| `flight` | half pixels, 2 users between structures, before the passage of q3a and q3c and in a corner, slow moves, leaps of 42 pixels and moves that are too fast, closing sockets, rocket and laser, 3 ticks | no tunnelling, blasts complete, pool exact, nobody halfway in a structure or over the border |
| `auth` | 2 browsers, 2 requests at a time, 2 accounts, 3 tokens, 3 forms | unique accounts, old tokens refused, sessions survive, logout ends them |

Four runs show a disagreement of the code with what the repository says of it:

| Run | Property violated | What happens |
|---|---|---|
| `arena_lock` | `LockedMeansFull` | an elimination makes room but the zone stays locked ("Room is full") until the next join, leave or disconnect |
| `engine_eliminated` | `EliminatedOnce` | two projectiles (or two pellets) reach a user in one tick: `playerEliminated`, kill and XP twice |
| `duel_spectator` | `EndedByTimerOrPlayer` | the socket of an onlooker closes and the match ends, won by player 1 |
| `map_ghost` | `GhostsCleanedUp` | the socket closes while `joinMap` waits for the database: presence and position are written afterwards and stay |

Other divergences met on the way, without a run: `lastPlayerStanding`
(`README.md:299`) is never emitted, because eliminated players are removed from
the room at once (theorem `OneLifeAlways`) and the condition of
`checkLastStanding` asks for a dead one in it; a duel starts at the first poll
that finds both pads taken, not after two continuous seconds
(`football-duel/README.md:14`); health boxes appear for everybody, not only "si
el jugador tiene menos del máximo" (`README.md:320`). The repository drops a
crown that has expired when it is read, so the poll (`crown.service.ts:59-67`)
hardly ever gets to see it and rarely sends the `crownUpdate` that would take it
off; a client can still time the two minutes ("visible para todos durante 2
minutos", `football-duel/README.md:16`) by `expiresAt`. The catch of `logout`
(`auth.service.ts:110-112`, "Token already invalid") also swallows a failed
write, so 204 is answered while the token still works. `GET /users/me` is
guarded by `JwtAuthGuard` (`users/users.controller.ts:15`), which is made for
sockets and finds no user in an HTTP request. In a corner of the pitch the
left/right clamp of `enforceBallBounds` (`duel-engine.service.ts:304-314`) puts
back the height the top/bottom clamp has just corrected. `checkGoals` says that
the centre of the ball has to cross the line and tests its edge
(`duel-engine.service.ts:321-331`).

Every property of a passing run has a mutant in `PROJECT.json`: a small change of
a mapped definition, written beside it and marked `Mutant`, under which TLC
finds the property violated in the same instance.

### Bounds

Two users are what every race of this code needs: a killer and a victim, the
two players of a duel, one who is in and one who wants in; the second socket of
one user gives the reload and late-close cases, and the onlooker of
`duel_spectator` is a third user. Bounds on data (`QueueBound`,
`ProjectileBound`, `KillsCap`, `AgeCap`, `GoalCap`, `LookupBound`) are constants
and appear in guards or saturating counters, so no case is lost below them: two
inputs make two shots in a tick, one projectile may outlive it, clocks stop once
all comparisons have gone their way. Durations are small numbers that keep the
order of the real ones (dwell above stale, rearm above dwell). Symmetry is used
only in runs without liveness properties.

In `auth`, two requests are what a race between check and write needs, the third
token lets a rotation happen before another one, and the three forms share a
name and an email in pairs. `TokenLeft` stops new requests when the tokens left
would not do for those under way, so no request gets stuck by the bound. In
`flight`, three ticks with two inputs are a spawn, a shot, its flight over
several cells and its end, or a move that carries on for three steps, past a lost
connection if need be; a move is a slow one with a fraction, a leap that ends
inside of c1 or in the middle of the passage between q3a and q3c, or one that is
too fast. The spots are chosen on both sides of a gap between two structures,
before that passage and at the border, where pushing is hardest.
In `arena` the limit is 2, so that a user joins again, or from the other socket,
while in the room and beside somebody else; with two users nobody is turned away
there. A full room is the business of `arena_lock` and `zone` (limit 1), and of
`RoomBoundedAlways` for every limit. The laser
covers 50 pixels a tick in five sub-steps, the rocket 5 in one; 24 pixels is the
depth for which 24² + 10² = 26², below which steps of 10 must meet a circle of
26.

### Fairness

* `TickStep` (`WF`): the interval fires while it is set, and a callback that has
  begun returns.
* `ExpireStaleEntries`, `RearmFires`, `ZoneElapse`: an interval, a timeout, time.
* `PollActivation`, `CheckExpiry`, `Second(m)`, `Elapse` of the duel: intervals
  and time.
* `Answer(s)` of the map: a query returns or fails.

`Flight` and `Auth` claim no liveness: nothing in the code makes a client send
its next request.

Clients owe nothing: no message, no disconnect, no goal is fair. All fairness is
weak: a timer that is set stays set until it fires or is cleared.

## What is proved

For every value of the constants that meets the named assumptions
(`ArenaAssumption`, `GatewayAssumption`, `ZoneAssumption`, `DuelAssumption`,
`MapAssumption`, `FlightAssumption`, `AuthAssumption`: finite users, positions,
requests, tokens and objects where they are counted, durations and limits that
are naturals, a raster with at least one grain to the pixel, a socket belongs to one user, `None` is none of the
values):

* **`ShooterEngineProofs`** — `EngineInv` is inductive: types, `LoopFollowsRoster`,
  `OneLife`, `RewardsPaidOnce` and `TickShape`. None of them stands alone. An
  elimination in the middle of a tick preserves `OneLife` because a survivor of
  a hit is alive by definition and the others go; the loop follows the roster
  because every removal ends in the same check; a reward is paid once because
  `awards` and `badgesAwarded` change together; and `TickShape` says that a
  blast has its rocket at the head of the queue, without which the damage of
  a victim is not determined. `PickupsSpread` is an invariant of its own: a new
  box is compared with all others and the count is one below the limit.
  `ScoreNeedsWindow` looks at each way into the room.
* **`ZoneServiceProofs`** — `ZoneInv`. `DwellIsContinuous` compares the age of an
  entry with the time since the last report from outside; both clocks advance
  together, and whatever resets the second forgets the first or finds the user
  in `triggered`, who by `FlagHasTimer` is not tracked. That lock and count
  always agree (`LockMatchesCount`) is proved and not run.
* **`ShooterArenaProofs`** — every arena step is an engine step as far as the
  engine's variables go, so `EngineInv` carries over; `SocketOfPlayer` by cases
  on the gateway's handlers; and `ArenaImplementsRoster`: every step is an
  `Enter`, `Quit`, `Fall` of `ArenaRoster` or a stutter. `RoomBoundedAlways`
  follows from it and `RosterNeverOverfull`, proved once about the abstraction.
  `ExitReopensDoor` needs `FallenAreOut`: whoever has been eliminated in a tick
  is not in the room, so an exit during a tick is a first elimination, whose
  callback clears the door.
  `ArenaImplementsEngine` carries the engine's other promises (`OneLife`,
  `PickupsSpread`, `ScoreNeedsWindow`, `RewardsPaidOnce`) to the composition: they
  are proved from `EngineSafety`, the engine without its fairness, which the
  arena implements. `DoorInvariantInArena` does the same for the doorway, which
  is not a refinement: a goodbye releases the user *and* unlocks in one step of
  the gateway, which is no step of `ZoneService`, and the numbers it is locked
  with are in range only because `RoomBounded` holds. So the lemmas about the
  doorway's operations are used one by one, through an instance of
  `ZoneServiceProofs`.
* **`FootballDuelProofs`** — `DuelInv` (pads, matches, crown, types, the
  occupants), `DuelImplementsCycle`, and the two action properties
  `QuitterNotCrowned` and `DuelNeedsPresence`. That the map shows a crown as long
  as it is stored (`CrownIsShown`) is proved and not run.
* **`VirtualMapProofs`** — `MapInv`: `ViewsAgree` and `OnlyJoinersHidden`
  whatever comes in while queries are under way. `GhostsAreLateAnswers` follows
  with `PresenceOwned`: a presence names a socket of its own user.
* **`FlightProofs`** — `BroadPhaseComplete`: two points within a radius share a
  cell, for every radius and every place, by monotonicity of the division; so
  `BlastComplete`. The induction over the
  structures a player is pushed out of is done by `CountingUp`, from the least
  element of a set (`WFMin`), since the library's induction theorems take an
  operator and cannot be instantiated; the function `After` is shown to exist the
  same way. `PoolExact` needs to know that whatever is to be removed is in the room.
  `NoTunnelling` needs `WayInv`: every projectile in the room flies in steps of
  at most 10 pixels (`ShortSteps`), and *all* samples of the flight under way,
  not the last one only, were out of reach of everybody (`SamplesClear`). The
  step that ends first beyond a player, seen along the way, ends within
  √(24² + 10²) = 26 of him (`NearSample`), for every speed, aim and place.
  Movement has one invariant, `StandingInv`: whoever is in the room or in the
  reconnection window stands where `InsideOrClear` says, for every grain, any
  moves and every landing on the raster. A push ends at the edge of its structure,
  two grains short at most (`PushLength`, `TwoGrainsShort`), and so out of reach of
  all structures that have room around them; only q3c can push somebody back
  towards q3a, and then both coordinates of the push point into the passage
  (`PushedIntoPassage`), whose corners are 28.3 pixels apart, so 8 are left
  (`Passage`). `FromOneToTheNext` carries this over the list of structures, for
  which the 20 of them are compared in pairs. `EntersByLeapAlways` follows: who was
  `Kept` away before the step and is inside after it has come that far, since no
  point of the structure is closer than its closest one.
* **`AuthProofs`** — `AuthInv` says of each request under way what it knows of
  the row of its account. `ReplayRefused` holds because a token that is not the
  current one never becomes current again (`StaleStaysStale`): only a fresh token
  is ever written. `SessionSurvives` and `LogoutEndsSession` follow the one
  request an undisturbed browser has: before its write the old cookie is the
  current one, after it the token it was granted is (`CookieCurrent`,
  `GrantCurrent`, `NothingLeft`). `UniqueAccounts` rests on the constraint alone.

Only model-checked: the seven liveness properties (TLAPS has no rule for fairness
and `ENABLED` here). Every invariant and action property a passing run checks is
proved.

## What is not modelled

* The physics of the duel (Matter.js moves ball and players); every goal is
  allowed at any time instead. The clamp of the ball would be the only part of it
  that is this code.
* The pellets of a shotgun: their angles are irrational, no choice of pixels is
  faithful. In `ShooterEngine` they hit whom they like.
* `CollisionService` keeps older copies of its methods that nobody calls.
* Snapshots and their buffers, names, messages and texts: nothing reads them back.
* Chat and leaderboard: what chat stores is read by nobody, and the only writer
  of the leaderboard has no caller.
* The stores of the repository that no service uses, and the persisted copy of a
  match, which nobody reads.
* The timer that sends the first two sockets of a finished match home after 5 s,
  and the spawn point of the return to the map: messages to clients, no state.
* `MATCH_DURATION_SECONDS` that is not a number: `timeRemaining` is NaN, no
  comparison is true and the match ends by a disconnect only. The models take a
  duration that is a natural number.
* The JSON reader of the configuration, the middleware and guards (they check an
  access token and change nothing), bootstrap and health. The models take the
  user of a socket from its token, as `ws-auth.middleware.ts` stores it.

A restart of the process loses map, arena and duel, which start from `Init`;
what it does to sessions is `Crash` of `Auth`.

## Plan

1. *(done)* `ShooterEngine` → `ZoneService` → `ShooterArena` over `ArenaRoster`;
   `FootballDuel` over `DuelCycle`; `VirtualMap`. Type and safety invariants of
   all five proved.
2. *(done)* `Auth`: requests between database queries, with failures, lost
   answers, crashes and expiry; its five invariants proved.
3. *(done)* `Flight`: the geometry, grid and pool under the engine; types, grid
   and pool proved, later also tunnelling, border and cover.
4. *(done)* Proofs of `PickupsSpread`, `ScoreNeedsWindow`, `ExitReopensDoor`,
   `GhostsAreLateAnswers` and of the type invariants.
5. Open: the way of one user over map, door, arena and back (`shooterJoined`,
   `returnToVirtualWorld`, `clearShooterZone`) as one composition; an abstract
   specification of the map.
