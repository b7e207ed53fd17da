---------------------------- MODULE FootballDuel ----------------------------
(***************************************************************************)
(* The 1v1 football duel: the two pads on the map (duel-pad.service.ts),   *)
(* the match they start (duel-engine.service.ts), the sockets of the       *)
(* namespace /football-duel (football-duel.gateway.ts) and the crown of    *)
(* the winner (crown.service.ts and the repository it keeps it in).        *)
(*                                                                         *)
(* Abstracted: the physics of a match, of which a goal for either side is  *)
(* what is left, activationProgress (written, never read for a decision),  *)
(* names and map sockets of the occupants, the persisted copy of a match   *)
(* (nobody reads it) and the return of the clients to the map.  The        *)
(* promises awaited in these handlers are resolved ones, so each handler   *)
(* and each timer callback is one action.                                  *)
(***************************************************************************)
EXTENDS JsMap

CONSTANTS
  Users,          \* user ids
  NoOne,          \* null, where a user id could be
  Sockets,        \* sockets of /football-duel
  Owner,          \* [Sockets -> Users], from the socket's token
  MatchIds,       \* ids of matches
  Gone,           \* any id of a match that has ended: ids are never used again
  PresenceTtl,    \* PRESENCE_TTL_MS, in units of Elapse
  MatchDuration,  \* MATCH_DURATION_SECONDS
  CrownTtl,       \* CROWN_TTL_SECONDS, in units of Elapse
  GoalCap         \* bound: goals of one side are counted up to here

ASSUME DuelAssumption ==
  /\ NoOne \notin Users /\ Gone \notin MatchIds
  /\ Owner \in [Sockets -> Users]
  /\ PresenceTtl \in Nat /\ MatchDuration \in Nat \ {0}
  /\ CrownTtl \in Nat /\ GoalCap \in Nat

VARIABLES
  occupants,      \* pad -> its occupant or NoOne
  presence,       \* presenceTimestamps: pad -> user -> time since the last report
  locked,         \* the pads are locked
  matches,        \* id -> the two players, the goals of each, timeRemaining
  socketToMatch,  \* socket -> the match it joined last
  crownState,     \* the stored crown, a set of at most one: winner and time left
  shown           \* the winner in the last crownUpdate on the map

padVars   == <<occupants, presence, locked>>
matchVars == <<matches, socketToMatch>>
crownVars == <<crownState, shown>>
duelVars  == <<padVars, matchVars, crownVars>>

Pads == {"pad-a", "pad-b"}
Other(p) == IF p = "pad-a" THEN "pad-b" ELSE "pad-a"

Match == [player1: Users, player2: Users, timeRemaining: 1..MatchDuration,
          goals1: 0..GoalCap, goals2: 0..GoalCap]
Players(m) == {matches[m].player1, matches[m].player2}
-----------------------------------------------------------------------------
(* The pads (handleCheckDuelPads, called with a position of the client).   *)

(* Mutant: the other pad is not looked at. *)
NotHereYet(u, p) == occupants[p] # u

(* An avatar between the pads overlaps both and counts as on pad-a only.   *)
FreeOfOther(u, p) == occupants[Other(p)] # u

(* The user takes the pad, from another occupant if there is one.  The     *)
(* report changes nothing when the pads are locked (padBlocked) or when    *)
(* the user is the occupant of the other pad.                              *)
StandOn(u, p) ==
  /\ ~locked /\ FreeOfOther(u, p)
  /\ presence' = [presence EXCEPT ![p] = With(@, u, 0)]
  /\ occupants' = [occupants EXCEPT ![p] = u]
  /\ UNCHANGED <<locked, matchVars, crownVars>>

(* Mutant: the presence goes, the occupant stays. *)
ClearPresences(P) ==
  /\ UNCHANGED occupants
  /\ presence' = [p \in Pads |-> IF p \in P THEN Without(presence[p], occupants[p])
                                            ELSE presence[p]]

ClearOccupants(P) ==
  /\ occupants' = [p \in Pads |-> IF p \in P THEN NoOne ELSE occupants[p]]
  /\ presence' = [p \in Pads |-> IF p \in P THEN Without(presence[p], occupants[p])
                                            ELSE presence[p]]

(* A position outside both pads, also while they are locked.               *)
WalkOff(u) ==
  /\ ClearOccupants({p \in Pads : occupants[p] = u})
  /\ UNCHANGED <<locked, matchVars, crownVars>>

(* Mutant: the lock itself is left. *)
ResetPads ==
  /\ UNCHANGED locked
  /\ occupants' = [p \in Pads |-> NoOne]
  /\ presence' = [p \in Pads |-> <<>>]

UnlockPads ==
  /\ locked' = FALSE
  /\ occupants' = [p \in Pads |-> NoOne]
  /\ presence' = [p \in Pads |-> <<>>]

CreateMatch(m, p, q) ==
  matches' = With(matches, m, [player1 |-> p, player2 |-> q, goals1 |-> 0, goals2 |-> 0,
                               timeRemaining |-> MatchDuration])

(* Mutant: one period too long. *)
VeryStale(p) ==
  occupants[p] # NoOne /\ presence[p][occupants[p]] > PresenceTtl + 1

IsStale(p) ==
  /\ occupants[p] # NoOne
  /\ \/ occupants[p] \notin DOMAIN presence[p]
     \/ presence[p][occupants[p]] > PresenceTtl

(* Mutant: the lock is left to lockPads, which a later poll may precede. *)
LockLater == UNCHANGED locked

LockNow == locked' = TRUE

(* Silent occupants go; a duel starts at once when two different users are *)
(* left on the pads.                                                       *)
PollActivation ==
  /\ ~locked
  /\ ClearOccupants({p \in Pads : IsStale(p)})
  /\ LET p == occupants'["pad-a"]
         q == occupants'["pad-b"]
     IN IF p # NoOne /\ q # NoOne /\ p # q
        THEN LockNow /\ \E m \in MatchIds \ DOMAIN matches : CreateMatch(m, p, q)
        ELSE UNCHANGED <<locked, matches>>
  /\ UNCHANGED <<socketToMatch, crownVars>>
-----------------------------------------------------------------------------
(* The match and the crown.                                                *)

AwardCrown(w) ==
  /\ crownState' = {[winner |-> w, left |-> CrownTtl]}
  /\ shown' = w

(* endMatch and what it calls back: crown, pads, destroyMatch.             *)
EndMatch(m, winner) ==
  /\ matches' = Without(matches, m)
  /\ IF winner # NoOne THEN AwardCrown(winner) ELSE UNCHANGED crownVars
  /\ UnlockPads

(* What socketToMatch, not changed by the end of m, refers to afterwards.  *)
After(m, map) == [s \in DOMAIN map |-> IF map[s] = m THEN Gone ELSE map[s]]

(* Anybody may join an existing match, as a player or to look on.          *)
JoinMatch(s, m) ==
  /\ m \in DOMAIN matches
  /\ socketToMatch' = With(socketToMatch, s, m)
  /\ UNCHANGED <<padVars, matches, crownVars>>

(* Mutant: the quitter is taken for the winner. *)
QuitterWins(m, u) == IF matches[m].player1 = u THEN u ELSE matches[m].player2

WinnerWithout(m, u) ==
  IF matches[m].player1 = u THEN matches[m].player2 ELSE matches[m].player1

Disconnect(s) ==
  /\ s \in DOMAIN socketToMatch
  /\ LET m == socketToMatch[s]
     IN IF m \in DOMAIN matches
        THEN /\ socketToMatch' = After(m, Without(socketToMatch, s))
             /\ EndMatch(m, WinnerWithout(m, Owner[s]))
        ELSE /\ socketToMatch' = Without(socketToMatch, s)
             /\ UNCHANGED <<padVars, matches, crownVars>>

Goal(m) ==
  /\ \/ /\ matches[m].goals1 < GoalCap
        /\ matches' = [matches EXCEPT ![m].goals1 = @ + 1]
     \/ /\ matches[m].goals2 < GoalCap
        /\ matches' = [matches EXCEPT ![m].goals2 = @ + 1]
  /\ UNCHANGED <<padVars, socketToMatch, crownVars>>

WinnerByScore(m) ==
  IF matches[m].goals1 > matches[m].goals2 THEN matches[m].player1
  ELSE IF matches[m].goals2 > matches[m].goals1 THEN matches[m].player2 ELSE NoOne

(* Mutant: the match is over only at exactly one moment. *)
LastSecondMissed(m) == matches[m].timeRemaining = 0

LastSecond(m) == matches[m].timeRemaining <= 1

(* The countdown, once a second.                                           *)
Second(m) ==
  IF LastSecond(m)
  THEN EndMatch(m, WinnerByScore(m)) /\ socketToMatch' = After(m, socketToMatch)
  ELSE /\ matches' = [matches EXCEPT ![m].timeRemaining = @ - 1]
       /\ UNCHANGED <<padVars, socketToMatch, crownVars>>

(* The poll for an expired crown.  The repository drops a crown past its   *)
(* time and answers null, and the poll returns; unless the crown expires   *)
(* between the repository's look at the clock and the poll's own.          *)
CheckExpiry ==
  /\ \E crown \in crownState :
       \/ crown.left = 0 /\ UNCHANGED shown
       \/ crown.left = 1 /\ shown' = NoOne
  /\ crownState' = {}
  /\ UNCHANGED <<padVars, matchVars>>
-----------------------------------------------------------------------------
Elapse ==
  /\ presence' = [p \in Pads |-> [u \in DOMAIN presence[p] |->
                    Least(PresenceTtl + 1, presence[p][u] + 1)]]
  /\ crownState' = {[crown EXCEPT !.left = Minus(@, 1)] : crown \in crownState}
  /\ UNCHANGED <<occupants, locked, matchVars, shown>>

DuelInit ==
  /\ occupants = [p \in Pads |-> NoOne]
  /\ presence = [p \in Pads |-> <<>>]
  /\ locked = FALSE
  /\ matches = <<>> /\ socketToMatch = <<>>
  /\ crownState = {} /\ shown = NoOne

Clients ==
  \/ \E u \in Users : WalkOff(u) \/ \E p \in Pads : StandOn(u, p)
  \/ \E s \in Sockets : Disconnect(s) \/ \E m \in MatchIds : JoinMatch(s, m)

Timers ==
  \/ PollActivation
  \/ CheckExpiry
  \/ \E m \in DOMAIN matches : Goal(m) \/ Second(m)

DuelNext == Clients \/ Timers \/ Elapse

(* The intervals keep firing and time goes on; clients and the ball owe    *)
(* nothing.                                                                *)
DuelSpec ==
  /\ DuelInit /\ [][DuelNext]_duelVars
  /\ WF_duelVars(PollActivation) /\ WF_duelVars(CheckExpiry) /\ WF_duelVars(Elapse)
  /\ \A m \in MatchIds : WF_duelVars(m \in DOMAIN matches /\ Second(m))
-----------------------------------------------------------------------------
(* Properties.                                                             *)

DuelTypeOK ==
  /\ occupants \in [Pads -> Users \cup {NoOne}]
  /\ DOMAIN presence = Pads
  /\ \A p \in Pads : /\ DOMAIN presence[p] \subseteq Users
                     /\ presence[p] \in [DOMAIN presence[p] -> 0..(PresenceTtl + 1)]
  /\ locked \in BOOLEAN
  /\ DOMAIN matches \subseteq MatchIds /\ matches \in [DOMAIN matches -> Match]
  /\ DOMAIN socketToMatch \subseteq Sockets
  /\ \A s \in DOMAIN socketToMatch : socketToMatch[s] \in DOMAIN matches \cup {Gone}
  /\ crownState \subseteq [winner: Users, left: 0..CrownTtl]
  /\ shown \in Users \cup {NoOne}

(* The pads are locked exactly while a match is on, there is never a       *)
(* second one, and it is between two users: no way of ending a match       *)
(* leaves the pads locked or opens them twice.                             *)
PadsFollowMatch ==
  /\ locked = (DOMAIN matches # {})
  /\ \A m, n \in DOMAIN matches : m = n
  /\ \A m \in DOMAIN matches : matches[m].player1 # matches[m].player2

(* Nobody stands on both pads, and no occupant is without a presence that  *)
(* can run out: a pad is never held for ever by somebody who is gone.      *)
OccupantsReal ==
  /\ occupants["pad-a"] = occupants["pad-b"] => occupants["pad-a"] = NoOne
  /\ \A p \in Pads : occupants[p] # NoOne => occupants[p] \in DOMAIN presence[p]

(* While a crown is stored, the map shows its owner: a newer winner        *)
(* replaces the older one in both places.                                  *)
CrownIsShown == \A crown \in crownState : shown = crown.winner

DuelInv == DuelTypeOK /\ PadsFollowMatch /\ OccupantsReal /\ CrownIsShown

(* A duel starts only between users who both reported from their pads      *)
(* within PRESENCE_TTL: nobody is drawn into a match after falling silent. *)
DuelNeedsPresence ==
  [][\A m \in DOMAIN matches' \ DOMAIN matches :
       /\ presence["pad-a"][matches'[m].player1] <= PresenceTtl
       /\ presence["pad-b"][matches'[m].player2] <= PresenceTtl]_duelVars

(* A match ended by a closing socket crowns somebody else than the user    *)
(* who went.                                                               *)
QuitterNotCrowned ==
  [][\A s \in DOMAIN socketToMatch \ DOMAIN socketToMatch' :
       matches' # matches => shown' # Owner[s]]_duelVars

Cycle == INSTANCE DuelCycle
  WITH playing <- UNION {Players(m) : m \in DOMAIN matches}, crown <- shown

ImplementsDuelCycle == Cycle!CycleSpec

(* Every match ends and the pads open again, also when nobody joins it.    *)
PadsReopen == locked ~> ~locked

(* An occupant who stays silent loses the pad.                             *)
SilentLosesPad ==
  \A p \in Pads : IsStale(p) ~> ~IsStale(p)

(* duel-engine.service.ts:361: a match ends only by timer expiry or player *)
(* disconnect.                                                             *)
EndedByTimerOrPlayer ==
  [][\A m \in DOMAIN matches \ DOMAIN matches' :
       \/ matches[m].timeRemaining = 1
       \/ \E s \in DOMAIN socketToMatch \ DOMAIN socketToMatch' :
            Owner[s] \in Players(m)]_duelVars
=============================================================================
