------------------------- MODULE FootballDuelProofs -------------------------
(***************************************************************************)
(* Proofs about FootballDuel: DuelInv is inductive, so the pads are locked *)
(* exactly while the one match is on; and from it, the football duel       *)
(* implements DuelCycle, for every set of users, sockets and match ids.    *)
(***************************************************************************)
EXTENDS FootballDuel, TLAPS
-----------------------------------------------------------------------------
(* The invariant holds when the server starts.                             *)
LEMMA DuelInitInv == DuelInit => DuelInv
  <1> SUFFICES ASSUME DuelInit PROVE DuelInv
    OBVIOUS
  <1>1. /\ \A p \in Pads : DOMAIN presence[p] = {} /\ occupants[p] = NoOne
        /\ DOMAIN matches = {} /\ DOMAIN socketToMatch = {}
    BY DEF DuelInit
  <1>2. DuelTypeOK
    <2>1. occupants \in [Pads -> Users \cup {NoOne}] /\ DOMAIN presence = Pads
      BY DEF DuelInit
    <2>2. \A p \in Pads : presence[p] \in [DOMAIN presence[p] -> 0..(PresenceTtl + 1)]
      BY DEF DuelInit
    <2>3. matches \in [DOMAIN matches -> Match]
      BY DEF DuelInit
    <2> QED
      BY <1>1, <2>1, <2>2, <2>3 DEF DuelInit, DuelTypeOK
  <1>3. PadsFollowMatch /\ CrownIsShown
    BY <1>1 DEF DuelInit, PadsFollowMatch, CrownIsShown
  <1>4. OccupantsReal
    BY <1>1 DEF OccupantsReal, Pads
  <1> QED
    BY <1>2, <1>3, <1>4 DEF DuelInv

-----------------------------------------------------------------------------
(* The part of the invariant that is about the pads' occupants.            *)
PadsOK ==
  /\ occupants \in [Pads -> Users \cup {NoOne}]
  /\ DOMAIN presence = Pads
  /\ \A p \in Pads : /\ DOMAIN presence[p] \subseteq Users
                     /\ presence[p] \in [DOMAIN presence[p] -> 0..(PresenceTtl + 1)]
  /\ OccupantsReal

(* Taking a pad keeps the pads well typed and their occupants distinct     *)
(* and present.                                                            *)
LEMMA StandOnPads ==
  ASSUME PadsOK, NEW u \in Users, NEW p \in Pads, StandOn(u, p)
  PROVE  PadsOK'
  <1>1. 0 \in 0..(PresenceTtl + 1)
    BY DuelAssumption DEF DuelAssumption
  <1>2. /\ DOMAIN With(presence[p], u, 0) = DOMAIN presence[p] \cup {u}
        /\ With(presence[p], u, 0) \in [DOMAIN With(presence[p], u, 0) -> 0..(PresenceTtl + 1)]
    <2>1. presence[p] \in [DOMAIN presence[p] -> 0..(PresenceTtl + 1)]
      BY DEF PadsOK
    <2> QED
      BY <1>1, <2>1 DEF With
  <1>3. /\ DOMAIN presence' = Pads /\ presence'[p] = With(presence[p], u, 0)
        /\ \A q \in Pads \ {p} : presence'[q] = presence[q]
    BY DEF PadsOK, StandOn
  <1>4. /\ occupants' \in [Pads -> Users \cup {NoOne}] /\ occupants'[p] = u
        /\ \A q \in Pads \ {p} : occupants'[q] = occupants[q]
    BY DEF PadsOK, StandOn
  <1>5. Other(p) \in Pads \ {p} /\ Pads = {p, Other(p)} /\ occupants[Other(p)] # u
    BY DEF Pads, Other, StandOn, FreeOfOther
  <1>6. OccupantsReal'
    <2>1. occupants'["pad-a"] # occupants'["pad-b"]
      BY <1>4, <1>5 DEF Pads, Other
    <2>2. \A q \in Pads : occupants'[q] # NoOne => occupants'[q] \in DOMAIN presence'[q]
      BY <1>2, <1>3, <1>4 DEF PadsOK, OccupantsReal
    <2> QED
      BY <2>1, <2>2 DEF OccupantsReal
  <1> QED
    BY <1>2, <1>3, <1>4, <1>6 DEF PadsOK

(* Clearing pads takes their occupants and those occupants' presences      *)
(* only.                                                                   *)
LEMMA ClearPads ==
  ASSUME PadsOK, NEW P \in SUBSET Pads, ClearOccupants(P)
  PROVE  /\ PadsOK'
         /\ \A p \in Pads : occupants'[p] = IF p \in P THEN NoOne ELSE occupants[p]
  <1>1. \A p \in Pads : occupants'[p] = IF p \in P THEN NoOne ELSE occupants[p]
    BY DEF ClearOccupants
  <1>2. /\ occupants' \in [Pads -> Users \cup {NoOne}] /\ DOMAIN presence' = Pads
    BY DEF ClearOccupants, PadsOK
  <1>3. ASSUME NEW p \in Pads
        PROVE  /\ DOMAIN presence'[p] \subseteq Users
               /\ presence'[p] \in [DOMAIN presence'[p] -> 0..(PresenceTtl + 1)]
               /\ p \notin P => presence'[p] = presence[p]
    <2>1. presence'[p] = IF p \in P THEN Without(presence[p], occupants[p]) ELSE presence[p]
      BY DEF ClearOccupants
    <2>2. DOMAIN presence[p] \subseteq Users
          /\ presence[p] \in [DOMAIN presence[p] -> 0..(PresenceTtl + 1)]
      BY DEF PadsOK
    <2> QED
      BY <2>1, <2>2 DEF Without, Restrict
  <1>4. OccupantsReal'
    <2>1. occupants'["pad-a"] = occupants'["pad-b"] => occupants'["pad-a"] = NoOne
      BY <1>1 DEF PadsOK, OccupantsReal, Pads
    <2>2. \A p \in Pads : occupants'[p] # NoOne => occupants'[p] \in DOMAIN presence'[p]
      BY <1>1, <1>3 DEF PadsOK, OccupantsReal
    <2> QED
      BY <2>1, <2>2 DEF OccupantsReal
  <1> QED
    BY <1>1, <1>2, <1>3, <1>4 DEF PadsOK

(* Open pads are empty ones.                                               *)
LEMMA UnlockedPads ==
  ASSUME UnlockPads
  PROVE  PadsOK' /\ locked' = FALSE
  <1>1. \A p \in Pads : occupants'[p] = NoOne /\ presence'[p] = <<>> /\ DOMAIN presence'[p] = {}
    BY DEF UnlockPads
  <1>2. /\ occupants' \in [Pads -> Users \cup {NoOne}] /\ DOMAIN presence' = Pads
        /\ locked' = FALSE
    BY DEF UnlockPads
  <1>3. ASSUME NEW p \in Pads
        PROVE  presence'[p] \in [DOMAIN presence'[p] -> 0..(PresenceTtl + 1)]
    <2>1. presence'[p] = <<>>
      BY <1>1
    <2>2. <<>> \in [DOMAIN <<>> -> 0..(PresenceTtl + 1)]
      OBVIOUS
    <2> QED
      BY <2>1, <2>2
  <1>4. OccupantsReal'
    BY <1>1 DEF OccupantsReal, Pads
  <1> QED
    BY <1>1, <1>2, <1>3, <1>4 DEF PadsOK

(* Time passing keeps who is present, and the presences typed.             *)
LEMMA ElapsedPads ==
  ASSUME PadsOK, Elapse
  PROVE  PadsOK'
  <1>1. \A p \in Pads : /\ DOMAIN presence'[p] = DOMAIN presence[p]
                        /\ \A u \in DOMAIN presence[p] :
                             presence'[p][u] = Least(PresenceTtl + 1, presence[p][u] + 1)
    BY DEF Elapse
  <1>2. DOMAIN presence' = Pads /\ occupants' = occupants
    BY DEF Elapse
  <1>3. ASSUME NEW p \in Pads
        PROVE  presence'[p] \in [DOMAIN presence'[p] -> 0..(PresenceTtl + 1)]
    <2>1. \A u \in DOMAIN presence[p] : presence'[p][u] \in 0..(PresenceTtl + 1)
      BY <1>1, DuelAssumption DEF PadsOK, Least, DuelAssumption
    <2>2. presence'[p] = [u \in DOMAIN presence[p] |-> Least(PresenceTtl + 1, presence[p][u] + 1)]
      BY DEF Elapse
    <2> QED
      BY <1>1, <2>1, <2>2
  <1>4. OccupantsReal'
    BY <1>1, <1>2 DEF PadsOK, OccupantsReal
  <1> QED
    BY <1>1, <1>2, <1>3, <1>4 DEF PadsOK
-----------------------------------------------------------------------------
(* The part about the match and the crown.                                 *)
MatchOK ==
  /\ locked \in BOOLEAN
  /\ DOMAIN matches \subseteq MatchIds /\ matches \in [DOMAIN matches -> Match]
  /\ PadsFollowMatch

SocketsOK ==
  /\ DOMAIN socketToMatch \subseteq Sockets
  /\ \A s \in DOMAIN socketToMatch : socketToMatch[s] \in DOMAIN matches \cup {Gone}

CrownOK ==
  /\ crownState \subseteq [winner: Users, left: 0..CrownTtl]
  /\ shown \in Users \cup {NoOne}
  /\ CrownIsShown

(* The named parts of the invariant, for citing it.                        *)
LEMMA DuelInvParts ==
  /\ DuelInv <=> PadsOK /\ MatchOK /\ SocketsOK /\ CrownOK
  /\ DuelInv' <=> PadsOK' /\ MatchOK' /\ SocketsOK' /\ CrownOK'
  BY DEF DuelInv, DuelTypeOK, PadsOK, MatchOK, SocketsOK, CrownOK

(* The types of the fields of a match.                                     *)
LEMMA MatchFields ==
  ASSUME MatchOK, NEW m \in DOMAIN matches
  PROVE  /\ matches[m].player1 \in Users /\ matches[m].player2 \in Users
         /\ matches[m].timeRemaining \in 1..MatchDuration
         /\ matches[m].goals1 \in 0..GoalCap /\ matches[m].goals2 \in 0..GoalCap
         /\ DOMAIN matches = {m} /\ locked
         /\ matches[m].player1 # matches[m].player2
  BY DEF MatchOK, Match, PadsFollowMatch

(* However it ends, the end of a match leaves no match and open pads, and  *)
(* a crown only on a player.                                               *)
LEMMA EndMatchInv ==
  ASSUME DuelInv, NEW m \in DOMAIN matches, NEW w \in Players(m) \cup {NoOne}, EndMatch(m, w),
         NEW map, DOMAIN map \subseteq DOMAIN socketToMatch,
         \A s \in DOMAIN map : map[s] = socketToMatch[s],
         socketToMatch' = After(m, map)
  PROVE  /\ DuelInv' /\ DOMAIN matches' = {}
         /\ shown' = IF w # NoOne THEN w ELSE shown
  <1>0. PadsOK /\ MatchOK /\ SocketsOK /\ CrownOK
    BY DuelInvParts
  <1>1. DOMAIN matches' = {} /\ matches' \in [DOMAIN matches' -> Match]
    <2>1. matches' = Without(matches, m) /\ matches \in [DOMAIN matches -> Match]
      BY <1>0 DEF EndMatch, MatchOK
    <2> QED
      BY <1>0, <2>1, MatchFields DEF Without, Restrict
  <1>2. PadsOK' /\ locked' = FALSE
    BY UnlockedPads DEF EndMatch
  <1>3. MatchOK'
    BY <1>1, <1>2 DEF MatchOK, PadsFollowMatch
  <1>4. SocketsOK'
    <2>1. DOMAIN matches = {m}
      BY <1>0, MatchFields
    <2>2. DOMAIN socketToMatch' = DOMAIN map
          /\ \A s \in DOMAIN map : socketToMatch'[s] = Gone
      BY <1>0, <2>1 DEF After, SocketsOK
    <2> QED
      BY <1>0, <2>2 DEF SocketsOK
  <1>5. CrownOK' /\ shown' = IF w # NoOne THEN w ELSE shown
    <2>1. CASE w # NoOne
      <3>1. /\ crownState' = {[winner |-> w, left |-> CrownTtl]} /\ shown' = w
        BY <2>1 DEF EndMatch, AwardCrown
      <3>2. w \in Users
        BY <1>0, <2>1, MatchFields DEF Players
      <3>3. CrownTtl \in 0..CrownTtl
        BY DuelAssumption DEF DuelAssumption
      <3> QED
        BY <2>1, <3>1, <3>2, <3>3 DEF CrownOK, CrownIsShown
    <2>2. CASE w = NoOne
      BY <1>0, <2>2 DEF EndMatch, CrownOK, CrownIsShown, crownVars
    <2> QED
      BY <2>1, <2>2
  <1> QED
    BY <1>1, <1>2, <1>3, <1>4, <1>5, DuelInvParts
-----------------------------------------------------------------------------
(* A report from a pad preserves the invariant.                            *)
LEMMA StandOnInv ==
  ASSUME DuelInv, NEW u \in Users, NEW p \in Pads, StandOn(u, p)
  PROVE  DuelInv'
  <1>1. PadsOK /\ MatchOK /\ SocketsOK /\ CrownOK
    BY DuelInvParts
  <1>2. PadsOK'
    BY <1>1, StandOnPads
  <1>3. MatchOK' /\ SocketsOK' /\ CrownOK'
    BY <1>1 DEF StandOn, MatchOK, SocketsOK, CrownOK, PadsFollowMatch, CrownIsShown,
                matchVars, crownVars
  <1> QED
    BY <1>2, <1>3, DuelInvParts

(* A report from outside the pads preserves the invariant.                 *)
LEMMA WalkOffInv ==
  ASSUME DuelInv, NEW u \in Users, WalkOff(u)
  PROVE  DuelInv'
  <1>1. PadsOK /\ MatchOK /\ SocketsOK /\ CrownOK
    BY DuelInvParts
  <1>2. PadsOK'
    <2>1. {p \in Pads : occupants[p] = u} \in SUBSET Pads
      OBVIOUS
    <2> QED
      BY <1>1, <2>1, ClearPads DEF WalkOff
  <1>3. MatchOK' /\ SocketsOK' /\ CrownOK'
    BY <1>1 DEF WalkOff, MatchOK, SocketsOK, CrownOK, PadsFollowMatch, CrownIsShown,
                matchVars, crownVars
  <1> QED
    BY <1>2, <1>3, DuelInvParts

(* What a poll does to the matches: nothing, or the first match of a quiet *)
(* world between the two who are left on the pads.                         *)
LEMMA PollStarts ==
  ASSUME DuelInv, PollActivation
  PROVE  /\ PadsOK' /\ DOMAIN matches = {}
         /\ \/ UNCHANGED <<locked, matches>>
            \/ /\ locked' = TRUE
               /\ \E m \in MatchIds :
                    /\ CreateMatch(m, occupants'["pad-a"], occupants'["pad-b"])
                    /\ occupants'["pad-a"] \in Users /\ occupants'["pad-b"] \in Users
                    /\ occupants'["pad-a"] # occupants'["pad-b"]
  <1>1. PadsOK /\ MatchOK
    BY DuelInvParts
  <1>2. PadsOK'
    <2>1. {p \in Pads : IsStale(p)} \in SUBSET Pads
      OBVIOUS
    <2> QED
      BY <1>1, <2>1, ClearPads DEF PollActivation
  <1>3. DOMAIN matches = {}
    BY <1>1 DEF PollActivation, MatchOK, PadsFollowMatch
  <1>4. "pad-a" \in Pads /\ "pad-b" \in Pads
    BY DEF Pads
  <1>5. /\ occupants'["pad-a"] \in Users \cup {NoOne}
        /\ occupants'["pad-b"] \in Users \cup {NoOne}
    BY <1>2, <1>4 DEF PadsOK
  <1> DEFINE p == occupants'["pad-a"]
             q == occupants'["pad-b"]
  <1>6. CASE p # NoOne /\ q # NoOne /\ p # q
    BY <1>2, <1>3, <1>5, <1>6 DEF PollActivation, LockNow
  <1>7. CASE ~(p # NoOne /\ q # NoOne /\ p # q)
    BY <1>2, <1>3, <1>7 DEF PollActivation
  <1> QED
    BY <1>6, <1>7

(* The poll preserves the invariant, whether or not it starts a duel.      *)
LEMMA PollInv ==
  ASSUME DuelInv, PollActivation
  PROVE  DuelInv'
  <1>1. MatchOK /\ SocketsOK /\ CrownOK
    BY DuelInvParts
  <1>2. CrownOK'
    BY <1>1 DEF PollActivation, CrownOK, CrownIsShown, crownVars
  <1>3. MatchOK' /\ SocketsOK'
    <2>1. CASE UNCHANGED <<locked, matches>>
      BY <1>1, <2>1 DEF PollActivation, MatchOK, SocketsOK, PadsFollowMatch
    <2>2. ASSUME locked' = TRUE, NEW m \in MatchIds,
                 NEW p \in Users, NEW q \in Users, p # q, CreateMatch(m, p, q)
          PROVE  MatchOK' /\ SocketsOK'
      <3> DEFINE v == [player1 |-> p, player2 |-> q, goals1 |-> 0, goals2 |-> 0,
                       timeRemaining |-> MatchDuration]
      <3>1. v \in Match
        BY DuelAssumption DEF DuelAssumption, Match
      <3>2. matches' = With(matches, m, v) /\ matches \in [DOMAIN matches -> Match]
        BY <1>1, <2>2 DEF CreateMatch, MatchOK
      <3>3. /\ DOMAIN matches' = DOMAIN matches \cup {m}
            /\ matches' \in [DOMAIN matches' -> Match]
        BY <3>1, <3>2 DEF With
      <3>4. DOMAIN matches' = {m} /\ matches'[m] = v
        BY <3>2, <3>3, PollStarts DEF With
      <3>5. MatchOK'
        <4>1. v.player1 # v.player2
          BY <2>2
        <4>2. \A n \in DOMAIN matches' : n = m /\ matches'[n] = v
          BY <3>4
        <4>3. PadsFollowMatch'
          BY <2>2, <3>4, <4>1, <4>2 DEF PadsFollowMatch
        <4> QED
          BY <2>2, <3>3, <3>4, <4>3 DEF MatchOK
      <3>6. SocketsOK'
        BY <1>1, <3>3 DEF PollActivation, SocketsOK
      <3> QED
        BY <3>5, <3>6
    <2> QED
      BY <2>1, <2>2, PollStarts
  <1> QED
    BY <1>2, <1>3, PollStarts, DuelInvParts

(* joinMatch preserves the invariant.                                      *)
LEMMA JoinMatchInv ==
  ASSUME DuelInv, NEW s \in Sockets, NEW m \in MatchIds, JoinMatch(s, m)
  PROVE  DuelInv'
  <1>1. PadsOK /\ MatchOK /\ SocketsOK /\ CrownOK
    BY DuelInvParts
  <1>2. SocketsOK'
    <2>1. socketToMatch' = With(socketToMatch, s, m) /\ m \in DOMAIN matches /\ matches' = matches
      BY DEF JoinMatch
    <2> QED
      BY <1>1, <2>1 DEF SocketsOK, With
  <1>3. PadsOK' /\ MatchOK' /\ CrownOK'
    BY <1>1 DEF JoinMatch, PadsOK, OccupantsReal, MatchOK, CrownOK, PadsFollowMatch,
                CrownIsShown, padVars, crownVars
  <1> QED
    BY <1>2, <1>3, DuelInvParts

(* A closing socket preserves the invariant, on a live or a past match.    *)
LEMMA DisconnectInv ==
  ASSUME DuelInv, NEW s \in Sockets, Disconnect(s)
  PROVE  DuelInv'
  <1>1. PadsOK /\ MatchOK /\ SocketsOK /\ CrownOK /\ s \in DOMAIN socketToMatch
    BY DuelInvParts DEF Disconnect
  <1> DEFINE m == socketToMatch[s]
             map == Without(socketToMatch, s)
  <1>2. DOMAIN map \subseteq DOMAIN socketToMatch
        /\ \A t \in DOMAIN map : map[t] = socketToMatch[t]
    BY DEF Without, Restrict
  <1>3. CASE m \in DOMAIN matches
    <2>1. WinnerWithout(m, Owner[s]) \in Players(m) \cup {NoOne}
      BY DEF WinnerWithout, Players
    <2>2. EndMatch(m, WinnerWithout(m, Owner[s])) /\ socketToMatch' = After(m, map)
      BY <1>3 DEF Disconnect
    <2> HIDE DEF m, map
    <2> QED
      BY <1>2, <1>3, <2>1, <2>2, EndMatchInv
  <1>4. CASE m \notin DOMAIN matches
    <2>1. socketToMatch' = map /\ UNCHANGED <<padVars, matches, crownVars>>
      BY <1>4 DEF Disconnect
    <2>2. SocketsOK'
      BY <1>1, <1>2, <2>1 DEF SocketsOK
    <2>3. PadsOK' /\ MatchOK' /\ CrownOK'
      BY <1>1, <2>1 DEF PadsOK, OccupantsReal, MatchOK, CrownOK, PadsFollowMatch,
                        CrownIsShown, padVars, crownVars
    <2> QED
      BY <2>2, <2>3, DuelInvParts
  <1> QED
    BY <1>3, <1>4

(* A change of one match that leaves it a match.                           *)
LEMMA MatchGoesOn ==
  ASSUME DuelInv, NEW m \in DOMAIN matches, NEW v \in Match, v.player1 # v.player2,
         matches' = [matches EXCEPT ![m] = v],
         UNCHANGED <<padVars, socketToMatch, crownVars>>
  PROVE  DuelInv'
  <1>1. PadsOK /\ MatchOK /\ SocketsOK /\ CrownOK
    BY DuelInvParts
  <1>2. /\ DOMAIN matches' = DOMAIN matches /\ matches' \in [DOMAIN matches' -> Match]
        /\ DOMAIN matches = {m} /\ matches'[m] = v
    BY <1>1, MatchFields DEF MatchOK
  <1>3. MatchOK' /\ SocketsOK'
    BY <1>1, <1>2 DEF MatchOK, SocketsOK, PadsFollowMatch, padVars
  <1>4. PadsOK' /\ CrownOK'
    BY <1>1 DEF PadsOK, OccupantsReal, CrownOK, CrownIsShown, padVars, crownVars
  <1> QED
    BY <1>3, <1>4, DuelInvParts

(* A goal preserves the invariant.                                         *)
LEMMA GoalInv ==
  ASSUME DuelInv, NEW m \in DOMAIN matches, Goal(m)
  PROVE  DuelInv'
  <1>1. MatchOK /\ matches[m] \in Match /\ GoalCap \in Nat
    BY DuelInvParts, DuelAssumption DEF MatchOK, DuelAssumption
  <1>r. matches[m].player1 # matches[m].player2
    BY <1>1, MatchFields
  <1>2. CASE /\ matches[m].goals1 < GoalCap
             /\ matches' = [matches EXCEPT ![m].goals1 = @ + 1]
    <2> DEFINE v == [matches[m] EXCEPT !.goals1 = @ + 1]
    <2>1. v \in Match /\ v.player1 # v.player2
      BY <1>1, <1>2, <1>r DEF Match
    <2>2. matches' = [matches EXCEPT ![m] = v]
      BY <1>2
    <2> QED
      BY <2>1, <2>2, MatchGoesOn DEF Goal
  <1>3. CASE /\ matches[m].goals2 < GoalCap
             /\ matches' = [matches EXCEPT ![m].goals2 = @ + 1]
    <2> DEFINE v == [matches[m] EXCEPT !.goals2 = @ + 1]
    <2>1. v \in Match /\ v.player1 # v.player2
      BY <1>1, <1>3, <1>r DEF Match
    <2>2. matches' = [matches EXCEPT ![m] = v]
      BY <1>3
    <2> QED
      BY <2>1, <2>2, MatchGoesOn DEF Goal
  <1> QED
    BY <1>2, <1>3 DEF Goal

(* A second of the countdown, the last one too, preserves the invariant.   *)
LEMMA SecondInv ==
  ASSUME DuelInv, NEW m \in DOMAIN matches, Second(m)
  PROVE  DuelInv'
  <1>1. MatchOK /\ matches[m] \in Match /\ MatchDuration \in Nat
    BY DuelInvParts, DuelAssumption DEF MatchOK, DuelAssumption
  <1>r. matches[m].player1 # matches[m].player2
    BY <1>1, MatchFields
  <1>2. CASE LastSecond(m)
    <2>1. WinnerByScore(m) \in Players(m) \cup {NoOne}
      BY DEF WinnerByScore, Players
    <2>2. EndMatch(m, WinnerByScore(m)) /\ socketToMatch' = After(m, socketToMatch)
      BY <1>2 DEF Second
    <2> QED
      BY <2>1, <2>2, EndMatchInv
  <1>3. CASE ~LastSecond(m)
    <2> DEFINE v == [matches[m] EXCEPT !.timeRemaining = @ - 1]
    <2>1. v \in Match /\ v.player1 # v.player2
      BY <1>1, <1>3, <1>r DEF Match, LastSecond
    <2>2. matches' = [matches EXCEPT ![m] = v]
      BY <1>3 DEF Second
    <2> QED
      BY <1>3, <2>1, <2>2, MatchGoesOn DEF Second
  <1> QED
    BY <1>2, <1>3

(* The crown poll and time preserve the invariant.                         *)
LEMMA ClocksInv ==
  ASSUME DuelInv, CheckExpiry \/ Elapse
  PROVE  DuelInv'
  <1>1. PadsOK /\ MatchOK /\ SocketsOK /\ CrownOK
    BY DuelInvParts
  <1>2. CASE CheckExpiry
    BY <1>1, <1>2, DuelInvParts, DuelAssumption
      DEF CheckExpiry, PadsOK, OccupantsReal, MatchOK, SocketsOK, CrownOK, PadsFollowMatch,
          CrownIsShown, padVars, matchVars
  <1>3. CASE Elapse
    <2>1. PadsOK' /\ MatchOK' /\ SocketsOK'
      BY <1>1, <1>3, ElapsedPads DEF Elapse, MatchOK, SocketsOK, PadsFollowMatch, matchVars
    <2>2. ASSUME NEW crown \in crownState
          PROVE  /\ [crown EXCEPT !.left = Minus(@, 1)] \in [winner: Users, left: 0..CrownTtl]
                 /\ [crown EXCEPT !.left = Minus(@, 1)].winner = crown.winner
      <3>1. crown \in [winner: Users, left: 0..CrownTtl] /\ CrownTtl \in Nat
        BY <1>1, DuelAssumption DEF CrownOK, DuelAssumption
      <3> QED
        BY <3>1 DEF Minus
    <2>3. CrownOK'
      BY <1>1, <1>3, <2>2 DEF Elapse, CrownOK, CrownIsShown
    <2> QED
      BY <2>1, <2>3, DuelInvParts
  <1> QED
    BY <1>2, <1>3

(* Every step preserves the invariant.                                     *)
LEMMA DuelNextInv == DuelInv /\ [DuelNext]_duelVars => DuelInv'
  <1> SUFFICES ASSUME DuelInv, [DuelNext]_duelVars PROVE DuelInv'
    OBVIOUS
  <1>1. CASE Clients
    BY <1>1, StandOnInv, WalkOffInv, DisconnectInv, JoinMatchInv DEF Clients
  <1>2. CASE Timers
    BY <1>2, PollInv, ClocksInv, GoalInv, SecondInv DEF Timers
  <1>3. CASE Elapse
    BY <1>3, ClocksInv
  <1>4. CASE UNCHANGED duelVars
    BY <1>4 DEF duelVars, padVars, matchVars, crownVars, DuelInv, DuelTypeOK, PadsFollowMatch,
                OccupantsReal, CrownIsShown
  <1> QED
    BY <1>1, <1>2, <1>3, <1>4 DEF DuelNext

(* The pads are locked exactly while a match is on, there is one match at  *)
(* most, no pad is held by somebody who cannot run out of presence, and a  *)
(* stored crown is the one the map shows.                                  *)
THEOREM DuelInvariant == DuelSpec => []DuelInv
  BY DuelInitInv, DuelNextInv, PTL DEF DuelSpec

(* The pads are locked exactly while the only match is on, and it is       *)
(* between two different users.                                            *)
THEOREM PadsFollowMatchAlways == DuelSpec => []PadsFollowMatch
  <1>1. DuelInv => PadsFollowMatch
    BY DEF DuelInv
  <1> QED
    BY <1>1, DuelInvariant, PTL
-----------------------------------------------------------------------------
(* The steps that end a match, seen from outside: nobody plays afterwards, *)
(* and the crown has gone to a player or stayed.                           *)
Playing == UNION {Players(m) : m \in DOMAIN matches}

(* With one match at most, those who play are its two players.             *)
LEMMA PlayingOne ==
  ASSUME DuelInv, NEW m \in DOMAIN matches
  PROVE  Playing = Players(m)
  <1>1. DOMAIN matches = {m}
    BY DuelInvParts, MatchFields
  <1> QED
    BY <1>1 DEF Playing

(* The end of a match is a win of one of its players, or a draw.           *)
LEMMA EndMatchStep ==
  ASSUME DuelInv, NEW m \in DOMAIN matches, NEW w \in Players(m) \cup {NoOne}, EndMatch(m, w)
  PROVE  /\ \/ \E v \in Users : Cycle!Win(v)
            \/ Cycle!Draw
         /\ w # NoOne => shown' = w
  <1>1. Playing = Players(m)
    BY PlayingOne
  <1>2. Playing' = {}
    <2>1. matches' = Without(matches, m) /\ DOMAIN matches = {m}
      BY DuelInvParts, MatchFields DEF EndMatch
    <2> QED
      BY <2>1 DEF Playing, Without, Restrict
  <1>3. CASE w # NoOne
    <2>1. w \in Users /\ shown' = w
      BY <1>3, DuelInvParts, MatchFields DEF EndMatch, AwardCrown, Players
    <2> QED
      BY <1>1, <1>2, <1>3, <2>1 DEF Cycle!Win, Playing
  <1>4. CASE w = NoOne
    <2>1. shown' = shown
      BY <1>4 DEF EndMatch, crownVars
    <2>2. Playing # {}
      BY <1>1 DEF Players
    <2> QED
      BY <1>2, <1>4, <2>1, <2>2 DEF Cycle!Draw, Playing
  <1> QED
    BY <1>3, <1>4

(* A change that keeps the players of every match plays no part in the     *)
(* cycle.                                                                  *)
LEMMA SamePlayers ==
  ASSUME DOMAIN matches' = DOMAIN matches,
         \A m \in DOMAIN matches : /\ matches'[m].player1 = matches[m].player1
                                   /\ matches'[m].player2 = matches[m].player2
  PROVE  Playing' = Playing
  <1>1. \A m \in DOMAIN matches : Players(m)' = Players(m)
    BY DEF Players
  <1> QED
    BY <1>1 DEF Playing

(* A poll starts a duel of the cycle or leaves it as it is.                *)
LEMMA PollStep ==
  ASSUME DuelInv, PollActivation
  PROVE  [Cycle!CycleNext]_Cycle!cycleVars
  <1>1. shown' = shown
    BY DEF PollActivation, crownVars
  <1>2. CASE UNCHANGED <<locked, matches>>
    BY <1>1, <1>2, SamePlayers DEF Cycle!cycleVars, Playing
  <1>3. ASSUME NEW m \in MatchIds, NEW p \in Users, NEW q \in Users, p # q,
               CreateMatch(m, p, q)
        PROVE  [Cycle!CycleNext]_Cycle!cycleVars
    <2>1. DOMAIN matches = {}
      BY PollStarts
    <2>2. /\ DOMAIN matches' = {m}
          /\ matches'[m].player1 = p /\ matches'[m].player2 = q
      BY <1>3, <2>1 DEF CreateMatch, With
    <2>3. Playing = {} /\ Playing' = {p, q}
      BY <2>1, <2>2 DEF Playing, Players
    <2>4. Cycle!Start(p, q)
      BY <1>1, <1>3, <2>3 DEF Cycle!Start, Playing
    <2> QED
      BY <2>4 DEF Cycle!CycleNext
  <1> QED
    BY <1>2, <1>3, PollStarts

(* Every step of the duel is a step of the cycle or a stutter.             *)
LEMMA DuelStep ==
  ASSUME DuelInv, [DuelNext]_duelVars
  PROVE  [Cycle!CycleNext]_Cycle!cycleVars
  <1>1. ASSUME UNCHANGED <<matches, shown>> PROVE [Cycle!CycleNext]_Cycle!cycleVars
    BY <1>1, SamePlayers DEF Cycle!cycleVars, Playing
  <1>2. ASSUME NEW m \in DOMAIN matches, NEW w \in Players(m) \cup {NoOne}, EndMatch(m, w)
        PROVE  [Cycle!CycleNext]_Cycle!cycleVars
    BY <1>2, EndMatchStep DEF Cycle!CycleNext
  <1>3. ASSUME NEW u \in Users, WalkOff(u) \/ \E p \in Pads : StandOn(u, p)
        PROVE  [Cycle!CycleNext]_Cycle!cycleVars
    BY <1>1, <1>3 DEF WalkOff, StandOn, matchVars, crownVars
  <1>4. ASSUME NEW s \in Sockets, Disconnect(s) PROVE [Cycle!CycleNext]_Cycle!cycleVars
    <2>1. CASE socketToMatch[s] \in DOMAIN matches
      <3>1. EndMatch(socketToMatch[s], WinnerWithout(socketToMatch[s], Owner[s]))
        BY <1>4, <2>1 DEF Disconnect
      <3>2. WinnerWithout(socketToMatch[s], Owner[s]) \in Players(socketToMatch[s])
        BY DEF WinnerWithout, Players
      <3> QED
        BY <1>2, <2>1, <3>1, <3>2
    <2>2. CASE socketToMatch[s] \notin DOMAIN matches
      BY <1>1, <1>4, <2>2 DEF Disconnect, crownVars
    <2> QED
      BY <2>1, <2>2
  <1>5. ASSUME NEW s \in Sockets, NEW m \in MatchIds, JoinMatch(s, m)
        PROVE  [Cycle!CycleNext]_Cycle!cycleVars
    BY <1>1, <1>5 DEF JoinMatch, crownVars
  <1>6. CASE Clients
    BY <1>3, <1>4, <1>5, <1>6 DEF Clients
  <1>7. ASSUME NEW m \in DOMAIN matches, Goal(m) \/ (Second(m) /\ ~LastSecond(m))
        PROVE  [Cycle!CycleNext]_Cycle!cycleVars
    <2>1. matches[m] \in Match /\ shown' = shown
      BY <1>7, DuelInvParts DEF MatchOK, Goal, Second, crownVars
    <2>2. /\ DOMAIN matches' = DOMAIN matches
          /\ \A n \in DOMAIN matches : /\ matches'[n].player1 = matches[n].player1
                                       /\ matches'[n].player2 = matches[n].player2
      BY <1>7, <2>1 DEF Goal, Second, Match
    <2> QED
      BY <2>1, <2>2, SamePlayers DEF Cycle!cycleVars, Playing
  <1>8. ASSUME NEW m \in DOMAIN matches, Second(m), LastSecond(m)
        PROVE  [Cycle!CycleNext]_Cycle!cycleVars
    <2>1. WinnerByScore(m) \in Players(m) \cup {NoOne}
      BY DEF WinnerByScore, Players
    <2> QED
      BY <1>2, <1>8, <2>1 DEF Second
  <1>9. CASE CheckExpiry
    <2>1. Playing' = Playing
      BY <1>9, SamePlayers DEF CheckExpiry, matchVars
    <2>2. shown' = shown \/ shown' = NoOne
      BY <1>9 DEF CheckExpiry
    <2> QED
      BY <2>1, <2>2 DEF Cycle!CycleNext, Cycle!Fade, Cycle!cycleVars, Playing
  <1>10. CASE Elapse \/ UNCHANGED duelVars
    BY <1>1, <1>10 DEF Elapse, duelVars, matchVars, crownVars
  <1> QED
    BY <1>6, <1>7, <1>8, <1>9, <1>10, PollStep DEF DuelNext, Timers

(* Pads, matches, sockets and crown together behave as DuelCycle says: one *)
(* duel at a time, ended once, the crown to nobody but a player.           *)
THEOREM DuelImplementsCycle == DuelSpec => ImplementsDuelCycle
  <1>1. DuelInit => Cycle!CycleInit
    <2>1. DuelInit => DOMAIN matches = {} /\ shown = NoOne
      BY DEF DuelInit
    <2> QED
      BY <2>1 DEF Cycle!CycleInit
  <1>2. DuelInv /\ [DuelNext]_duelVars => [Cycle!CycleNext]_Cycle!cycleVars
    BY DuelStep
  <1> QED
    BY <1>1, <1>2, DuelInvariant, PTL DEF DuelSpec, ImplementsDuelCycle, Cycle!CycleSpec
-----------------------------------------------------------------------------
(* Whoever's closing socket ends a match is not crowned by it.             *)
THEOREM QuitterNotCrownedAlways == DuelSpec => QuitterNotCrowned
  <1> DEFINE Goes(s) == s \in DOMAIN socketToMatch \ DOMAIN socketToMatch'
  <1>1. ASSUME DuelInv, DuelNext, NEW s \in DOMAIN socketToMatch \ DOMAIN socketToMatch',
               matches' # matches
        PROVE  shown' # Owner[s]
    <2>1. s \in Sockets /\ Owner[s] \in Users /\ Owner[s] # NoOne
      BY <1>1, DuelInvParts, DuelAssumption DEF SocketsOK, DuelAssumption
    <2>2. Disconnect(s) /\ socketToMatch[s] \in DOMAIN matches
      <3>1. ASSUME NEW t \in Sockets, Disconnect(t) PROVE t = s /\ socketToMatch[s] \in DOMAIN matches
        BY <1>1, <3>1 DEF Disconnect, After, Without, Restrict
      <3>2. ASSUME NEW t \in Sockets, NEW m \in MatchIds PROVE ~JoinMatch(t, m)
        BY <1>1 DEF JoinMatch
      <3>3. ASSUME NEW m \in DOMAIN matches PROVE ~Goal(m) /\ ~Second(m)
        BY <1>1 DEF Goal, Second, After
      <3>4. ~PollActivation /\ ~CheckExpiry /\ ~Elapse
        BY <1>1 DEF PollActivation, CheckExpiry, Elapse, matchVars
      <3>5. \A u \in Users : ~WalkOff(u) /\ \A p \in Pads : ~StandOn(u, p)
        BY <1>1 DEF WalkOff, StandOn, matchVars
      <3> QED
        BY <1>1, <3>1, <3>2, <3>3, <3>4, <3>5 DEF DuelNext, Clients, Timers
    <2> DEFINE m == socketToMatch[s]
               w == WinnerWithout(m, Owner[s])
    <2>3. EndMatch(m, w)
      BY <2>2 DEF Disconnect
    <2>4. Playing = Players(m) /\ Players(m) = {matches[m].player1, matches[m].player2}
      BY <1>1, <2>2, PlayingOne DEF Players
    <2>5. w # Owner[s] /\ w # NoOne
      <3>1. /\ matches[m].player1 # matches[m].player2
            /\ matches[m].player1 \in Users /\ matches[m].player2 \in Users
        BY <1>1, <2>2, DuelInvParts, MatchFields
      <3> QED
        BY <2>1, <3>1, DuelAssumption DEF WinnerWithout, DuelAssumption
    <2> QED
      BY <2>3, <2>5 DEF EndMatch, AwardCrown
  <1>2. DuelInv /\ [DuelNext]_duelVars
          => [\A s \in DOMAIN socketToMatch \ DOMAIN socketToMatch' :
                matches' # matches => shown' # Owner[s]]_duelVars
    BY <1>1
  <1> QED
    BY <1>2, DuelInvariant, PTL DEF DuelSpec, QuitterNotCrowned
-----------------------------------------------------------------------------
(* Nobody is drawn into a duel after falling silent for PRESENCE_TTL.      *)
THEOREM DuelNeedsPresenceAlways == DuelSpec => DuelNeedsPresence
  <1>1. ASSUME DuelInv, DuelNext, NEW m \in DOMAIN matches' \ DOMAIN matches
        PROVE  /\ presence["pad-a"][matches'[m].player1] <= PresenceTtl
               /\ presence["pad-b"][matches'[m].player2] <= PresenceTtl
    <2>1. PollActivation
      <3>1. ASSUME NEW n \in DOMAIN matches, NEW w, EndMatch(n, w)
            PROVE  DOMAIN matches' \subseteq DOMAIN matches
        BY <3>1 DEF EndMatch, Without, Restrict
      <3>2. ASSUME NEW n \in DOMAIN matches, Goal(n) \/ Second(n)
            PROVE  DOMAIN matches' \subseteq DOMAIN matches
        BY <1>1, <3>1, <3>2, DuelInvParts DEF Goal, Second, MatchOK
      <3>3. ASSUME Clients PROVE DOMAIN matches' \subseteq DOMAIN matches
        <4>1. ASSUME NEW s \in Sockets, Disconnect(s)
              PROVE  DOMAIN matches' \subseteq DOMAIN matches
          BY <3>1, <4>1 DEF Disconnect
        <4> QED
          BY <3>3, <4>1 DEF Clients, WalkOff, StandOn, JoinMatch, matchVars
      <3>4. ASSUME CheckExpiry \/ Elapse PROVE DOMAIN matches' \subseteq DOMAIN matches
        BY <3>4 DEF CheckExpiry, Elapse, matchVars
      <3> QED
        BY <1>1, <3>2, <3>3, <3>4 DEF DuelNext, Timers
    <2> DEFINE p == occupants'["pad-a"]
               q == occupants'["pad-b"]
    <2>2. p # NoOne /\ q # NoOne /\ matches'[m].player1 = p /\ matches'[m].player2 = q
      <3>1. p # NoOne /\ q # NoOne /\ \E n \in MatchIds : CreateMatch(n, p, q)
        BY <1>1, <2>1 DEF PollActivation
      <3> QED
        BY <1>1, <3>1 DEF CreateMatch, With
    <2>3. ASSUME NEW r \in Pads, occupants'[r] # NoOne
          PROVE  presence[r][occupants'[r]] <= PresenceTtl
      <3>1. occupants'[r] = IF r \in {x \in Pads : IsStale(x)} THEN NoOne ELSE occupants[r]
        BY <2>1 DEF PollActivation, ClearOccupants
      <3>2. occupants'[r] = occupants[r] /\ ~IsStale(r)
        BY <2>3, <3>1
      <3>3. /\ presence[r] \in [DOMAIN presence[r] -> 0..(PresenceTtl + 1)]
            /\ PresenceTtl \in Nat
        BY <1>1, DuelInvParts, DuelAssumption DEF PadsOK, DuelAssumption
      <3> QED
        BY <2>3, <3>2, <3>3 DEF IsStale
    <2> QED
      BY <2>2, <2>3 DEF Pads
  <1>2. DuelInv /\ [DuelNext]_duelVars
          => [\A m \in DOMAIN matches' \ DOMAIN matches :
                /\ presence["pad-a"][matches'[m].player1] <= PresenceTtl
                /\ presence["pad-b"][matches'[m].player2] <= PresenceTtl]_duelVars
    BY <1>1
  <1> QED
    BY <1>2, DuelInvariant, PTL DEF DuelSpec, DuelNeedsPresence
-----------------------------------------------------------------------------
(* Type correctness of pads, match, sockets and crown.                     *)
THEOREM DuelTypeCorrect == DuelSpec => []DuelTypeOK
  <1>1. DuelInv => DuelTypeOK
    BY DEF DuelInv
  <1> QED
    BY <1>1, DuelInvariant, PTL

(* Nobody stands on both pads, and every occupant has a presence that can  *)
(* run out.                                                                *)
THEOREM OccupantsRealAlways == DuelSpec => []OccupantsReal
  <1>1. DuelInv => OccupantsReal
    BY DEF DuelInv
  <1> QED
    BY <1>1, DuelInvariant, PTL

(* As long as a crown is stored, the map shows its owner.                  *)
THEOREM CrownIsShownAlways == DuelSpec => []CrownIsShown
  <1>1. DuelInv => CrownIsShown
    BY DEF DuelInv
  <1> QED
    BY <1>1, DuelInvariant, PTL
=============================================================================
