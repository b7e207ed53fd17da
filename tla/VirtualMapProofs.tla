-------------------------- MODULE VirtualMapProofs --------------------------
(***************************************************************************)
(* Proofs about VirtualMap: MapInv is inductive.  Whatever comes in while  *)
(* joinMap awaits the database, late and early listeners agree on every    *)
(* avatar, and an avatar only some of them see belongs to a connected user *)
(* whose joinMap is on its way or has failed.                              *)
(***************************************************************************)
EXTENDS VirtualMap, TLAPS
-----------------------------------------------------------------------------
(* MapInv without the operators of JsMap.                                  *)
LEMMA ViewsAgreeParts ==
  ASSUME MapTypeOK
  PROVE  ViewsAgree <=> /\ DOMAIN positions \subseteq DOMAIN presence
                        /\ DOMAIN positions \subseteq DOMAIN shown
                        /\ \A u \in DOMAIN positions : shown[u] = positions[u]
  <1>1. /\ DOMAIN ActivePositions = DOMAIN positions \cap DOMAIN presence
        /\ \A u \in DOMAIN ActivePositions : ActivePositions[u] = positions[u]
    BY DEF ActivePositions, Restrict
  <1>2. ActivePositions = positions <=> DOMAIN positions \subseteq DOMAIN presence
    <2>1. ASSUME DOMAIN positions \subseteq DOMAIN presence PROVE ActivePositions = positions
      <3>1. DOMAIN positions \cap DOMAIN presence = DOMAIN positions
        BY <2>1
      <3>2. positions = [u \in DOMAIN positions |-> positions[u]]
        BY DEF MapTypeOK
      <3> QED
        BY <3>1, <3>2 DEF ActivePositions, Restrict
    <2>2. ASSUME ActivePositions = positions PROVE DOMAIN positions \subseteq DOMAIN presence
      BY <1>1, <2>2
    <2> QED
      BY <2>1, <2>2
  <1> QED
    BY <1>2 DEF ViewsAgree

(* The invariant holds on the empty map.                                   *)
LEMMA MapInitInv == MapInit => MapInv
  <1> SUFFICES ASSUME MapInit PROVE MapInv
    OBVIOUS
  <1>1. DOMAIN presence = {} /\ DOMAIN positions = {} /\ DOMAIN shown = {}
    BY DEF MapInit
  <1>2. MapTypeOK
    <2>1. /\ presence \in [DOMAIN presence -> Sockets]
          /\ positions \in [DOMAIN positions -> Places]
          /\ shown \in [DOMAIN shown -> Places]
      BY DEF MapInit
    <2>2. lookups \in [Sockets -> [Stages -> 0..LookupBound]]
      BY MapAssumption DEF MapInit, MapAssumption
    <2> QED
      BY <1>1, <2>1, <2>2 DEF MapInit, MapTypeOK
  <1>3. ViewsAgree
    BY <1>1, <1>2, ViewsAgreeParts
  <1>4. OnlyJoinersHidden
    BY <1>1 DEF OnlyJoinersHidden
  <1> QED
    BY <1>2, <1>3, <1>4 DEF MapInv

(* What is needed of a step, and what it then gives.                       *)
LEMMA InvFromParts ==
  ASSUME MapTypeOK', DOMAIN positions' \subseteq DOMAIN presence',
         DOMAIN positions' \subseteq DOMAIN shown',
         \A u \in DOMAIN positions' : shown'[u] = positions'[u],
         OnlyJoinersHidden'
  PROVE  MapInv'
  <1>1. /\ DOMAIN ActivePositions' = DOMAIN positions' \cap DOMAIN presence'
        /\ ActivePositions' = [u \in DOMAIN positions' |-> positions'[u]]
    BY DEF ActivePositions, Restrict
  <1>2. ActivePositions' = positions'
    BY <1>1 DEF MapTypeOK
  <1> QED
    BY <1>2 DEF MapInv, ViewsAgree

(* The invariant without the operators of JsMap.                           *)
LEMMA InvParts ==
  ASSUME MapInv
  PROVE  /\ MapTypeOK /\ OnlyJoinersHidden
         /\ DOMAIN positions \subseteq DOMAIN presence
         /\ DOMAIN positions \subseteq DOMAIN shown
         /\ \A u \in DOMAIN positions : shown[u] = positions[u]
  BY ViewsAgreeParts DEF MapInv

(* Every socket belongs to a user.                                         *)
LEMMA OwnerIsUser == ASSUME NEW s \in Sockets PROVE Owner[s] \in Users
  BY MapAssumption DEF MapAssumption
-----------------------------------------------------------------------------
(* What Map.delete does to the typed maps.                                 *)
LEMMA DeletedData ==
  ASSUME MapTypeOK, NEW u, DeleteUserData(u)
  PROVE  /\ DOMAIN presence' = DOMAIN presence \ {u} /\ presence' \in [DOMAIN presence' -> Sockets]
         /\ DOMAIN positions' = DOMAIN positions \ {u}
         /\ positions' \in [DOMAIN positions' -> Places]
         /\ \A v \in DOMAIN positions' : positions'[v] = positions[v]
  <1>1. /\ positions' = Without(positions, u) /\ presence' = Without(presence, u)
        /\ positions \in [DOMAIN positions -> Places] /\ presence \in [DOMAIN presence -> Sockets]
    BY DEF DeleteUserData, MapTypeOK
  <1> QED
    BY <1>1 DEF Without, Restrict

(* What userLeft does to the map of the listener.                          *)
LEMMA LeftMap ==
  ASSUME MapTypeOK, NEW u, UserLeaves(u)
  PROVE  /\ DOMAIN shown' = DOMAIN shown \ {u} /\ shown' \in [DOMAIN shown' -> Places]
         /\ \A v \in DOMAIN shown' : shown'[v] = shown[v]
  <1>1. shown' = Without(shown, u) /\ shown \in [DOMAIN shown -> Places]
    BY DEF UserLeaves, MapTypeOK
  <1> QED
    BY <1>1 DEF Without, Restrict

(* An answered query changes the pending lookups of its socket only.       *)
LEMMA AnsweredLookups ==
  ASSUME MapTypeOK, NEW s \in Sockets, NEW stage \in Stages, Answered(s, stage)
  PROVE  /\ lookups' \in [Sockets -> [Stages -> 0..LookupBound]]
         /\ \A t \in Sockets \ {s} : Pending(t)' = Pending(t)
  <1>1. lookups' = [lookups EXCEPT ![s][stage] = @ - 1] /\ lookups[s][stage] > 0
    BY DEF Answered
  <1>2. lookups \in [Sockets -> [Stages -> 0..LookupBound]]
    BY DEF MapTypeOK
  <1>3. lookups[s][stage] - 1 \in 0..LookupBound
    BY <1>1, <1>2, MapAssumption DEF MapAssumption
  <1>4. \A t \in Sockets \ {s} : lookups'[t] = lookups[t]
    BY <1>1, <1>2
  <1> QED
    BY <1>1, <1>2, <1>3, <1>4 DEF Pending
-----------------------------------------------------------------------------
(* Connect preserves the invariant.                                        *)
LEMMA ConnectInv ==
  ASSUME MapInv, NEW s \in Sockets, Connect(s)
  PROVE  MapInv'
  <1>1. MapTypeOK' /\ OnlyJoinersHidden'
    BY InvParts DEF Connect, MapTypeOK, OnlyJoinersHidden, Pending
  <1> QED
    BY <1>1, InvParts, InvFromParts DEF Connect

(* joinMap up to its query preserves the invariant: the user it hides is   *)
(* waiting.                                                                *)
LEMMA StartJoinInv ==
  ASSUME MapInv, NEW s \in Sockets, StartJoin(s)
  PROVE  MapInv'
  <1> DEFINE u == Owner[s]
  <1>1. MapTypeOK /\ DeleteUserData(u) /\ s \in connected
    BY InvParts DEF StartJoin
  <1>2. /\ lookups' \in [Sockets -> [Stages -> 0..LookupBound]]
        /\ Pending(s)' /\ \A t \in Sockets : Pending(t) => Pending(t)'
    <2>1. /\ lookups' = [lookups EXCEPT ![s]["email"] = @ + 1]
          /\ lookups[s]["email"] < LookupBound /\ "email" \in Stages /\ LookupBound \in Nat
          /\ lookups \in [Sockets -> [Stages -> 0..LookupBound]]
      BY <1>1, MapAssumption DEF StartJoin, Stages, MapTypeOK, MapAssumption
    <2>2. lookups[s]["email"] + 1 \in 0..LookupBound /\ lookups[s]["email"] + 1 > 0
      BY <2>1
    <2>3. \A t \in Sockets, stage \in Stages :
            lookups'[t][stage] = IF t = s /\ stage = "email" THEN lookups[t][stage] + 1
                                                              ELSE lookups[t][stage]
      BY <2>1
    <2> QED
      BY <2>1, <2>2, <2>3 DEF Pending
  <1>3. MapTypeOK'
    BY <1>1, <1>2, DeletedData DEF StartJoin, MapTypeOK
  <1>4. OnlyJoinersHidden'
    <2>1. ASSUME NEW v \in DOMAIN shown' \ DOMAIN positions'
          PROVE  \E t \in connected' : Owner[t] = v /\ (Pending(t)' \/ t \in erred')
      <3>1. CASE v = u
        BY <1>1, <1>2, <3>1 DEF StartJoin
      <3>2. CASE v # u
        <4>1. v \in DOMAIN shown \ DOMAIN positions
          BY <1>1, <2>1, <3>2, DeletedData DEF StartJoin
        <4>2. PICK t \in connected : Owner[t] = v /\ (Pending(t) \/ t \in erred)
          BY <4>1, InvParts DEF OnlyJoinersHidden
        <4> QED
          BY <1>1, <1>2, <4>2 DEF StartJoin, MapTypeOK
      <3> QED
        BY <3>1, <3>2
    <2> QED
      BY <2>1 DEF OnlyJoinersHidden
  <1>5. /\ DOMAIN positions' \subseteq DOMAIN presence'
        /\ DOMAIN positions' \subseteq DOMAIN shown'
        /\ \A v \in DOMAIN positions' : shown'[v] = positions'[v]
    BY <1>1, InvParts, DeletedData DEF StartJoin
  <1> QED
    BY <1>3, <1>4, <1>5, InvFromParts

(* EmailUnknown preserves the invariant.                                   *)
LEMMA EmailUnknownInv ==
  ASSUME MapInv, NEW s \in Sockets, EmailUnknown(s)
  PROVE  MapInv'
  <1>1. /\ lookups' \in [Sockets -> [Stages -> 0..LookupBound]]
        /\ \A t \in Sockets : Pending(t) => Pending(t)'
    <2>1. /\ lookups' = [lookups EXCEPT ![s]["email"] = @ - 1, ![s]["id"] = @ + 1]
          /\ lookups[s]["email"] > 0 /\ lookups[s]["id"] < LookupBound /\ LookupBound \in Nat
          /\ lookups \in [Sockets -> [Stages -> 0..LookupBound]]
      BY InvParts, MapAssumption DEF EmailUnknown, MapTypeOK, MapAssumption
    <2>2. /\ lookups[s]["email"] - 1 \in 0..LookupBound
          /\ lookups[s]["id"] + 1 \in 0..LookupBound /\ lookups[s]["id"] + 1 > 0
      BY <2>1 DEF Stages
    <2>3. /\ lookups'[s]["id"] = lookups[s]["id"] + 1
          /\ lookups'[s]["email"] = lookups[s]["email"] - 1
          /\ \A t \in Sockets \ {s} : lookups'[t] = lookups[t]
      BY <2>1 DEF Stages
    <2>4. lookups' \in [Sockets -> [Stages -> 0..LookupBound]]
      BY <2>1, <2>2 DEF Stages
    <2> QED
      BY <2>2, <2>3, <2>4 DEF Pending, Stages
  <1>2. MapTypeOK'
    BY <1>1, InvParts DEF EmailUnknown, MapTypeOK
  <1>3. OnlyJoinersHidden'
    <2>1. ASSUME NEW v \in DOMAIN shown \ DOMAIN positions
          PROVE  \E t \in connected : Owner[t] = v /\ (Pending(t)' \/ t \in erred)
      <3>1. PICK t \in connected : Owner[t] = v /\ (Pending(t) \/ t \in erred)
        BY <2>1, InvParts DEF OnlyJoinersHidden
      <3> QED
        BY <1>1, <3>1, InvParts DEF MapTypeOK
    <2> QED
      BY <2>1 DEF EmailUnknown, OnlyJoinersHidden
  <1> QED
    BY <1>2, <1>3, InvParts, InvFromParts DEF EmailUnknown

(* The answer to joinMap preserves the invariant, on a closed socket       *)
(* too.                                                                    *)
LEMMA FinishJoinInv ==
  ASSUME MapInv, NEW s \in Sockets, NEW stage \in Stages, NEW place \in Places,
         FinishJoin(s, stage, place)
  PROVE  MapInv'
  <1> DEFINE u == Owner[s]
  <1>1. MapTypeOK /\ u \in Users /\ Answered(s, stage)
    BY InvParts, OwnerIsUser DEF FinishJoin
  <1>2. /\ DOMAIN presence' = DOMAIN presence \cup {u}
        /\ presence' \in [DOMAIN presence' -> Sockets]
    <2>1. presence' = With(presence, u, s) /\ presence \in [DOMAIN presence -> Sockets]
      BY <1>1 DEF FinishJoin, SetPresence, MapTypeOK
    <2> QED
      BY <2>1 DEF With
  <1>3. /\ DOMAIN positions' = DOMAIN positions \cup {u}
        /\ positions' \in [DOMAIN positions' -> Places]
        /\ positions'[u] = place /\ \A v \in DOMAIN positions \ {u} : positions'[v] = positions[v]
    <2>1. positions' = With(positions, u, place) /\ positions \in [DOMAIN positions -> Places]
      BY <1>1 DEF FinishJoin, MapTypeOK
    <2> QED
      BY <2>1 DEF With
  <1>4. /\ DOMAIN shown' = DOMAIN shown \cup {u}
        /\ shown' \in [DOMAIN shown' -> Places]
        /\ shown'[u] = place /\ \A v \in DOMAIN shown \ {u} : shown'[v] = shown[v]
    <2>1. shown' = With(shown, u, place) /\ shown \in [DOMAIN shown -> Places]
      BY <1>1 DEF FinishJoin, Announced, MapTypeOK
    <2> QED
      BY <2>1 DEF With
  <1>5. MapTypeOK'
    BY <1>1, <1>2, <1>3, <1>4, AnsweredLookups DEF FinishJoin, MapTypeOK
  <1>6. OnlyJoinersHidden'
    <2>1. ASSUME NEW v \in DOMAIN shown' \ DOMAIN positions'
          PROVE  \E t \in connected' : Owner[t] = v /\ (Pending(t)' \/ t \in erred')
      <3>1. v # u /\ v \in DOMAIN shown \ DOMAIN positions
        BY <1>3, <1>4, <2>1
      <3>2. PICK t \in connected : Owner[t] = v /\ (Pending(t) \/ t \in erred)
        BY <3>1, InvParts DEF OnlyJoinersHidden
      <3>3. t \in Sockets \ {s}
        BY <1>1, <3>1, <3>2 DEF MapTypeOK
      <3> QED
        BY <1>1, <3>2, <3>3, AnsweredLookups DEF FinishJoin
    <2> QED
      BY <2>1 DEF OnlyJoinersHidden
  <1> QED
    BY <1>2, <1>3, <1>4, <1>5, <1>6, InvParts, InvFromParts

(* A user leaves: what goes with it is everything about the user.          *)
LEMMA LeavesInv ==
  ASSUME MapInv, NEW s \in Sockets, UserLeaves(Owner[s]),
         connected' \subseteq connected, connected \subseteq connected' \cup {s},
         erred' = erred \cap connected',
         lookups' \in [Sockets -> [Stages -> 0..LookupBound]],
         \A t \in Sockets \ {s} : Pending(t)' = Pending(t)
  PROVE  MapInv'
  <1> DEFINE u == Owner[s]
  <1>1. MapTypeOK /\ UserLeaves(u) /\ DeleteUserData(u)
    BY InvParts DEF UserLeaves
  <1>a. /\ DOMAIN presence' = DOMAIN presence \ {u} /\ DOMAIN positions' = DOMAIN positions \ {u}
        /\ \A v \in DOMAIN positions' : positions'[v] = positions[v]
    BY <1>1, DeletedData
  <1>b. /\ DOMAIN shown' = DOMAIN shown \ {u}
        /\ \A v \in DOMAIN shown' : shown'[v] = shown[v]
    BY <1>1, LeftMap
  <1>2. MapTypeOK'
    BY <1>1, DeletedData, LeftMap, ZenonT(40) DEF MapTypeOK
  <1>3. OnlyJoinersHidden'
    <2>1. ASSUME NEW v \in DOMAIN shown' \ DOMAIN positions'
          PROVE  \E t \in connected' : Owner[t] = v /\ (Pending(t)' \/ t \in erred')
      <3>1. v # u /\ v \in DOMAIN shown \ DOMAIN positions
        BY <1>a, <1>b, <2>1
      <3>2. PICK t \in connected : Owner[t] = v /\ (Pending(t) \/ t \in erred)
        BY <3>1, InvParts DEF OnlyJoinersHidden
      <3>3. t \in Sockets \ {s} /\ t \in connected'
        BY <1>1, <3>1, <3>2 DEF MapTypeOK
      <3> QED
        BY <3>2, <3>3
    <2> QED
      BY <2>1 DEF OnlyJoinersHidden
  <1>4. /\ DOMAIN positions' \subseteq DOMAIN presence'
        /\ DOMAIN positions' \subseteq DOMAIN shown'
        /\ \A v \in DOMAIN positions' : shown'[v] = positions'[v]
    BY <1>a, <1>b, InvParts
  <1> QED
    BY <1>2, <1>3, <1>4, InvFromParts

(* A closing socket preserves the invariant.                               *)
LEMMA CloseInv ==
  ASSUME MapInv, NEW s \in Sockets, s \in connected, Close(s),
         lookups' \in [Sockets -> [Stages -> 0..LookupBound]],
         \A t \in Sockets \ {s} : Pending(t)' = Pending(t)
  PROVE  MapInv'
  <1>1. /\ connected' = connected \ {s} /\ erred' = erred \ {s}
        /\ UserLeaves(Owner[s]) /\ erred \subseteq connected
    BY InvParts DEF Close, MapTypeOK
  <1>2. connected' \subseteq connected /\ connected \subseteq connected' \cup {s}
        /\ erred' = erred \cap connected'
    BY <1>1
  <1> QED
    BY <1>1, <1>2, LeavesInv

(* An answer that changes nothing but the lookups of s, and errors.        *)
LEMMA AnswerOnlyInv ==
  ASSUME MapInv, NEW s \in Sockets, NEW stage \in Stages, Answered(s, stage),
         s \in connected => s \in erred', erred \subseteq erred', erred' \subseteq connected,
         UNCHANGED <<connected, presence, positions, shown>>
  PROVE  MapInv'
  <1>1. MapTypeOK'
    BY InvParts, AnsweredLookups DEF MapTypeOK
  <1>2. OnlyJoinersHidden'
    <2>1. ASSUME NEW v \in DOMAIN shown \ DOMAIN positions
          PROVE  \E t \in connected : Owner[t] = v /\ (Pending(t)' \/ t \in erred')
      <3>1. PICK t \in connected : Owner[t] = v /\ (Pending(t) \/ t \in erred)
        BY <2>1, InvParts DEF OnlyJoinersHidden
      <3>2. t \in Sockets
        BY <3>1, InvParts DEF MapTypeOK
      <3>3. t # s => Pending(t)' = Pending(t)
        BY <3>2, InvParts, AnsweredLookups
      <3> QED
        BY <3>1, <3>3
    <2> QED
      BY <2>1 DEF OnlyJoinersHidden
  <1> QED
    BY <1>1, <1>2, InvParts, InvFromParts

(* UpdatePosition preserves the invariant.                                 *)
LEMMA UpdatePositionInv ==
  ASSUME MapInv, NEW s \in Sockets, NEW place \in Places, UpdatePosition(s, place)
  PROVE  MapInv'
  <1> DEFINE u == Owner[s]
  <1>1. MapTypeOK /\ u \in DOMAIN positions /\ u \in DOMAIN shown /\ u \in Users
    BY InvParts, OwnerIsUser DEF UpdatePosition
  <1>2. /\ DOMAIN positions' = DOMAIN positions /\ positions' \in [DOMAIN positions' -> Places]
        /\ \A v \in DOMAIN positions' : positions'[v] = IF v = u THEN place ELSE positions[v]
    <2>1. positions' = With(positions, u, place) /\ positions \in [DOMAIN positions -> Places]
      BY <1>1 DEF UpdatePosition, MapTypeOK
    <2> QED
      BY <1>1, <2>1 DEF With
  <1>3. /\ DOMAIN shown' = DOMAIN shown /\ shown' \in [DOMAIN shown' -> Places]
        /\ \A v \in DOMAIN shown' : shown'[v] = IF v = u THEN place ELSE shown[v]
    <2>1. shown' = With(shown, u, place) /\ shown \in [DOMAIN shown -> Places]
      BY <1>1 DEF UpdatePosition, MapTypeOK
    <2> QED
      BY <1>1, <2>1 DEF With
  <1>4. MapTypeOK'
    BY <1>1, <1>2, <1>3 DEF UpdatePosition, MapTypeOK
  <1>5. OnlyJoinersHidden'
    BY <1>2, <1>3, InvParts DEF UpdatePosition, OnlyJoinersHidden, Pending
  <1> QED
    BY <1>2, <1>3, <1>4, <1>5, InvParts, InvFromParts DEF UpdatePosition

(* Every step preserves the invariant.                                     *)
LEMMA MapNextInv == MapInv /\ [MapNext]_mapVars => MapInv'
  <1> SUFFICES ASSUME MapInv, [MapNext]_mapVars PROVE MapInv'
    OBVIOUS
  <1>1. ASSUME NEW s \in Sockets, Answer(s) PROVE MapInv'
    <2>1. ASSUME UserNotFound(s) PROVE MapInv'
      <3>1. "id" \in Stages /\ Answered(s, "id") /\ Close(s)
        BY <2>1 DEF UserNotFound, Stages
      <3>2. CASE s \in connected
        BY <3>1, <3>2, InvParts, AnsweredLookups, CloseInv
      <3>3. CASE s \notin connected
        BY <3>1, <3>3, InvParts, AnswerOnlyInv DEF Close, MapTypeOK
      <3> QED
        BY <3>2, <3>3
    <2>2. ASSUME NEW stage \in Stages, LookupFails(s, stage) PROVE MapInv'
      <3>1. /\ Answered(s, stage) /\ (s \in connected => s \in erred')
            /\ erred \subseteq erred' /\ erred' \subseteq connected
            /\ UNCHANGED <<connected, presence, positions, shown>>
        BY <2>2, InvParts DEF LookupFails, MapTypeOK
      <3> QED
        BY <3>1, AnswerOnlyInv
    <2> QED
      BY <1>1, <2>1, <2>2, EmailUnknownInv, FinishJoinInv DEF Answer
  <1>2. ASSUME NEW s \in Sockets, Disconnect(s) PROVE MapInv'
    BY <1>2, InvParts, CloseInv DEF Disconnect, MapTypeOK, Pending
  <1>3. ASSUME NEW s \in Sockets, LeaveMap(s) PROVE MapInv'
    BY <1>3, InvParts, LeavesInv DEF LeaveMap, MapTypeOK, Pending
  <1>4. CASE Messages
    BY <1>2, <1>3, <1>4, ConnectInv, StartJoinInv, UpdatePositionInv DEF Messages
  <1>5. CASE UNCHANGED mapVars
    BY <1>5 DEF mapVars, MapInv, MapTypeOK, ViewsAgree, ActivePositions, OnlyJoinersHidden, Pending
  <1> QED
    BY <1>1, <1>4, <1>5 DEF MapNext

(* The invariant holds in every reachable state of the map.                *)
THEOREM MapInvariant == MapSpec => []MapInv
  BY MapInitInv, MapNextInv, PTL DEF MapSpec

(* Who joins late sees no avatar the others do not see, and each where     *)
(* they see it.                                                            *)
THEOREM ViewsAgreeAlways == MapSpec => []ViewsAgree
  <1>1. MapInv => ViewsAgree
    BY DEF MapInv
  <1> QED
    BY <1>1, MapInvariant, PTL

(* An avatar that only early listeners see belongs to a connected user     *)
(* whose joinMap waits for the database or has been refused an answer.     *)
THEOREM OnlyJoinersHiddenAlways == MapSpec => []OnlyJoinersHidden
  <1>1. MapInv => OnlyJoinersHidden
    BY DEF MapInv
  <1> QED
    BY <1>1, MapInvariant, PTL
(* Type correctness of the map.                                            *)
THEOREM MapTypeCorrect == MapSpec => []MapTypeOK
  <1>1. MapInv => MapTypeOK
    BY DEF MapInv
  <1> QED
    BY <1>1, MapInvariant, PTL
-----------------------------------------------------------------------------
(* The socket of a presence belongs to the user.                           *)
PresenceOwned == \A u \in DOMAIN presence : Owner[presence[u]] = u

(* What a step may do to presences: keep, take away, or add one that an    *)
(* answer of the database brings.                                          *)
PresenceStep ==
  \/ /\ DOMAIN presence' \subseteq DOMAIN presence
     /\ \A u \in DOMAIN presence' : presence'[u] = presence[u]
     /\ \/ connected \subseteq connected'
        \/ \E s \in connected : connected' = connected \ {s} /\ Owner[s] \notin DOMAIN presence'
  \/ \E s \in Sockets :
       /\ presence' = With(presence, Owner[s], s)
       /\ connected' = connected /\ lookups'[s] # lookups[s]

(* Every step of the map is of this form.                                  *)
LEMMA MapPresenceStep ==
  ASSUME MapInv, [MapNext]_mapVars
  PROVE  PresenceStep
  <1>1. lookups \in [Sockets -> [Stages -> 0..LookupBound]]
    BY DEF MapInv, MapTypeOK
  <1>2. ASSUME NEW s \in Sockets, NEW stage \in Stages, NEW place \in Places,
               FinishJoin(s, stage, place)
        PROVE  PresenceStep
    <2>1. lookups'[s] # lookups[s]
      <3>1. lookups'[s][stage] = lookups[s][stage] - 1 /\ lookups[s][stage] \in Nat
        BY <1>1, <1>2 DEF FinishJoin, Answered
      <3> QED
        BY <3>1
    <2> QED
      BY <1>2, <2>1 DEF FinishJoin, SetPresence, PresenceStep
  <1>3. ASSUME NEW s \in Sockets, Close(s) PROVE PresenceStep
    BY <1>3 DEF Close, UserLeaves, DeleteUserData, Without, Restrict, PresenceStep
  <1>4. ASSUME NEW s \in Sockets, Answer(s) PROVE PresenceStep
    <2>1. CASE EmailUnknown(s)
      BY <2>1 DEF EmailUnknown, PresenceStep
    <2>2. CASE UserNotFound(s)
      BY <1>3, <2>2 DEF UserNotFound
    <2>3. ASSUME NEW stage \in Stages, LookupFails(s, stage) PROVE PresenceStep
      BY <2>3 DEF LookupFails, PresenceStep
    <2> QED
      BY <1>2, <1>4, <2>1, <2>2, <2>3 DEF Answer
  <1>5. ASSUME NEW s \in Sockets, StartJoin(s) \/ LeaveMap(s) PROVE PresenceStep
    BY <1>5 DEF StartJoin, LeaveMap, UserLeaves, DeleteUserData, Without, Restrict, PresenceStep
  <1>6. ASSUME NEW s \in Sockets, Connect(s) PROVE PresenceStep
    BY <1>6 DEF Connect, PresenceStep
  <1>7. ASSUME NEW s \in Sockets, NEW place \in Places, UpdatePosition(s, place)
        PROVE  PresenceStep
    BY <1>7 DEF UpdatePosition, PresenceStep
  <1>8. CASE UNCHANGED mapVars
    BY <1>8 DEF mapVars, PresenceStep
  <1> QED
    BY <1>3, <1>4, <1>5, <1>6, <1>7, <1>8 DEF MapNext, Messages, Disconnect

(* A socket that closes takes its own presence with it, so a presence that *)
(* names a closed socket was there before or is a late answer.             *)
THEOREM GhostsAreLateAnswersAlways == MapSpec => GhostsAreLateAnswers
  <1> DEFINE Late ==
        \A u \in DOMAIN presence' :
          presence'[u] \notin connected' =>
            \/ u \in DOMAIN presence /\ presence[u] = presence'[u] /\ presence[u] \notin connected
            \/ lookups'[presence'[u]] # lookups[presence'[u]] /\ presence'[u] \notin connected
  <1>1. MapInit => PresenceOwned
    BY DEF MapInit, PresenceOwned
  <1>2. MapInv /\ PresenceOwned /\ [MapNext]_mapVars => PresenceOwned'
    <2> SUFFICES ASSUME MapInv, PresenceOwned, [MapNext]_mapVars PROVE PresenceOwned'
      OBVIOUS
    <2>1. PresenceStep
      BY MapPresenceStep
    <2>2. ASSUME NEW s \in Sockets, presence' = With(presence, Owner[s], s)
          PROVE  PresenceOwned'
      BY <2>2 DEF PresenceOwned, With
    <2>3. ASSUME DOMAIN presence' \subseteq DOMAIN presence,
                 \A u \in DOMAIN presence' : presence'[u] = presence[u]
          PROVE  PresenceOwned'
      BY <2>3 DEF PresenceOwned
    <2> QED
      BY <2>1, <2>2, <2>3 DEF PresenceStep
  <1>3. MapInv /\ PresenceOwned /\ [MapNext]_mapVars => [Late]_mapVars
    <2>1. ASSUME MapInv, PresenceOwned, [MapNext]_mapVars, NEW u \in DOMAIN presence',
                 presence'[u] \notin connected'
          PROVE  \/ /\ u \in DOMAIN presence /\ presence[u] = presence'[u]
                    /\ presence[u] \notin connected
                 \/ lookups'[presence'[u]] # lookups[presence'[u]] /\ presence'[u] \notin connected
      <3>1. PresenceStep
        BY <2>1, MapPresenceStep
      <3>2. ASSUME NEW s \in Sockets, presence' = With(presence, Owner[s], s),
                   connected' = connected, lookups'[s] # lookups[s]
            PROVE  \/ /\ u \in DOMAIN presence /\ presence[u] = presence'[u]
                      /\ presence[u] \notin connected
                   \/ lookups'[presence'[u]] # lookups[presence'[u]] /\ presence'[u] \notin connected
        BY <2>1, <3>2 DEF With
      <3>3. ASSUME u \in DOMAIN presence, presence'[u] = presence[u],
                   \/ connected \subseteq connected'
                   \/ \E s \in connected :
                        connected' = connected \ {s} /\ Owner[s] \notin DOMAIN presence'
            PROVE  presence[u] \notin connected
        BY <2>1, <3>3 DEF PresenceOwned
      <3> QED
        BY <2>1, <3>1, <3>2, <3>3 DEF PresenceStep
    <2> QED
      BY <2>1
  <1>4. MapSpec => []PresenceOwned
    BY <1>1, <1>2, MapInvariant, PTL DEF MapSpec
  <1> QED
    BY <1>3, <1>4, MapInvariant, PTL DEF MapSpec, GhostsAreLateAnswers
=============================================================================
