----------------------------- MODULE VirtualMap -----------------------------
(***************************************************************************)
(* Who is on the map (virtual-map.gateway.ts and the use cases behind it). *)
(* joinMap awaits the database for the profile of the user: between its    *)
(* first step, which forgets the user, and the step that answers, every    *)
(* other event may come in, the closing of the same socket included.       *)
(*                                                                         *)
(* `shown' is the map of a client that has listened all the time: it adds  *)
(* and moves avatars as userJoined and positionUpdate say and removes them *)
(* on userLeft.  A client that joins is sent initialPositions instead.     *)
(*                                                                         *)
(* Abstracted: names and chat; coordinates are a few places.               *)
(***************************************************************************)
EXTENDS JsMap

CONSTANTS
  Users,       \* user ids
  Sockets,     \* sockets of /map
  Owner,       \* [Sockets -> Users], from the socket's token
  Places,      \* where an avatar can be
  LookupBound  \* bound: lookups of one socket in the same stage

ASSUME MapAssumption ==
  Owner \in [Sockets -> Users] /\ LookupBound \in Nat

VARIABLES
  connected,  \* the open sockets of the namespace
  presence,   \* presenceMap: user -> socket
  positions,  \* positionMap: user -> place
  lookups,    \* queries under way: socket -> stage -> how many
  erred,      \* open sockets that have been told of a PROCESSING_ERROR (history)
  shown       \* user -> place, as the broadcasts told

mapVars == <<connected, presence, positions, lookups, erred, shown>>

Stages == {"email", "id"}
Pending(s) == \E stage \in Stages : lookups[s][stage] > 0

(* initialPositions: the positions of those who have a presence.           *)
ActivePositions == Restrict(positions, DOMAIN positions \cap DOMAIN presence)
-----------------------------------------------------------------------------
(* A socket id is never used again.                                        *)
Connect(s) ==
  /\ s \notin connected /\ ~Pending(s)
  /\ \A u \in DOMAIN presence : presence[u] # s
  /\ connected' = connected \cup {s}
  /\ UNCHANGED <<presence, positions, lookups, erred, shown>>

(* Mutant: the presence is kept. *)
DeletePositionOnly(u) == positions' = Without(positions, u) /\ UNCHANGED presence

DeleteUserData(u) ==
  /\ positions' = Without(positions, u)
  /\ presence' = Without(presence, u)

(* The user leaves, on whichever of its sockets, and everybody is told.    *)
UserLeaves(u) == DeleteUserData(u) /\ shown' = Without(shown, u)

(* joinMap up to its first query: whatever is left of the user goes, and   *)
(* nobody is told.                                                         *)
StartJoin(s) ==
  /\ s \in connected
  /\ lookups[s]["email"] < LookupBound
  /\ DeleteUserData(Owner[s])
  /\ lookups' = [lookups EXCEPT ![s]["email"] = @ + 1]
  /\ UNCHANGED <<connected, erred, shown>>

Answered(s, stage) ==
  /\ lookups[s][stage] > 0
  /\ lookups' = [lookups EXCEPT ![s][stage] = @ - 1]

(* Nobody has the email of the token; the user id is tried.                *)
EmailUnknown(s) ==
  /\ lookups[s]["email"] > 0 /\ lookups[s]["id"] < LookupBound
  /\ lookups' = [lookups EXCEPT ![s]["email"] = @ - 1, ![s]["id"] = @ + 1]
  /\ UNCHANGED <<connected, presence, positions, erred, shown>>

(* Mutant: the place is kept from the broadcast. *)
Unannounced(u, place) == shown

Announced(u, place) == With(shown, u, place)

(* Mutant: the arguments are swapped. *)
SwappedPresence(u, s) == With(presence, s, u)

SetPresence(u, s) == With(presence, u, s)

(* The profile is there: the socket may be closed by now.                  *)
FinishJoin(s, stage, place) ==
  /\ Answered(s, stage)
  /\ presence' = SetPresence(Owner[s], s)
  /\ positions' = With(positions, Owner[s], place)
  /\ shown' = Announced(Owner[s], place)
  /\ UNCHANGED <<connected, erred>>

(* The socket closes and its user leaves.                                  *)
Close(s) ==
  IF s \in connected
  THEN /\ connected' = connected \ {s}
       /\ erred' = erred \ {s}
       /\ UserLeaves(Owner[s])
  ELSE UNCHANGED <<connected, presence, positions, erred, shown>>

(* Mutant: the client is told and left alone. *)
UserOnlyTold(s) ==
  Answered(s, "id") /\ UNCHANGED <<connected, presence, positions, erred, shown>>

(* There is no such user: the server closes the socket.                    *)
UserNotFound(s) == Answered(s, "id") /\ Close(s)

(* The query fails: the client is told, and is still connected.            *)
LookupFails(s, stage) ==
  /\ Answered(s, stage)
  /\ erred' = erred \cup ({s} \cap connected)
  /\ UNCHANGED <<connected, presence, positions, shown>>

Disconnect(s) == s \in connected /\ Close(s) /\ UNCHANGED lookups

LeaveMap(s) ==
  /\ s \in connected
  /\ UserLeaves(Owner[s])
  /\ UNCHANGED <<connected, lookups, erred>>

UpdatePosition(s, place) ==
  /\ s \in connected
  /\ Owner[s] \in DOMAIN positions
  /\ positions' = With(positions, Owner[s], place)
  /\ shown' = With(shown, Owner[s], place)
  /\ UNCHANGED <<connected, presence, lookups, erred>>
-----------------------------------------------------------------------------
MapInit ==
  /\ connected = {} /\ presence = <<>> /\ positions = <<>>
  /\ lookups = [s \in Sockets |-> [stage \in Stages |-> 0]]
  /\ erred = {} /\ shown = <<>>

Answer(s) ==
  \/ EmailUnknown(s)
  \/ UserNotFound(s)
  \/ \E stage \in Stages :
       LookupFails(s, stage) \/ \E place \in Places : FinishJoin(s, stage, place)

Messages == \E s \in Sockets :
  \/ Connect(s)
  \/ StartJoin(s)
  \/ LeaveMap(s)
  \/ Disconnect(s)
  \/ \E place \in Places : UpdatePosition(s, place)

MapNext == (\E s \in Sockets : Answer(s)) \/ Messages

(* A query returns or fails; clients owe nothing.                          *)
MapSpec ==
  MapInit /\ [][MapNext]_mapVars /\ \A s \in Sockets : WF_mapVars(Answer(s))
-----------------------------------------------------------------------------
(* Properties.                                                             *)

MapTypeOK ==
  /\ connected \subseteq Sockets /\ erred \subseteq connected
  /\ DOMAIN presence \subseteq Users /\ presence \in [DOMAIN presence -> Sockets]
  /\ DOMAIN positions \subseteq Users /\ positions \in [DOMAIN positions -> Places]
  /\ lookups \in [Sockets -> [Stages -> 0..LookupBound]]
  /\ DOMAIN shown \subseteq Users /\ shown \in [DOMAIN shown -> Places]

(* Who joins late sees no avatar that the others do not see, and every one *)
(* at the place where they see it; no position is hidden by a missing      *)
(* presence.                                                               *)
ViewsAgree ==
  /\ ActivePositions = positions
  /\ \A u \in DOMAIN positions : u \in DOMAIN shown /\ shown[u] = positions[u]

(* An avatar that late joiners do not see although the others do belongs   *)
(* to a user who is connected and whose joinMap has forgotten it and is    *)
(* still waiting for the database or has been told of an error.            *)
OnlyJoinersHidden ==
  \A u \in DOMAIN shown \ DOMAIN positions :
    \E s \in connected : Owner[s] = u /\ (Pending(s) \/ s \in erred)

Hidden(u) == u \in DOMAIN shown \ DOMAIN positions

(* Nobody stays half visible, unless told of an error.                     *)
HiddenSettles ==
  \A u \in Users : Hidden(u) ~> (~Hidden(u) \/ \E s \in erred : Owner[s] = u)

MapInv == MapTypeOK /\ ViewsAgree /\ OnlyJoinersHidden

(* A presence that names a closed socket comes from one cause only: an     *)
(* answer of the database after the socket was closed.  Closing a socket   *)
(* never leaves its own presence behind.                                   *)
GhostsAreLateAnswers ==
  [][\A u \in DOMAIN presence' :
       presence'[u] \notin connected' =>
         \/ u \in DOMAIN presence /\ presence[u] = presence'[u] /\ presence[u] \notin connected
         \/ lookups'[presence'[u]] # lookups[presence'[u]] /\ presence'[u] \notin connected
    ]_mapVars

(* virtual-map.gateway.ts:29: dead connections are detected "to clean up   *)
(* ghost positions": a presence whose socket is closed does not stay.      *)
GhostsCleanedUp ==
  \A u \in Users :
    LET Ghost == u \in DOMAIN presence /\ presence[u] \notin connected
    IN  Ghost ~> ~Ghost
=============================================================================
