---------------------------- MODULE ArenaRoster ----------------------------
(***************************************************************************)
(* What the shooter arena promises to the rest of the virtual world: who   *)
(* is in the room, and the number of players the map advertises.  A player *)
(* enters a room that has space, goes out by the door (leaving or losing   *)
(* the connection), which refreshes the advertised number, or falls        *)
(* (eliminated), which does not.                                           *)
(***************************************************************************)
EXTENDS Naturals, FiniteSets, FiniteSetTheorems, TLAPS

CONSTANTS Users, MaxPlayers

VARIABLES members, advertised

rosterSpecVars == <<members, advertised>>

RosterInit == members = {} /\ advertised = 0

Enter(u) ==
  /\ Cardinality(members) < MaxPlayers
  /\ members' = members \cup {u}
  /\ advertised' = Cardinality(members')

(* Also a goodbye of somebody who is not in the room refreshes the number. *)
Quit(u) ==
  /\ members' = members \ {u}
  /\ advertised' = Cardinality(members')

Fall(u) ==
  /\ u \in members
  /\ members' = members \ {u}
  /\ UNCHANGED advertised

RosterNext == \E u \in Users : Enter(u) \/ Quit(u) \/ Fall(u)

RosterSpec == RosterInit /\ [][RosterNext]_rosterSpecVars
-----------------------------------------------------------------------------
(* The room is never over its limit, and the map may promise less space    *)
(* than there is but never more.                                           *)
NeverOverfull ==
  /\ members \subseteq Users
  /\ Cardinality(members) <= advertised
  /\ advertised \in 0..MaxPlayers

(* Every step of the roster keeps it within its limit.                     *)
LEMMA RosterStep ==
  ASSUME IsFiniteSet(Users), MaxPlayers \in Nat, NeverOverfull, [RosterNext]_rosterSpecVars
  PROVE  NeverOverfull'
  <1>1. IsFiniteSet(members) /\ Cardinality(members) \in Nat
    BY FS_Subset, FS_CardinalityType DEF NeverOverfull
  <1>2. ASSUME NEW u \in Users, Enter(u) PROVE NeverOverfull'
    <2>1. /\ IsFiniteSet(members')
          /\ Cardinality(members') \in Cardinality(members)..(Cardinality(members) + 1)
      BY <1>1, <1>2, FS_AddElement, SMTT(30) DEF Enter
    <2> QED
      BY <1>1, <1>2, <2>1 DEF Enter, NeverOverfull
  <1>3. ASSUME NEW u \in Users, Quit(u) \/ Fall(u) PROVE NeverOverfull'
    <2>1. Cardinality(members') \in Nat /\ Cardinality(members') <= Cardinality(members)
      <3>1. members' = members \ {u}
        BY <1>3 DEF Quit, Fall
      <3> QED
        BY <1>1, <3>1, FS_Subset, FS_CardinalityType
    <2> QED
      BY <1>1, <1>3, <2>1 DEF Quit, Fall, NeverOverfull
  <1>4. CASE UNCHANGED rosterSpecVars
    BY <1>4 DEF rosterSpecVars, NeverOverfull
  <1> QED
    BY <1>2, <1>3, <1>4 DEF RosterNext

(* The abstract arena is never over its limit, whatever finite set of      *)
(* users comes and goes.                                                   *)
THEOREM RosterNeverOverfull ==
  ASSUME IsFiniteSet(Users), MaxPlayers \in Nat
  PROVE  RosterSpec => []NeverOverfull
  <1>1. RosterInit => NeverOverfull
    BY FS_EmptySet DEF RosterInit, NeverOverfull
  <1>2. NeverOverfull /\ [RosterNext]_rosterSpecVars => NeverOverfull'
    BY RosterStep
  <1> QED
    BY <1>1, <1>2, PTL DEF RosterSpec
=============================================================================
