----------------------------- MODULE DuelCycle -----------------------------
(***************************************************************************)
(* What the football duel promises to the virtual world: one duel at a     *)
(* time, between two different users; it ends once; the crown shown on the *)
(* map goes to one of those who played, or stays as it is after a draw,    *)
(* and may be taken off.                                                   *)
(***************************************************************************)
CONSTANTS Users, NoOne

VARIABLES playing, crown

cycleVars == <<playing, crown>>

CycleInit == playing = {} /\ crown = NoOne

Start(p, q) ==
  /\ playing = {} /\ p # q
  /\ playing' = {p, q}
  /\ UNCHANGED crown

Win(w) == w \in playing /\ playing' = {} /\ crown' = w

Draw == playing # {} /\ playing' = {} /\ UNCHANGED crown

Fade == crown' = NoOne /\ UNCHANGED playing

CycleNext ==
  \/ \E p, q \in Users : Start(p, q)
  \/ \E w \in Users : Win(w)
  \/ Draw
  \/ Fade

CycleSpec == CycleInit /\ [][CycleNext]_cycleVars
=============================================================================
