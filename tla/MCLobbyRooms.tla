---------------------------- MODULE MCLobbyRooms ----------------------------
(* Model values and symmetry for LobbyRooms. *)
EXTENDS LobbyRooms, TLC

CONSTANTS u1, u2, u3, r1, r2, NoDocument

TwoUsers == {u1, u2}
ThreeUsers == {u1, u2, u3}
OneSlot == {r1}
TwoSlots == {r1, r2}
PairRooms == {2}
MixedRooms == {2, 3}

UserSymmetry == Permutations(ThreeUsers)
SlotAndUserSymmetry == Permutations(TwoUsers) \cup Permutations(TwoSlots)

=============================================================================
