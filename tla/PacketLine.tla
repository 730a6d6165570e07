----------------------------- MODULE PacketLine -----------------------------
(***************************************************************************)
(* What the packet protocol promises to its users: packets arrive in       *)
(* order, unchanged and at most once, or not at all.                       *)
(***************************************************************************)
CONSTANTS Packets, NoPacket

VARIABLES
  current,   \* the packet sent last
  accepted,  \* the packet accepted last
  taken      \* current has been accepted

Init == current = NoPacket /\ accepted = NoPacket /\ taken = TRUE

Send == /\ current' \in Packets
        /\ taken' = FALSE
        /\ UNCHANGED accepted

Accept == /\ ~taken
          /\ accepted' = current
          /\ taken' = TRUE
          /\ UNCHANGED current

Spec == Init /\ [][Send \/ Accept]_<<current, accepted, taken>>
=============================================================================
