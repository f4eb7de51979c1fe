--------------------------- MODULE AppliedSettings ---------------------------
(***************************************************************************)
(* What the daemon promises about applied settings, with no timer, disk,   *)
(* process or network in sight: the packet it will re-apply is one the     *)
(* device once took in full, a client's failed attempt leaves nothing to   *)
(* re-apply, a failed profile leaves the previous packet in charge, and a  *)
(* re-application never puts anything else into the device.                *)
(***************************************************************************)
CONSTANTS Packets, NoPacket, Profiles, NoProfile

VARIABLES lastClientPacket, activeProfile, hardware

appliedVars == <<lastClientPacket, activeProfile, hardware>>

Init ==
  /\ lastClientPacket = NoPacket
  /\ activeProfile = NoProfile
  /\ hardware = NoPacket

(* The device took all of a packet, from a client or from a profile.       *)
Accept(packet, source) ==
  /\ hardware' = packet
  /\ lastClientPacket' = packet
  /\ activeProfile' = source

(* The device did not take all of a client's packet.                       *)
Reject ==
  /\ hardware' = NoPacket
  /\ lastClientPacket' = NoPacket
  /\ activeProfile' = NoProfile

(* The device lost what it held, or took only part of a profile or of what *)
(* was re-applied.                                                         *)
Disturb ==
  /\ hardware' = NoPacket
  /\ UNCHANGED <<lastClientPacket, activeProfile>>

Reapply ==
  /\ lastClientPacket # NoPacket
  /\ hardware' = lastClientPacket
  /\ UNCHANGED <<lastClientPacket, activeProfile>>

(* The daemon went down; the device keeps what it has.                     *)
Forget ==
  /\ lastClientPacket' = NoPacket
  /\ activeProfile' = NoProfile
  /\ UNCHANGED hardware

Next ==
  \/ \E packet \in Packets, source \in Profiles \cup {NoProfile} :
       Accept(packet, source)
  \/ Reject
  \/ Disturb
  \/ Reapply
  \/ Forget

Spec == Init /\ [][Next]_appliedVars
=============================================================================
