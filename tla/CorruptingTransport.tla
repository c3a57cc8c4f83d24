------------------------- MODULE CorruptingTransport -------------------------
(***************************************************************************)
(* The handshake over a transport that may damage what it carries.  Hello  *)
(* messages travel in the clear, so a damaged one still parses and is      *)
(* acted on; protected records that are damaged fail to decrypt, which the *)
(* other modules cover.  Damage turns one flag of a hello on or off, at    *)
(* most MaxDamage times in a connection.                                   *)
(***************************************************************************)
EXTENDS TLSHandshake

CONSTANT MaxDamage

ASSUME DamageAssumption == MaxDamage \in Nat

VARIABLE damage
allVars == <<vars, damage>>

CInit == Init /\ damage = 0

Flip(m, f) == [m EXCEPT !.flags = IF f \in @ THEN @ \ {f} ELSE @ \cup {f}]

\* The next record of a channel is a hello and arrives with flag f flipped.
Damaged(channel, f) ==
  /\ channel # <<>>
  /\ Head(channel).mt \in {"CLIENT_HELLO", "SERVER_HELLO"}
  /\ Head(channel).key = PlainKey
  /\ channel' = [channel EXCEPT ![1] = Flip(@, f)]

\* What a hello can be damaged in: the negotiated parameters.
HelloFlags == Flags \ {"chain", "trusted", "ok"}

CorruptToServer ==
  /\ damage < MaxDamage
  /\ damage' = damage + 1
  /\ \E f \in HelloFlags : Damaged(toServer, f)
  /\ UNCHANGED <<client, server, toClient>>

CorruptToClient ==
  /\ damage < MaxDamage
  /\ damage' = damage + 1
  /\ \E f \in HelloFlags : Damaged(toClient, f)
  /\ UNCHANGED <<client, server, toServer>>

Carry == Next /\ UNCHANGED damage

CNext == Carry \/ CorruptToServer \/ CorruptToClient

CSpec == CInit /\ [][CNext]_allVars

-----------------------------------------------------------------------------
(* Properties *)

\* No damage to the hellos goes unnoticed: as soon as one endpoint completes,
\* both have negotiated the same parameters, on the best version both enable
\* and with the extended master secret both offer (the Finished messages and
\* the downgrade sentinel see to it).
NegotiationIntact ==
  Established(client) \/ Established(server) =>
    /\ client.version = BestVersion /\ server.version = BestVersion
    /\ client.new_cipher = server.new_cipher
    /\ client.hit = server.hit
    /\ IF BestVersion = "TLS1_3" THEN client.group = server.group
                                 ELSE client.extms /\ server.extms

==============================================================================
