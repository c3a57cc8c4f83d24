---------------------------- MODULE ArbitraryPeer ---------------------------
(***************************************************************************)
(* One endpoint of this library whose peer sends whatever it likes: any    *)
(* message, in any order, in the clear or under the current key, with or   *)
(* without the right verify_data.  What holds here does not depend on the  *)
(* peer following the protocol.                                            *)
(*                                                                         *)
(* The peer speaks when the endpoint waits for a record (an endpoint       *)
(* cannot tell whether a record arrived earlier) and has read all that was *)
(* sent to it.                                                             *)
(***************************************************************************)
EXTENDS Statem

CONSTANTS IsServer,   \* which side the endpoint is
          OptionSet,  \* the settings considered for it
          Hellos      \* the bodies of the ClientHellos or ServerHellos it gets

ASSUME PeerAssumption ==
  IsServer \in BOOLEAN /\ OptionSet \subseteq Options /\ Hellos \subseteq SUBSET Flags

Init ==
  /\ \E o \in OptionSet : s = ossl_statem_clear(IsServer, o)
  /\ in = <<>>
  /\ out = <<>>

-----------------------------------------------------------------------------
(* What the peer can send *)

FlagsOf(mt) ==
  CASE mt \in {"CLIENT_HELLO", "SERVER_HELLO"} -> Hellos
    [] mt = "CERTIFICATE" -> {{}, {"chain"}, {"chain", "trusted"}}
    [] mt \in {"CERTIFICATE_VERIFY", "SERVER_KEY_EXCHANGE"} -> {{}, {"ok"}}
    [] OTHER -> {{}}

MacsOf(mt) == IF mt = "FINISHED" THEN {NoMac, final_finish_mac(s, PeerSide(s))} ELSE {NoMac}

PeerMessages ==
  UNION { [mt : {mt}, flags : FlagsOf(mt), mac : MacsOf(mt), key : {PlainKey, s.enc_read}]
          : mt \in MessageTypes }

PeerSends ==
  /\ Reading("HEADER") \/ (s.state = "FINISHED" /\ SSL_IS_TLS13(s))
  /\ in = <<>>
  /\ \E m \in PeerMessages : in' = <<m>>
  /\ out' = <<>>
  /\ UNCHANGED s

Next == EndpointNext \/ PeerSends

Spec == Init /\ [][Next]_vars

-----------------------------------------------------------------------------
(* Properties *)

\* The SSL object and the records keep their types (ssl_local.h, statem.h).
TypeOK == s \in SSL /\ in \in Seq(Records) /\ out \in Seq(Records)

Established == s.hand_state = "OK"

\* Message `then` was hashed after `first`.
Follows(tr, i, first, then) ==
  \E j, k \in DOMAIN tr : i < j /\ j < k /\ tr[j] = first /\ tr[k] = then

TrustedChain == Elem("CERTIFICATE", {"chain", "trusted"})
Signature(mt) == Elem(mt, {"ok"})

\* The client sent a trusted chain and then proved, over this transcript, that
\* it holds its key; both after the server's own flight.
ClientProof(tr) ==
  \E i \in DOMAIN tr : /\ tr[i].mt \in {"SERVER_DONE", "FINISHED"}
                       /\ Follows(tr, i, TrustedChain, Signature("CERTIFICATE_VERIFY"))

\* A server that demands a certificate (SSL_VERIFY_FAIL_IF_NO_PEER_CERT), or
\* that reports one, completes a full handshake only with a client that sent
\* a trusted chain and a valid CertificateVerify, whatever order of messages
\* that client tries.
ClientAuthenticated ==
  Established /\ s.server /\ ~s.hit /\ (s.peer \/ (s.opt.verify = "FAIL" /\ ~aPSK(s)))
    => ClientProof(s.transcript)

\* The server sent a trusted chain, in its first flight (a chain that comes
\* later is the client's own), and then used its key: it signed the handshake
\* or its ephemeral key, or it could read our key exchange.
InFirstFlight(tr, i) == \A k \in DOMAIN tr : k < i => tr[k].mt \notin {"SERVER_DONE", "FINISHED"}
ServerProof(t) ==
  \E i, j \in DOMAIN t.transcript :
    /\ t.transcript[i] = TrustedChain /\ InFirstFlight(t.transcript, i)
    /\ i < j
    /\ t.transcript[j] = CASE SSL_IS_TLS13(t) -> Signature("CERTIFICATE_VERIFY")
                          [] t.new_cipher = "DHE" -> Signature("SERVER_KEY_EXCHANGE")
                          [] OTHER -> Elem("CLIENT_KEY_EXCHANGE", {})

\* A client that verifies its peer completes a full handshake of a suite with
\* certificates only with a server that proved possession of a trusted chain.
ServerAuthenticated ==
  /\ Established /\ ~s.server /\ ~s.hit /\ VerifyPeer(s)
  /\ s.new_cipher \in {"RSA", "DHE", "RSAPSK", "TLS13"}
  => ServerProof(s)

\* No order of messages ends the handshake with a direction in the clear, on a
\* key of the handshake epoch or of no secret, or with plaintext alerts still
\* tolerated; and no key is ever derived from an empty transcript or, in
\* TLSv1.2, from the public randoms alone.
KeysProtected ==
  /\ \A k \in {s.enc_read, s.enc_write} :
       k.epoch # "PLAIN" => Len(k.secret) > (IF k.epoch = "TLS1_2" THEN 1 ELSE 0)
  /\ Established => /\ {s.enc_read.epoch, s.enc_write.epoch}
                         = {IF SSL_IS_TLS13(s) THEN "APPLICATION" ELSE "TLS1_2"}
                    /\ ~s.plain_alerts

\* The endpoint never waits for its peer, and never frees its buffering BIO
\* (tls_finish_handshake), while part of a flight is still in that BIO.
NothingHeldBack ==
  Reading("HEADER") \/ (Established /\ Writing("PRE_WORK")) => s.bbio = <<>>

\* What tls_parse_stoc_key_share says: "It is an error if the HelloRetryRequest
\* wants a key_share that we already sent in the first ClientHello".  The code
\* compares with the group of the latest ClientHello, and nothing stops a second
\* HelloRetryRequest from going back to the first group.
RetryChangesShare ==
  ~s.server /\ s.hello_retry_request = "PENDING" /\ s.state # "ERROR"
    => s.group # ossl_statem_clear(FALSE, s.opt).group

Rank(key) == CASE key.epoch = "PLAIN" -> 0 [] key.epoch = "HANDSHAKE" -> 1 [] OTHER -> 2
RetryRank(r) == CASE r = "NONE" -> 0 [] r = "PENDING" -> 1 [] OTHER -> 2

\* Across retries, refused messages and post-handshake reads: a version once
\* negotiated stays, keys only move to later epochs, and a server's HelloRetryRequest
\* exchange, once complete, is not started again (a client's is never marked complete).
NeverGoesBack ==
  [][ /\ s.version # "ANY" => s'.version = s.version
      /\ Rank(s'.enc_read) >= Rank(s.enc_read)
      /\ Rank(s'.enc_write) >= Rank(s.enc_write)
      /\ RetryRank(s'.hello_retry_request) >= RetryRank(s.hello_retry_request)
      /\ s'.state = "FINISHED" /\ s.state # "FINISHED" =>
           (s'.hello_retry_request # "NONE" => s'.version = "TLS1_3") ]_vars

=============================================================================
