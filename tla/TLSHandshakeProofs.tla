------------------------- MODULE TLSHandshakeProofs -------------------------
(***************************************************************************)
(* A client and a server of this library connected to each other agree on  *)
(* what they negotiated, even over a transport that damages their hellos.  *)
(* CA and SA are the two endpoints, each taken with an arbitrary peer:     *)
(* what StatemTypes, StatemSecurity and StatemTranscript show of           *)
(* an endpoint holds for both, and LEMMA TogetherStep joins them.          *)
(***************************************************************************)
EXTENDS CorruptingTransport, TLAPS

CA == INSTANCE StatemTranscript WITH s <- client, in <- toClient, out <- toServer,
        IsServer <- FALSE, OptionSet <- Options, Hellos <- SUBSET Flags
SA == INSTANCE StatemTranscript WITH s <- server, in <- toServer, out <- toClient,
        IsServer <- TRUE, OptionSet <- Options, Hellos <- SUBSET Flags

-----------------------------------------------------------------------------
(* The instances speak of the same data and the same steps *)

LEMMA ClientValues ==
  /\ Options = CA!Options /\ Flags = CA!Flags /\ Records = CA!Records /\ SSL = CA!SSL
  /\ \A b, o : ossl_statem_clear(b, o) = CA!ossl_statem_clear(b, o)
BY Zenon DEF Versions, CA!Versions, Ciphers, CA!Ciphers, Flags, CA!Flags, MessageTypes,
             CA!MessageTypes, Hashed, CA!Hashed, Hash, CA!Hash, Epochs, CA!Epochs, Sides,
             CA!Sides, Keys, CA!Keys, PlainKey, CA!PlainKey, Macs, CA!Macs, NoMac, CA!NoMac,
             Records, CA!Records, NoMsg, CA!NoMsg, MsgFlow, CA!MsgFlow, SubStates, CA!SubStates,
             ClientStates, CA!ClientStates, ServerStates, CA!ServerStates, HandStates,
             CA!HandStates, Reasons, CA!Reasons, Options, CA!Options, SSL, CA!SSL,
             ossl_statem_clear, CA!ossl_statem_clear

\* Every step of the client is a step of the endpoint of CA: the functions of the two
\* instances are the same, each because those it calls are.
LEMMA ClientSame == C!EndpointNext => CA!EndpointNext
<1>1. \A s, reason : C!ossl_statem_fatal(s, reason) = CA!ossl_statem_fatal(s, reason)
  BY SMTT(30)
     DEF C!ossl_statem_fatal, CA!ossl_statem_fatal, C!PlainKey, CA!PlainKey, C!NoMac, CA!NoMac,
         C!NoMsg, CA!NoMsg
<1>2. \A s, reason : C!ossl_statem_fatal_no_alert(s, reason)
      = CA!ossl_statem_fatal_no_alert(s, reason)
  BY SMTT(30) DEF C!ossl_statem_fatal_no_alert, CA!ossl_statem_fatal_no_alert
<1>3. \A s, mt, flags : C!ssl3_finish_mac(s, mt, flags) = CA!ssl3_finish_mac(s, mt, flags)
  BY SMTT(30) DEF C!ssl3_finish_mac, CA!ssl3_finish_mac, C!Elem, CA!Elem
<1>4. \A s : C!create_synthetic_message_hash(s) = CA!create_synthetic_message_hash(s)
  BY SMTT(30)
     DEF C!create_synthetic_message_hash, CA!create_synthetic_message_hash, C!Elem, CA!Elem
<1>5. \A s : C!Random(s) = CA!Random(s)
  BY SMTT(30) DEF C!Random, CA!Random, C!Elem, CA!Elem
<1>6. \A s, writer : C!tls1_key(s, writer) = CA!tls1_key(s, writer)
  BY <1>5, SMTT(30) DEF C!tls1_key, CA!tls1_key
<1>7. \A s, epoch : C!ClientKey13(s, epoch) = CA!ClientKey13(s, epoch)
  BY SMTT(30) DEF C!ClientKey13, CA!ClientKey13
<1>8. \A s, epoch : C!ServerKey13(s, epoch) = CA!ServerKey13(s, epoch)
  BY SMTT(30) DEF C!ServerKey13, CA!ServerKey13
<1>9. \A s, epoch : C!SaveHash(s, epoch) = CA!SaveHash(s, epoch)
  BY SMTT(30) DEF C!SaveHash, CA!SaveHash
<1>10. \A s, epoch : C!tls13_change_write(s, epoch) = CA!tls13_change_write(s, epoch)
  BY <1>7, <1>8, <1>9, SMTT(30)
     DEF C!tls13_change_write, CA!tls13_change_write, C!InstallWrite, CA!InstallWrite
<1>11. \A s, epoch : C!tls13_change_read(s, epoch) = CA!tls13_change_read(s, epoch)
  BY <1>7, <1>8, <1>9, SMTT(30)
     DEF C!tls13_change_read, CA!tls13_change_read, C!InstallRead, CA!InstallRead
<1>12. \A s : C!ssl_generate_master_secret(s) = CA!ssl_generate_master_secret(s)
  BY <1>5, SMTT(30)
     DEF C!ssl_generate_master_secret, CA!ssl_generate_master_secret, C!Elem, CA!Elem
<1>13. \A s, sender : C!final_finish_mac(s, sender) = CA!final_finish_mac(s, sender)
  BY SMTT(30) DEF C!final_finish_mac, CA!final_finish_mac, C!SSL_IS_TLS13, CA!SSL_IS_TLS13
<1>14. \A s, mt, flags : C!Construct(s, mt, flags) = CA!Construct(s, mt, flags)
  BY SMTT(30) DEF C!Construct, CA!Construct, C!PlainKey, CA!PlainKey, C!NoMac, CA!NoMac
<1>15. \A s : C!tls_construct_finished(s) = CA!tls_construct_finished(s)
  BY <1>10, <1>13, <1>14, SMTT(30)
     DEF C!tls_construct_finished, CA!tls_construct_finished, C!SSL_IS_TLS13, CA!SSL_IS_TLS13,
         C!Side, CA!Side
<1>16. \A s : C!tls_process_change_cipher_spec(s) = CA!tls_process_change_cipher_spec(s)
  BY <1>1, <1>6, ZenonT(100)
     DEF C!tls_process_change_cipher_spec, CA!tls_process_change_cipher_spec, C!PeerSide,
         CA!PeerSide, C!ContinueReading, CA!ContinueReading, C!InstallRead, CA!InstallRead
<1>17. \A s, m : C!tls_process_cert_verify(s, m) = CA!tls_process_cert_verify(s, m)
  BY <1>1, SMTT(30)
     DEF C!tls_process_cert_verify, CA!tls_process_cert_verify, C!SSL_IS_TLS13, CA!SSL_IS_TLS13,
         C!ContinueReading, CA!ContinueReading, C!ContinueProcessing, CA!ContinueProcessing
<1>18. \A s, m : C!tls_process_finished(s, m) = CA!tls_process_finished(s, m)
  BY <1>1, <1>11, ZenonT(100)
     DEF C!tls_process_finished, CA!tls_process_finished, C!SSL_IS_TLS13, CA!SSL_IS_TLS13,
         C!FinishedReading, CA!FinishedReading
<1>19. \A s, clearbufs, stop : C!tls_finish_handshake(s, clearbufs, stop)
      = CA!tls_finish_handshake(s, clearbufs, stop)
  BY SMTT(30) DEF C!tls_finish_handshake, CA!tls_finish_handshake
<1>20. \A s : C!tls_get_message_body(s) = CA!tls_get_message_body(s)
  BY <1>3, <1>13, ZenonT(100)
     DEF C!tls_get_message_body, CA!tls_get_message_body, C!SSL_IS_TLS13, CA!SSL_IS_TLS13,
         C!PeerSide, CA!PeerSide
<1>21. \A s : C!ssl3_do_write(s) = CA!ssl3_do_write(s)
  BY <1>3, SMTT(30) DEF C!ssl3_do_write, CA!ssl3_do_write, C!SSL_IS_TLS13, CA!SSL_IS_TLS13
<1>22. \A s, mt : C!client13_read_transition(s, mt) = CA!client13_read_transition(s, mt)
  BY SMTT(30) DEF C!client13_read_transition, CA!client13_read_transition
<1>23. \A s, mt : C!client12_read_transition(s, mt) = CA!client12_read_transition(s, mt)
  BY SMTT(30)
     DEF C!client12_read_transition, CA!client12_read_transition, C!aNULL, CA!aNULL, C!aPSK,
         CA!aPSK, C!kEphemeral, CA!kEphemeral, C!kAnyPSK, CA!kAnyPSK, C!cert_req_allowed,
         CA!cert_req_allowed, C!key_exchange_expected, CA!key_exchange_expected,
         C!KeyExchangeNext, CA!KeyExchangeNext
<1>24. \A s, mt : C!client_read_transition(s, mt) = CA!client_read_transition(s, mt)
  BY <1>22, <1>23, SMTT(30)
     DEF C!client_read_transition, CA!client_read_transition, C!SSL_IS_TLS13, CA!SSL_IS_TLS13
<1>25. \A s : C!client13_write_transition(s) = CA!client13_write_transition(s)
  BY SMTT(30) DEF C!client13_write_transition, CA!client13_write_transition
<1>26. \A s : C!client12_write_transition(s) = CA!client12_write_transition(s)
  BY SMTT(30) DEF C!client12_write_transition, CA!client12_write_transition
<1>27. \A s : C!client_write_transition(s) = CA!client_write_transition(s)
  BY <1>25, <1>26, SMTT(30)
     DEF C!client_write_transition, CA!client_write_transition, C!SSL_IS_TLS13, CA!SSL_IS_TLS13
<1>28. \A s : C!tls_construct_client_hello(s) = CA!tls_construct_client_hello(s)
  BY <1>14, SMTT(30)
     DEF C!tls_construct_client_hello, CA!tls_construct_client_hello, C!SessFlag, CA!SessFlag,
         C!OldSuites, CA!OldSuites
<1>29. \A s : C!tls_construct_client_certificate(s) = CA!tls_construct_client_certificate(s)
  BY <1>10, <1>14, SMTT(30)
     DEF C!tls_construct_client_certificate, CA!tls_construct_client_certificate, C!SSL_IS_TLS13,
         CA!SSL_IS_TLS13, C!SSL_IS_FIRST_HANDSHAKE, CA!SSL_IS_FIRST_HANDSHAKE, C!ChainFlags,
         CA!ChainFlags
<1>30. \A s : C!client_construct_message(s) = CA!client_construct_message(s)
  BY <1>1, <1>14, <1>15, <1>28, <1>29, SMTT(30)
     DEF C!client_construct_message, CA!client_construct_message
<1>31. \A s : C!client_pre_work(s) = CA!client_pre_work(s)
  BY <1>19, <1>30, ZenonT(100) DEF C!client_pre_work, CA!client_pre_work
<1>32. \A s : C!client_post_work(s) = CA!client_post_work(s)
  BY <1>6, <1>10, <1>12, SMTT(30)
     DEF C!client_post_work, CA!client_post_work, C!SSL_IS_TLS13, CA!SSL_IS_TLS13, C!InstallWrite,
         CA!InstallWrite
<1>33. \A s, m : C!tls_process_as_hello_retry_request(s, m)
      = CA!tls_process_as_hello_retry_request(s, m)
  BY SMTT(100)
     DEF C!Ciphers, CA!Ciphers, C!Elem, CA!Elem, C!PlainKey, CA!PlainKey, C!NoMac, CA!NoMac,
         C!NoMsg, CA!NoMsg, C!ossl_statem_fatal, CA!ossl_statem_fatal, C!FinishedReading,
         CA!FinishedReading, C!ssl3_finish_mac, CA!ssl3_finish_mac,
         C!create_synthetic_message_hash, CA!create_synthetic_message_hash, C!OldSuites,
         CA!OldSuites, C!tls_process_as_hello_retry_request, CA!tls_process_as_hello_retry_request
<1>34. \A s, m : C!ssl_choose_client_version(s, m) = CA!ssl_choose_client_version(s, m)
  BY SMTT(30)
     DEF C!ssl_choose_client_version, CA!ssl_choose_client_version, C!ServerHelloVersion,
         CA!ServerHelloVersion
<1>35. \A s, m : C!tls_process_server_hello(s, m) = CA!tls_process_server_hello(s, m)
  BY <1>1, <1>11, <1>33, <1>34, SMTT(30)
     DEF C!tls_process_server_hello, CA!tls_process_server_hello, C!Ciphers, CA!Ciphers, C!Elem,
         CA!Elem, C!ContinueReading, CA!ContinueReading, C!ServerHelloVersion,
         CA!ServerHelloVersion, C!BadCipher, CA!BadCipher, C!BadExtension, CA!BadExtension
<1>36. \A s, m : C!tls_process_server_certificate(s, m) = CA!tls_process_server_certificate(s, m)
  BY <1>1, SMTT(30)
     DEF C!tls_process_server_certificate, CA!tls_process_server_certificate, C!VerifyPeer,
         CA!VerifyPeer, C!ContinueReading, CA!ContinueReading
<1>37. \A s, m : C!tls_process_key_exchange(s, m) = CA!tls_process_key_exchange(s, m)
  BY <1>1, SMTT(30)
     DEF C!tls_process_key_exchange, CA!tls_process_key_exchange, C!ContinueReading,
         CA!ContinueReading
<1>38. \A s : C!tls_process_certificate_request(s) = CA!tls_process_certificate_request(s)
  BY SMTT(30)
     DEF C!tls_process_certificate_request, CA!tls_process_certificate_request, C!SSL_IS_TLS13,
         CA!SSL_IS_TLS13, C!ContinueReading, CA!ContinueReading, C!ContinueProcessing,
         CA!ContinueProcessing
<1>39. \A s : C!tls_process_new_session_ticket(s) = CA!tls_process_new_session_ticket(s)
  BY SMTT(30)
     DEF C!tls_process_new_session_ticket, CA!tls_process_new_session_ticket, C!SSL_IS_TLS13,
         CA!SSL_IS_TLS13, C!ContinueReading, CA!ContinueReading, C!FinishedReading,
         CA!FinishedReading
<1>40. \A s, m : C!client_process_message(s, m) = CA!client_process_message(s, m)
  BY <1>1, <1>16, <1>17, <1>18, <1>35, <1>36, <1>37, <1>38, <1>39, SMTT(30)
     DEF C!client_process_message, CA!client_process_message, C!ContinueReading,
         CA!ContinueReading, C!FinishedReading, CA!FinishedReading
<1>41. \A s : C!tls_prepare_client_certificate(s) = CA!tls_prepare_client_certificate(s)
  BY SMTT(30)
     DEF C!tls_prepare_client_certificate, CA!tls_prepare_client_certificate, C!ContinueReading,
         CA!ContinueReading
<1>42. \A s : C!client_post_process_message(s) = CA!client_post_process_message(s)
  BY <1>1, <1>41, SMTT(30) DEF C!client_post_process_message, CA!client_post_process_message
<1>43. \A s, mt : C!server13_read_transition(s, mt) = CA!server13_read_transition(s, mt)
  BY SMTT(30) DEF C!server13_read_transition, CA!server13_read_transition
<1>44. \A s, mt : C!server12_read_transition(s, mt) = CA!server12_read_transition(s, mt)
  BY SMTT(30) DEF C!server12_read_transition, CA!server12_read_transition
<1>45. \A s, mt : C!server_read_transition(s, mt) = CA!server_read_transition(s, mt)
  BY <1>43, <1>44, SMTT(30)
     DEF C!server_read_transition, CA!server_read_transition, C!SSL_IS_TLS13, CA!SSL_IS_TLS13
<1>46. \A s : C!server13_write_transition(s) = CA!server13_write_transition(s)
  BY SMTT(30)
     DEF C!server13_write_transition, CA!server13_write_transition, C!VerifyPeer, CA!VerifyPeer,
         C!aNULL, CA!aNULL, C!aPSK, CA!aPSK, C!send_certificate_request,
         CA!send_certificate_request
<1>47. \A s : C!server12_write_transition(s) = CA!server12_write_transition(s)
  BY SMTT(30)
     DEF C!server12_write_transition, CA!server12_write_transition, C!VerifyPeer, CA!VerifyPeer,
         C!aNULL, CA!aNULL, C!aPSK, CA!aPSK, C!kEphemeral, CA!kEphemeral,
         C!send_server_key_exchange, CA!send_server_key_exchange, C!send_certificate_request,
         CA!send_certificate_request
<1>48. \A s : C!server_write_transition(s) = CA!server_write_transition(s)
  BY <1>46, <1>47, SMTT(30)
     DEF C!server_write_transition, CA!server_write_transition, C!SSL_IS_TLS13, CA!SSL_IS_TLS13
<1>49. \A s : C!tls_construct_server_hello(s) = CA!tls_construct_server_hello(s)
  BY <1>4, <1>14, SMTT(30)
     DEF C!tls_construct_server_hello, CA!tls_construct_server_hello, C!SSL_IS_TLS13,
         CA!SSL_IS_TLS13, C!Sentinel, CA!Sentinel
<1>50. \A s : C!tls_construct_certificate_request(s) = CA!tls_construct_certificate_request(s)
  BY <1>14, SMTT(30) DEF C!tls_construct_certificate_request, CA!tls_construct_certificate_request
<1>51. \A s : C!tls_construct_new_session_ticket(s) = CA!tls_construct_new_session_ticket(s)
  BY <1>14, SMTT(30)
     DEF C!tls_construct_new_session_ticket, CA!tls_construct_new_session_ticket, C!SSL_IS_TLS13,
         CA!SSL_IS_TLS13
<1>52. \A s : C!server_construct_message(s) = CA!server_construct_message(s)
  BY <1>1, <1>14, <1>15, <1>49, <1>50, <1>51, SMTT(30)
     DEF C!server_construct_message, CA!server_construct_message, C!ChainFlags, CA!ChainFlags
<1>53. \A s : C!server_pre_work(s) = CA!server_pre_work(s)
  BY <1>19, <1>52, ZenonT(100)
     DEF C!server_pre_work, CA!server_pre_work, C!SSL_IS_TLS13, CA!SSL_IS_TLS13
<1>54. \A s : C!HandshakeKeys(s) = CA!HandshakeKeys(s)
  BY <1>10, <1>11, ZenonT(100) DEF C!HandshakeKeys, CA!HandshakeKeys
<1>55. \A s : C!server_post_work(s) = CA!server_post_work(s)
  BY <1>6, <1>10, <1>54, SMTT(30)
     DEF C!server_post_work, CA!server_post_work, C!SSL_IS_TLS13, CA!SSL_IS_TLS13, C!InstallWrite,
         CA!InstallWrite
<1>56. \A s, m : C!tls_post_process_client_hello(s, m) = CA!tls_post_process_client_hello(s, m)
  BY SMTT(100)
     DEF C!SessFlag, CA!SessFlag, C!Elem, CA!Elem, C!PlainKey, CA!PlainKey, C!NoMac, CA!NoMac,
         C!NoMsg, CA!NoMsg, C!ossl_statem_fatal, CA!ossl_statem_fatal, C!FinishedReading,
         CA!FinishedReading, C!ssl_choose_server_version, CA!ssl_choose_server_version,
         C!final_key_share, CA!final_key_share, C!tls_post_process_client_hello,
         CA!tls_post_process_client_hello
<1>57. \A s, m : C!tls_process_client_certificate(s, m) = CA!tls_process_client_certificate(s, m)
  BY <1>1, SMTT(30)
     DEF C!tls_process_client_certificate, CA!tls_process_client_certificate, C!SSL_IS_TLS13,
         CA!SSL_IS_TLS13, C!ContinueReading, CA!ContinueReading
<1>58. \A s : C!tls_process_client_key_exchange(s) = CA!tls_process_client_key_exchange(s)
  BY <1>12, SMTT(30)
     DEF C!tls_process_client_key_exchange, CA!tls_process_client_key_exchange,
         C!ContinueProcessing, CA!ContinueProcessing
<1>59. \A s, m : C!server_process_message(s, m) = CA!server_process_message(s, m)
  BY <1>1, <1>16, <1>17, <1>18, <1>57, <1>58, SMTT(30)
     DEF C!server_process_message, CA!server_process_message, C!ContinueProcessing,
         CA!ContinueProcessing
<1>60. \A s, m : C!server_post_process_message(s, m) = CA!server_post_process_message(s, m)
  BY <1>1, <1>56, SMTT(30)
     DEF C!server_post_process_message, CA!server_post_process_message, C!ContinueReading,
         CA!ContinueReading
<1>61. \A t : C!tls_setup_handshake(t) = CA!tls_setup_handshake(t)
  BY SMTT(30) DEF C!tls_setup_handshake, CA!tls_setup_handshake
<1>62. \A t : C!state_machine_init(t) = CA!state_machine_init(t)
  BY <1>61, SMTT(30) DEF C!state_machine_init, CA!state_machine_init
<1>63. \A t : C!write_transition(t) = CA!write_transition(t)
  BY <1>27, <1>48, SMTT(30) DEF C!write_transition, CA!write_transition
<1>64. \A t, m : C!RecordError(t, m) = CA!RecordError(t, m)
  BY SMTT(30)
     DEF C!RecordError, CA!RecordError, C!PlainKey, CA!PlainKey, C!SSL_IS_TLS13, CA!SSL_IS_TLS13,
         C!Decrypts, CA!Decrypts
<1>65. \A t, mt : C!read_transition(t, mt) = CA!read_transition(t, mt)
  BY <1>24, <1>45, SMTT(30) DEF C!read_transition, CA!read_transition
<1>66. \A t, m : C!tls_get_message_header(t, m) = CA!tls_get_message_header(t, m)
  <2>1. ASSUME NEW t, NEW m, NEW u, u = C!tls_get_message_header(t, m)
        PROVE  u = CA!tls_get_message_header(t, m)
    BY <1>65, <2>1, ZenonT(100)
       DEF C!tls_get_message_header, CA!tls_get_message_header, C!PlainKey, CA!PlainKey, C!NoMac,
           CA!NoMac, C!NoMsg, CA!NoMsg, C!SSL_IS_TLS13, CA!SSL_IS_TLS13, C!SSL_IS_FIRST_HANDSHAKE,
           CA!SSL_IS_FIRST_HANDSHAKE, C!ossl_statem_fatal, CA!ossl_statem_fatal,
           C!ossl_statem_fatal_no_alert, CA!ossl_statem_fatal_no_alert, C!Ignored, CA!Ignored,
           C!Decrypts, CA!Decrypts, C!RecordError, CA!RecordError
  <2> QED BY <2>1, Zenon
<1>67. C!Start => CA!Start
  BY <1>62, SMTT(30) DEF C!Start, CA!Start
<1>68. C!WriteTransition => CA!WriteTransition
  BY <1>1, <1>63, ZenonT(100)
     DEF C!WriteTransition, CA!WriteTransition, C!Settle, CA!Settle, C!Writing, CA!Writing
<1>69. C!PreWork => CA!PreWork
  BY <1>31, <1>53, SMTT(30) DEF C!PreWork, CA!PreWork, C!Settle, CA!Settle, C!Writing, CA!Writing
<1>70. C!Send => CA!Send
  BY <1>21, SMTT(30) DEF C!Send, CA!Send, C!Writing, CA!Writing
<1>71. C!Spill => CA!Spill
  BY SMTT(30) DEF C!Spill, CA!Spill
<1>72. C!PostWork => CA!PostWork
  BY <1>32, <1>55, ZenonT(100)
     DEF C!PostWork, CA!PostWork, C!SSL_IS_TLS13, CA!SSL_IS_TLS13, C!client_flushes,
         CA!client_flushes, C!server_flushes, CA!server_flushes, C!Settle, CA!Settle, C!Writing,
         CA!Writing
<1>73. C!ReadHeader => CA!ReadHeader
  BY <1>66, SMTT(30) DEF C!ReadHeader, CA!ReadHeader, C!Settle, CA!Settle, C!Reading, CA!Reading
<1>74. C!ReadBody => CA!ReadBody
  BY <1>20, <1>40, <1>59, SMTT(30)
     DEF C!ReadBody, CA!ReadBody, C!Settle, CA!Settle, C!Reading, CA!Reading
<1>75. C!PostProcess => CA!PostProcess
  BY <1>42, <1>60, SMTT(30)
     DEF C!PostProcess, CA!PostProcess, C!Settle, CA!Settle, C!Reading, CA!Reading
<1>76. C!SslRead => CA!SslRead
  BY <1>1, <1>2, <1>62, <1>64, ZenonT(100)
     DEF C!SslRead, CA!SslRead, C!SSL_IS_TLS13, CA!SSL_IS_TLS13, C!Settle, CA!Settle
<1> QED BY <1>67, <1>68, <1>69, <1>70, <1>71, <1>72, <1>73, <1>74, <1>75, <1>76 DEF C!EndpointNext,
          CA!EndpointNext

LEMMA ServerValues ==
  /\ Options = SA!Options /\ Flags = SA!Flags /\ Records = SA!Records /\ SSL = SA!SSL
  /\ \A b, o : ossl_statem_clear(b, o) = SA!ossl_statem_clear(b, o)
BY Zenon DEF Versions, SA!Versions, Ciphers, SA!Ciphers, Flags, SA!Flags, MessageTypes,
             SA!MessageTypes, Hashed, SA!Hashed, Hash, SA!Hash, Epochs, SA!Epochs, Sides,
             SA!Sides, Keys, SA!Keys, PlainKey, SA!PlainKey, Macs, SA!Macs, NoMac, SA!NoMac,
             Records, SA!Records, NoMsg, SA!NoMsg, MsgFlow, SA!MsgFlow, SubStates, SA!SubStates,
             ClientStates, SA!ClientStates, ServerStates, SA!ServerStates, HandStates,
             SA!HandStates, Reasons, SA!Reasons, Options, SA!Options, SSL, SA!SSL,
             ossl_statem_clear, SA!ossl_statem_clear

\* Every step of the server is a step of the endpoint of SA: the functions of the two
\* instances are the same, each because those it calls are.
LEMMA ServerSame == S!EndpointNext => SA!EndpointNext
<1>1. \A s, reason : S!ossl_statem_fatal(s, reason) = SA!ossl_statem_fatal(s, reason)
  BY SMTT(30)
     DEF S!ossl_statem_fatal, SA!ossl_statem_fatal, S!PlainKey, SA!PlainKey, S!NoMac, SA!NoMac,
         S!NoMsg, SA!NoMsg
<1>2. \A s, reason : S!ossl_statem_fatal_no_alert(s, reason)
      = SA!ossl_statem_fatal_no_alert(s, reason)
  BY SMTT(30) DEF S!ossl_statem_fatal_no_alert, SA!ossl_statem_fatal_no_alert
<1>3. \A s, mt, flags : S!ssl3_finish_mac(s, mt, flags) = SA!ssl3_finish_mac(s, mt, flags)
  BY SMTT(30) DEF S!ssl3_finish_mac, SA!ssl3_finish_mac, S!Elem, SA!Elem
<1>4. \A s : S!create_synthetic_message_hash(s) = SA!create_synthetic_message_hash(s)
  BY SMTT(30)
     DEF S!create_synthetic_message_hash, SA!create_synthetic_message_hash, S!Elem, SA!Elem
<1>5. \A s : S!Random(s) = SA!Random(s)
  BY SMTT(30) DEF S!Random, SA!Random, S!Elem, SA!Elem
<1>6. \A s, writer : S!tls1_key(s, writer) = SA!tls1_key(s, writer)
  BY <1>5, SMTT(30) DEF S!tls1_key, SA!tls1_key
<1>7. \A s, epoch : S!ClientKey13(s, epoch) = SA!ClientKey13(s, epoch)
  BY SMTT(30) DEF S!ClientKey13, SA!ClientKey13
<1>8. \A s, epoch : S!ServerKey13(s, epoch) = SA!ServerKey13(s, epoch)
  BY SMTT(30) DEF S!ServerKey13, SA!ServerKey13
<1>9. \A s, epoch : S!SaveHash(s, epoch) = SA!SaveHash(s, epoch)
  BY SMTT(30) DEF S!SaveHash, SA!SaveHash
<1>10. \A s, epoch : S!tls13_change_write(s, epoch) = SA!tls13_change_write(s, epoch)
  BY <1>7, <1>8, <1>9, SMTT(30)
     DEF S!tls13_change_write, SA!tls13_change_write, S!InstallWrite, SA!InstallWrite
<1>11. \A s, epoch : S!tls13_change_read(s, epoch) = SA!tls13_change_read(s, epoch)
  BY <1>7, <1>8, <1>9, SMTT(30)
     DEF S!tls13_change_read, SA!tls13_change_read, S!InstallRead, SA!InstallRead
<1>12. \A s : S!ssl_generate_master_secret(s) = SA!ssl_generate_master_secret(s)
  BY <1>5, SMTT(30)
     DEF S!ssl_generate_master_secret, SA!ssl_generate_master_secret, S!Elem, SA!Elem
<1>13. \A s, sender : S!final_finish_mac(s, sender) = SA!final_finish_mac(s, sender)
  BY SMTT(30) DEF S!final_finish_mac, SA!final_finish_mac, S!SSL_IS_TLS13, SA!SSL_IS_TLS13
<1>14. \A s, mt, flags : S!Construct(s, mt, flags) = SA!Construct(s, mt, flags)
  BY SMTT(30) DEF S!Construct, SA!Construct, S!PlainKey, SA!PlainKey, S!NoMac, SA!NoMac
<1>15. \A s : S!tls_construct_finished(s) = SA!tls_construct_finished(s)
  BY <1>10, <1>13, <1>14, SMTT(30)
     DEF S!tls_construct_finished, SA!tls_construct_finished, S!SSL_IS_TLS13, SA!SSL_IS_TLS13,
         S!Side, SA!Side
<1>16. \A s : S!tls_process_change_cipher_spec(s) = SA!tls_process_change_cipher_spec(s)
  BY <1>1, <1>6, ZenonT(100)
     DEF S!tls_process_change_cipher_spec, SA!tls_process_change_cipher_spec, S!PeerSide,
         SA!PeerSide, S!ContinueReading, SA!ContinueReading, S!InstallRead, SA!InstallRead
<1>17. \A s, m : S!tls_process_cert_verify(s, m) = SA!tls_process_cert_verify(s, m)
  BY <1>1, SMTT(30)
     DEF S!tls_process_cert_verify, SA!tls_process_cert_verify, S!SSL_IS_TLS13, SA!SSL_IS_TLS13,
         S!ContinueReading, SA!ContinueReading, S!ContinueProcessing, SA!ContinueProcessing
<1>18. \A s, m : S!tls_process_finished(s, m) = SA!tls_process_finished(s, m)
  BY <1>1, <1>11, ZenonT(100)
     DEF S!tls_process_finished, SA!tls_process_finished, S!SSL_IS_TLS13, SA!SSL_IS_TLS13,
         S!FinishedReading, SA!FinishedReading
<1>19. \A s, clearbufs, stop : S!tls_finish_handshake(s, clearbufs, stop)
      = SA!tls_finish_handshake(s, clearbufs, stop)
  BY SMTT(30) DEF S!tls_finish_handshake, SA!tls_finish_handshake
<1>20. \A s : S!tls_get_message_body(s) = SA!tls_get_message_body(s)
  BY <1>3, <1>13, ZenonT(100)
     DEF S!tls_get_message_body, SA!tls_get_message_body, S!SSL_IS_TLS13, SA!SSL_IS_TLS13,
         S!PeerSide, SA!PeerSide
<1>21. \A s : S!ssl3_do_write(s) = SA!ssl3_do_write(s)
  BY <1>3, SMTT(30) DEF S!ssl3_do_write, SA!ssl3_do_write, S!SSL_IS_TLS13, SA!SSL_IS_TLS13
<1>22. \A s, mt : S!client13_read_transition(s, mt) = SA!client13_read_transition(s, mt)
  BY SMTT(30) DEF S!client13_read_transition, SA!client13_read_transition
<1>23. \A s, mt : S!client12_read_transition(s, mt) = SA!client12_read_transition(s, mt)
  BY SMTT(30)
     DEF S!client12_read_transition, SA!client12_read_transition, S!aNULL, SA!aNULL, S!aPSK,
         SA!aPSK, S!kEphemeral, SA!kEphemeral, S!kAnyPSK, SA!kAnyPSK, S!cert_req_allowed,
         SA!cert_req_allowed, S!key_exchange_expected, SA!key_exchange_expected,
         S!KeyExchangeNext, SA!KeyExchangeNext
<1>24. \A s, mt : S!client_read_transition(s, mt) = SA!client_read_transition(s, mt)
  BY <1>22, <1>23, SMTT(30)
     DEF S!client_read_transition, SA!client_read_transition, S!SSL_IS_TLS13, SA!SSL_IS_TLS13
<1>25. \A s : S!client13_write_transition(s) = SA!client13_write_transition(s)
  BY SMTT(30) DEF S!client13_write_transition, SA!client13_write_transition
<1>26. \A s : S!client12_write_transition(s) = SA!client12_write_transition(s)
  BY SMTT(30) DEF S!client12_write_transition, SA!client12_write_transition
<1>27. \A s : S!client_write_transition(s) = SA!client_write_transition(s)
  BY <1>25, <1>26, SMTT(30)
     DEF S!client_write_transition, SA!client_write_transition, S!SSL_IS_TLS13, SA!SSL_IS_TLS13
<1>28. \A s : S!tls_construct_client_hello(s) = SA!tls_construct_client_hello(s)
  BY <1>14, SMTT(30)
     DEF S!tls_construct_client_hello, SA!tls_construct_client_hello, S!SessFlag, SA!SessFlag,
         S!OldSuites, SA!OldSuites
<1>29. \A s : S!tls_construct_client_certificate(s) = SA!tls_construct_client_certificate(s)
  BY <1>10, <1>14, SMTT(30)
     DEF S!tls_construct_client_certificate, SA!tls_construct_client_certificate, S!SSL_IS_TLS13,
         SA!SSL_IS_TLS13, S!SSL_IS_FIRST_HANDSHAKE, SA!SSL_IS_FIRST_HANDSHAKE, S!ChainFlags,
         SA!ChainFlags
<1>30. \A s : S!client_construct_message(s) = SA!client_construct_message(s)
  BY <1>1, <1>14, <1>15, <1>28, <1>29, SMTT(30)
     DEF S!client_construct_message, SA!client_construct_message
<1>31. \A s : S!client_pre_work(s) = SA!client_pre_work(s)
  BY <1>19, <1>30, ZenonT(100) DEF S!client_pre_work, SA!client_pre_work
<1>32. \A s : S!client_post_work(s) = SA!client_post_work(s)
  BY <1>6, <1>10, <1>12, SMTT(30)
     DEF S!client_post_work, SA!client_post_work, S!SSL_IS_TLS13, SA!SSL_IS_TLS13, S!InstallWrite,
         SA!InstallWrite
<1>33. \A s, m : S!tls_process_as_hello_retry_request(s, m)
      = SA!tls_process_as_hello_retry_request(s, m)
  BY SMTT(100)
     DEF S!Ciphers, SA!Ciphers, S!Elem, SA!Elem, S!PlainKey, SA!PlainKey, S!NoMac, SA!NoMac,
         S!NoMsg, SA!NoMsg, S!ossl_statem_fatal, SA!ossl_statem_fatal, S!FinishedReading,
         SA!FinishedReading, S!ssl3_finish_mac, SA!ssl3_finish_mac,
         S!create_synthetic_message_hash, SA!create_synthetic_message_hash, S!OldSuites,
         SA!OldSuites, S!tls_process_as_hello_retry_request, SA!tls_process_as_hello_retry_request
<1>34. \A s, m : S!ssl_choose_client_version(s, m) = SA!ssl_choose_client_version(s, m)
  BY SMTT(30)
     DEF S!ssl_choose_client_version, SA!ssl_choose_client_version, S!ServerHelloVersion,
         SA!ServerHelloVersion
<1>35. \A s, m : S!tls_process_server_hello(s, m) = SA!tls_process_server_hello(s, m)
  BY <1>1, <1>11, <1>33, <1>34, SMTT(30)
     DEF S!tls_process_server_hello, SA!tls_process_server_hello, S!Ciphers, SA!Ciphers, S!Elem,
         SA!Elem, S!ContinueReading, SA!ContinueReading, S!ServerHelloVersion,
         SA!ServerHelloVersion, S!BadCipher, SA!BadCipher, S!BadExtension, SA!BadExtension
<1>36. \A s, m : S!tls_process_server_certificate(s, m) = SA!tls_process_server_certificate(s, m)
  BY <1>1, SMTT(30)
     DEF S!tls_process_server_certificate, SA!tls_process_server_certificate, S!VerifyPeer,
         SA!VerifyPeer, S!ContinueReading, SA!ContinueReading
<1>37. \A s, m : S!tls_process_key_exchange(s, m) = SA!tls_process_key_exchange(s, m)
  BY <1>1, SMTT(30)
     DEF S!tls_process_key_exchange, SA!tls_process_key_exchange, S!ContinueReading,
         SA!ContinueReading
<1>38. \A s : S!tls_process_certificate_request(s) = SA!tls_process_certificate_request(s)
  BY SMTT(30)
     DEF S!tls_process_certificate_request, SA!tls_process_certificate_request, S!SSL_IS_TLS13,
         SA!SSL_IS_TLS13, S!ContinueReading, SA!ContinueReading, S!ContinueProcessing,
         SA!ContinueProcessing
<1>39. \A s : S!tls_process_new_session_ticket(s) = SA!tls_process_new_session_ticket(s)
  BY SMTT(30)
     DEF S!tls_process_new_session_ticket, SA!tls_process_new_session_ticket, S!SSL_IS_TLS13,
         SA!SSL_IS_TLS13, S!ContinueReading, SA!ContinueReading, S!FinishedReading,
         SA!FinishedReading
<1>40. \A s, m : S!client_process_message(s, m) = SA!client_process_message(s, m)
  BY <1>1, <1>16, <1>17, <1>18, <1>35, <1>36, <1>37, <1>38, <1>39, SMTT(30)
     DEF S!client_process_message, SA!client_process_message, S!ContinueReading,
         SA!ContinueReading, S!FinishedReading, SA!FinishedReading
<1>41. \A s : S!tls_prepare_client_certificate(s) = SA!tls_prepare_client_certificate(s)
  BY SMTT(30)
     DEF S!tls_prepare_client_certificate, SA!tls_prepare_client_certificate, S!ContinueReading,
         SA!ContinueReading
<1>42. \A s : S!client_post_process_message(s) = SA!client_post_process_message(s)
  BY <1>1, <1>41, SMTT(30) DEF S!client_post_process_message, SA!client_post_process_message
<1>43. \A s, mt : S!server13_read_transition(s, mt) = SA!server13_read_transition(s, mt)
  BY SMTT(30) DEF S!server13_read_transition, SA!server13_read_transition
<1>44. \A s, mt : S!server12_read_transition(s, mt) = SA!server12_read_transition(s, mt)
  BY SMTT(30) DEF S!server12_read_transition, SA!server12_read_transition
<1>45. \A s, mt : S!server_read_transition(s, mt) = SA!server_read_transition(s, mt)
  BY <1>43, <1>44, SMTT(30)
     DEF S!server_read_transition, SA!server_read_transition, S!SSL_IS_TLS13, SA!SSL_IS_TLS13
<1>46. \A s : S!server13_write_transition(s) = SA!server13_write_transition(s)
  BY SMTT(30)
     DEF S!server13_write_transition, SA!server13_write_transition, S!VerifyPeer, SA!VerifyPeer,
         S!aNULL, SA!aNULL, S!aPSK, SA!aPSK, S!send_certificate_request,
         SA!send_certificate_request
<1>47. \A s : S!server12_write_transition(s) = SA!server12_write_transition(s)
  BY SMTT(30)
     DEF S!server12_write_transition, SA!server12_write_transition, S!VerifyPeer, SA!VerifyPeer,
         S!aNULL, SA!aNULL, S!aPSK, SA!aPSK, S!kEphemeral, SA!kEphemeral,
         S!send_server_key_exchange, SA!send_server_key_exchange, S!send_certificate_request,
         SA!send_certificate_request
<1>48. \A s : S!server_write_transition(s) = SA!server_write_transition(s)
  BY <1>46, <1>47, SMTT(30)
     DEF S!server_write_transition, SA!server_write_transition, S!SSL_IS_TLS13, SA!SSL_IS_TLS13
<1>49. \A s : S!tls_construct_server_hello(s) = SA!tls_construct_server_hello(s)
  BY <1>4, <1>14, SMTT(30)
     DEF S!tls_construct_server_hello, SA!tls_construct_server_hello, S!SSL_IS_TLS13,
         SA!SSL_IS_TLS13, S!Sentinel, SA!Sentinel
<1>50. \A s : S!tls_construct_certificate_request(s) = SA!tls_construct_certificate_request(s)
  BY <1>14, SMTT(30) DEF S!tls_construct_certificate_request, SA!tls_construct_certificate_request
<1>51. \A s : S!tls_construct_new_session_ticket(s) = SA!tls_construct_new_session_ticket(s)
  BY <1>14, SMTT(30)
     DEF S!tls_construct_new_session_ticket, SA!tls_construct_new_session_ticket, S!SSL_IS_TLS13,
         SA!SSL_IS_TLS13
<1>52. \A s : S!server_construct_message(s) = SA!server_construct_message(s)
  BY <1>1, <1>14, <1>15, <1>49, <1>50, <1>51, SMTT(30)
     DEF S!server_construct_message, SA!server_construct_message, S!ChainFlags, SA!ChainFlags
<1>53. \A s : S!server_pre_work(s) = SA!server_pre_work(s)
  BY <1>19, <1>52, ZenonT(100)
     DEF S!server_pre_work, SA!server_pre_work, S!SSL_IS_TLS13, SA!SSL_IS_TLS13
<1>54. \A s : S!HandshakeKeys(s) = SA!HandshakeKeys(s)
  BY <1>10, <1>11, ZenonT(100) DEF S!HandshakeKeys, SA!HandshakeKeys
<1>55. \A s : S!server_post_work(s) = SA!server_post_work(s)
  BY <1>6, <1>10, <1>54, SMTT(30)
     DEF S!server_post_work, SA!server_post_work, S!SSL_IS_TLS13, SA!SSL_IS_TLS13, S!InstallWrite,
         SA!InstallWrite
<1>56. \A s, m : S!tls_post_process_client_hello(s, m) = SA!tls_post_process_client_hello(s, m)
  BY SMTT(100)
     DEF S!SessFlag, SA!SessFlag, S!Elem, SA!Elem, S!PlainKey, SA!PlainKey, S!NoMac, SA!NoMac,
         S!NoMsg, SA!NoMsg, S!ossl_statem_fatal, SA!ossl_statem_fatal, S!FinishedReading,
         SA!FinishedReading, S!ssl_choose_server_version, SA!ssl_choose_server_version,
         S!final_key_share, SA!final_key_share, S!tls_post_process_client_hello,
         SA!tls_post_process_client_hello
<1>57. \A s, m : S!tls_process_client_certificate(s, m) = SA!tls_process_client_certificate(s, m)
  BY <1>1, SMTT(30)
     DEF S!tls_process_client_certificate, SA!tls_process_client_certificate, S!SSL_IS_TLS13,
         SA!SSL_IS_TLS13, S!ContinueReading, SA!ContinueReading
<1>58. \A s : S!tls_process_client_key_exchange(s) = SA!tls_process_client_key_exchange(s)
  BY <1>12, SMTT(30)
     DEF S!tls_process_client_key_exchange, SA!tls_process_client_key_exchange,
         S!ContinueProcessing, SA!ContinueProcessing
<1>59. \A s, m : S!server_process_message(s, m) = SA!server_process_message(s, m)
  BY <1>1, <1>16, <1>17, <1>18, <1>57, <1>58, SMTT(30)
     DEF S!server_process_message, SA!server_process_message, S!ContinueProcessing,
         SA!ContinueProcessing
<1>60. \A s, m : S!server_post_process_message(s, m) = SA!server_post_process_message(s, m)
  BY <1>1, <1>56, SMTT(30)
     DEF S!server_post_process_message, SA!server_post_process_message, S!ContinueReading,
         SA!ContinueReading
<1>61. \A t : S!tls_setup_handshake(t) = SA!tls_setup_handshake(t)
  BY SMTT(30) DEF S!tls_setup_handshake, SA!tls_setup_handshake
<1>62. \A t : S!state_machine_init(t) = SA!state_machine_init(t)
  BY <1>61, SMTT(30) DEF S!state_machine_init, SA!state_machine_init
<1>63. \A t : S!write_transition(t) = SA!write_transition(t)
  BY <1>27, <1>48, SMTT(30) DEF S!write_transition, SA!write_transition
<1>64. \A t, m : S!RecordError(t, m) = SA!RecordError(t, m)
  BY SMTT(30)
     DEF S!RecordError, SA!RecordError, S!PlainKey, SA!PlainKey, S!SSL_IS_TLS13, SA!SSL_IS_TLS13,
         S!Decrypts, SA!Decrypts
<1>65. \A t, mt : S!read_transition(t, mt) = SA!read_transition(t, mt)
  BY <1>24, <1>45, SMTT(30) DEF S!read_transition, SA!read_transition
<1>66. \A t, m : S!tls_get_message_header(t, m) = SA!tls_get_message_header(t, m)
  <2>1. ASSUME NEW t, NEW m, NEW u, u = S!tls_get_message_header(t, m)
        PROVE  u = SA!tls_get_message_header(t, m)
    BY <1>65, <2>1, ZenonT(100)
       DEF S!tls_get_message_header, SA!tls_get_message_header, S!PlainKey, SA!PlainKey, S!NoMac,
           SA!NoMac, S!NoMsg, SA!NoMsg, S!SSL_IS_TLS13, SA!SSL_IS_TLS13, S!SSL_IS_FIRST_HANDSHAKE,
           SA!SSL_IS_FIRST_HANDSHAKE, S!ossl_statem_fatal, SA!ossl_statem_fatal,
           S!ossl_statem_fatal_no_alert, SA!ossl_statem_fatal_no_alert, S!Ignored, SA!Ignored,
           S!Decrypts, SA!Decrypts, S!RecordError, SA!RecordError
  <2> QED BY <2>1, Zenon
<1>67. S!Start => SA!Start
  BY <1>62, SMTT(30) DEF S!Start, SA!Start
<1>68. S!WriteTransition => SA!WriteTransition
  BY <1>1, <1>63, ZenonT(100)
     DEF S!WriteTransition, SA!WriteTransition, S!Settle, SA!Settle, S!Writing, SA!Writing
<1>69. S!PreWork => SA!PreWork
  BY <1>31, <1>53, SMTT(30) DEF S!PreWork, SA!PreWork, S!Settle, SA!Settle, S!Writing, SA!Writing
<1>70. S!Send => SA!Send
  BY <1>21, SMTT(30) DEF S!Send, SA!Send, S!Writing, SA!Writing
<1>71. S!Spill => SA!Spill
  BY SMTT(30) DEF S!Spill, SA!Spill
<1>72. S!PostWork => SA!PostWork
  BY <1>32, <1>55, ZenonT(100)
     DEF S!PostWork, SA!PostWork, S!SSL_IS_TLS13, SA!SSL_IS_TLS13, S!client_flushes,
         SA!client_flushes, S!server_flushes, SA!server_flushes, S!Settle, SA!Settle, S!Writing,
         SA!Writing
<1>73. S!ReadHeader => SA!ReadHeader
  BY <1>66, SMTT(30) DEF S!ReadHeader, SA!ReadHeader, S!Settle, SA!Settle, S!Reading, SA!Reading
<1>74. S!ReadBody => SA!ReadBody
  BY <1>20, <1>40, <1>59, SMTT(30)
     DEF S!ReadBody, SA!ReadBody, S!Settle, SA!Settle, S!Reading, SA!Reading
<1>75. S!PostProcess => SA!PostProcess
  BY <1>42, <1>60, SMTT(30)
     DEF S!PostProcess, SA!PostProcess, S!Settle, SA!Settle, S!Reading, SA!Reading
<1>76. S!SslRead => SA!SslRead
  BY <1>1, <1>2, <1>62, <1>64, ZenonT(100)
     DEF S!SslRead, SA!SslRead, S!SSL_IS_TLS13, SA!SSL_IS_TLS13, S!Settle, SA!Settle
<1> QED BY <1>67, <1>68, <1>69, <1>70, <1>71, <1>72, <1>73, <1>74, <1>75, <1>76 DEF S!EndpointNext,
          SA!EndpointNext

\* What one instance says of the two ends the other one says too.
LEMMA EndsSame ==
  ASSUME NEW t, NEW u, NEW p, NEW q
  PROVE  /\ CA!Together(t, u, p, q) <=> SA!Together(u, t, q, p)
         /\ CA!Good(t) <=> SA!Good(t)
<1>1. \A x : CA!Good(x) <=> SA!Good(x)
  <2> USE DEF CA!Elem, SA!Elem, CA!PlainKey, SA!PlainKey, CA!SSL_IS_TLS13, SA!SSL_IS_TLS13,
              CA!VerifyPeer, SA!VerifyPeer, CA!aPSK, SA!aPSK, CA!FlagsOf, SA!FlagsOf, CA!Follows,
              SA!Follows, CA!TrustedChain, SA!TrustedChain, CA!Signature, SA!Signature,
              CA!ClientProof, SA!ClientProof, CA!Carries, SA!Carries, CA!Flow, SA!Flow,
              CA!Pending, SA!Pending, CA!Early, SA!Early, CA!Opened, SA!Opened, CA!ChainAfter,
              SA!ChainAfter, CA!ChainSeen, SA!ChainSeen, CA!ServerShown, SA!ServerShown,
              CA!Demands, SA!Demands, CA!Owed, SA!Owed, CA!Asks, SA!Asks, CA!Server, SA!Server,
              CA!Server12, SA!Server12, CA!Server13, SA!Server13, CA!Client, SA!Client,
              CA!Client12, SA!Client12, CA!Client13, SA!Client13, CA!Live, SA!Live, CA!Keyed,
              SA!Keyed, CA!Ends, SA!Ends
  <2>1. ASSUME NEW x, CA!Good(x) PROVE SA!Good(x)
    BY <2>1, ZenonT(100) DEF CA!Good, SA!Good
  <2>2. ASSUME NEW x, SA!Good(x) PROVE CA!Good(x)
    BY <2>2, ZenonT(100) DEF CA!Good, SA!Good
  <2> QED BY <2>1, <2>2, Zenon
<1>2. \A x : CA!Wire(x) <=> SA!Wire(x)
  <2> USE DEF CA!Versions, SA!Versions, CA!Ciphers, SA!Ciphers, CA!SessFlag, SA!SessFlag, CA!Elem,
              SA!Elem, CA!PlainKey, SA!PlainKey, CA!ClientStates, SA!ClientStates,
              CA!ServerStates, SA!ServerStates, CA!SSL_IS_TLS13, SA!SSL_IS_TLS13, CA!Side,
              SA!Side, CA!PeerSide, SA!PeerSide, CA!VerifyPeer, SA!VerifyPeer, CA!aNULL, SA!aNULL,
              CA!aPSK, SA!aPSK, CA!Random, SA!Random, CA!tls1_key, SA!tls1_key,
              CA!final_finish_mac, SA!final_finish_mac, CA!ChainFlags, SA!ChainFlags,
              CA!send_certificate_request, SA!send_certificate_request, CA!FlagsOf, SA!FlagsOf,
              CA!TrustedChain, SA!TrustedChain, CA!WriteStates, SA!WriteStates, CA!Pending,
              SA!Pending, CA!Opened, SA!Opened, CA!Asks, SA!Asks, CA!Fin, SA!Fin, CA!IsCH,
              SA!IsCH, CA!IsSH, SA!IsSH, CA!Opener, SA!Opener, CA!Starts, SA!Starts, CA!Secret,
              SA!Secret, CA!Sided, SA!Sided, CA!ReadStates, SA!ReadStates, CA!PeerSeen,
              SA!PeerSeen, CA!OwnSent, SA!OwnSent, CA!Certain, SA!Certain, CA!LastWriter,
              SA!LastWriter, CA!Unopened, SA!Unopened, CA!Heard, SA!Heard, CA!Deaf, SA!Deaf,
              CA!Decided, SA!Decided, CA!Answered, SA!Answered, CA!MessageOf, SA!MessageOf,
              CA!Offer, SA!Offer, CA!Answers, SA!Answers, CA!Picked, SA!Picked, CA!InHand,
              SA!InHand, CA!FinRecord, SA!FinRecord, CA!FlagsOK, SA!FlagsOK, CA!Buffered,
              SA!Buffered, CA!Honours, SA!Honours, CA!Obeys, SA!Obeys, CA!HasCH, SA!HasCH,
              CA!HasSH, SA!HasSH, CA!HelloFirst, SA!HelloFirst, CA!After, SA!After, CA!OwnChains,
              SA!OwnChains, CA!NoneSent, SA!NoneSent, CA!Wants, SA!Wants, CA!Asked, SA!Asked,
              CA!ChainFirst, SA!ChainFirst, CA!Shown, SA!Shown, CA!UpToFinished, SA!UpToFinished,
              CA!AppKey, SA!AppKey, CA!Keyless, SA!Keyless, CA!KeysKnown, SA!KeysKnown, CA!Spots,
              SA!Spots, CA!Always, SA!Always, CA!Alive, SA!Alive
  <2>1. ASSUME NEW x, CA!Wire(x) PROVE SA!Wire(x)
    BY <2>1, ZenonT(100) DEF CA!Wire, SA!Wire
  <2>2. ASSUME NEW x, SA!Wire(x) PROVE CA!Wire(x)
    BY <2>2, ZenonT(100) DEF CA!Wire, SA!Wire
  <2> QED BY <2>1, <2>2, Zenon
<1>3. \A x, y : CA!Linked(x, y) <=> SA!Linked(x, y)
  <2> USE DEF CA!SSL_IS_TLS13, SA!SSL_IS_TLS13, CA!VerifyPeer, SA!VerifyPeer, CA!Pending,
              SA!Pending, CA!Secret, SA!Secret, CA!PeerSeen, SA!PeerSeen, CA!OwnSent, SA!OwnSent,
              CA!LastWriter, SA!LastWriter, CA!Trusts, SA!Trusts
  <2>1. ASSUME NEW x, NEW y, CA!Linked(x, y) PROVE SA!Linked(x, y)
    BY <2>1, ZenonT(100) DEF CA!Linked, SA!Linked
  <2>2. ASSUME NEW x, NEW y, SA!Linked(x, y) PROVE CA!Linked(x, y)
    BY <2>2, ZenonT(100) DEF CA!Linked, SA!Linked
  <2> QED BY <2>1, <2>2, Zenon
<1>4. \A x, y, z : CA!Delivers(x, y, z) <=> SA!Delivers(x, y, z)
  <2> USE DEF CA!Elem, SA!Elem, CA!SSL_IS_TLS13, SA!SSL_IS_TLS13, CA!Side, SA!Side, CA!FlagsOf,
              SA!FlagsOf, CA!Pending, SA!Pending, CA!Fin, SA!Fin, CA!Starts, SA!Starts, CA!Secret,
              SA!Secret, CA!OwnSent, SA!OwnSent, CA!LastWriter, SA!LastWriter, CA!FinRecord,
              SA!FinRecord, CA!FlagsOK, SA!FlagsOK, CA!InBody, SA!InBody
  <2>1. ASSUME NEW x, NEW y, NEW z, CA!Delivers(x, y, z) PROVE SA!Delivers(x, y, z)
    BY <2>1, ZenonT(100) DEF CA!Delivers, SA!Delivers
  <2>2. ASSUME NEW x, NEW y, NEW z, SA!Delivers(x, y, z) PROVE CA!Delivers(x, y, z)
    BY <2>2, ZenonT(100) DEF CA!Delivers, SA!Delivers
  <2> QED BY <2>1, <2>2, Zenon
<1>5. CA!SSL = SA!SSL /\ CA!Records = SA!Records
  BY ZenonT(60) DEF CA!Versions, SA!Versions, CA!Ciphers, SA!Ciphers, CA!Flags, SA!Flags,
                    CA!MessageTypes, SA!MessageTypes, CA!Hashed, SA!Hashed, CA!Hash, SA!Hash,
                    CA!Epochs, SA!Epochs, CA!Sides, SA!Sides, CA!Keys, SA!Keys, CA!Macs, SA!Macs,
                    CA!Records, SA!Records, CA!MsgFlow, SA!MsgFlow, CA!SubStates, SA!SubStates,
                    CA!ClientStates, SA!ClientStates, CA!ServerStates, SA!ServerStates,
                    CA!HandStates, SA!HandStates, CA!Reasons, SA!Reasons, CA!Options, SA!Options,
                    CA!SSL, SA!SSL
<1> QED BY <1>1, <1>2, <1>3, <1>4, <1>5, ZenonT(60) DEF CA!Together, SA!Together

-----------------------------------------------------------------------------
(* The inductive invariant *)

\* Each end is as it is with an arbitrary peer, and the two go together.
HandshakeInv ==
  /\ ~client.server /\ server.server
  /\ CA!TypeInv /\ CA!FlightInv /\ CA!SecInv
  /\ SA!TypeInv /\ SA!FlightInv /\ SA!SecInv
  /\ CA!Together(client, server, toClient, toServer)

LEMMA HandshakeInit == Init => HandshakeInv
<1> SUFFICES ASSUME Init PROVE HandshakeInv
  OBVIOUS
<1>1. PICK o \in Settings : /\ client = ossl_statem_clear(FALSE, o.client)
                            /\ server = ossl_statem_clear(TRUE, o.server)
  BY ZenonT(60) DEF Init
<1>2. o.client \in Options /\ o.server \in Options
  BY SettingsAssumption
<1>3. ~client.server /\ server.server
  BY <1>1 DEF ossl_statem_clear
<1>4. CA!Init
  BY <1>1, <1>2, ClientValues DEF Init, CA!Init
<1>5. SA!Init
  BY <1>1, <1>2, ServerValues DEF Init, SA!Init
<1>6. CA!TypeInv /\ CA!FlightInv /\ CA!SecInv
  BY <1>4, ClientValues, CA!TypeInit, CA!FlightInit, CA!SecInit
<1>7. SA!TypeInv /\ SA!FlightInv /\ SA!SecInv
  BY <1>5, ServerValues, SA!TypeInit, SA!FlightInit, SA!SecInit
<1>8. CA!Together(client, server, toClient, toServer)
  <2>1. client \in CA!SSL /\ CA!Good(client)
    BY <1>6 DEF CA!TypeInv, CA!TypeOK, CA!SecInv
  <2>2. server \in CA!SSL /\ CA!Good(server)
    <3>1. server \in SA!SSL /\ SA!Good(server)
      BY <1>7 DEF SA!TypeInv, SA!TypeOK, SA!SecInv
    <3> QED BY <3>1, EndsSame, ClientValues, ServerValues
  <2>3. /\ client = CA!ossl_statem_clear(FALSE, o.client)
        /\ server = CA!ossl_statem_clear(~FALSE, o.server)
        /\ o.client \in CA!Options /\ o.server \in CA!Options
    BY <1>1, <1>2, ClientValues
  <2>4. toClient = <<>> /\ toServer = <<>>
    BY DEF Init
  <2> QED BY <2>1, <2>2, <2>3, <2>4, ClientValues, CA!TogetherFresh
<1> QED BY <1>3, <1>6, <1>7, <1>8 DEF HandshakeInv

\* The client moves.
LEMMA ClientMoves ==
  ASSUME HandshakeInv, ClientStep
  PROVE  HandshakeInv'
<1>1. CA!EndpointNext /\ server' = server
  BY ClientSame DEF ClientStep
<1>2. CA!TypeInv' /\ CA!FlightInv' /\ CA!SecInv'
  BY <1>1, ClientValues, CA!TypeStep, CA!FlightStep, CA!SecStep DEF HandshakeInv, CA!Next
<1>3. CA!Together(client', server, toClient', toServer')
  BY <1>1, ClientValues, CA!TogetherStep DEF HandshakeInv
<1>4. SA!Together(server, client', toServer', toClient')
  BY <1>3, EndsSame
<1>5. ~client'.server
  BY <1>2, <1>3 DEF HandshakeInv, CA!Together, CA!SSL
<1>6. SA!TypeInv'
  <2>1. server \in SA!SSL /\ toServer' \in Seq(SA!Records) /\ toClient' \in Seq(SA!Records)
    BY <1>4 DEF SA!Together
  <2> QED BY <1>1, <2>1 DEF HandshakeInv, SA!TypeInv, SA!TypeOK, SA!Chosen, SA!RestsAtEnds
<1>7. SA!FlightInv'
  BY <1>1 DEF HandshakeInv, SA!FlightInv, SA!Ended, SA!Silent, SA!WriteStates
<1>8. SA!SecInv'
  <2>1. \A i \in DOMAIN toServer' : toServer'[i].flags \in SA!FlagsOf(toServer'[i].mt)
    BY <1>4, ServerValues, SA!TogetherFlags
  <2>2. SA!Good(server)
    BY DEF HandshakeInv, SA!SecInv
  <2> QED BY <1>1, <2>1, <2>2 DEF SA!SecInv, SA!InFlags, SA!FlagsOf
<1> QED BY <1>1, <1>2, <1>3, <1>5, <1>6, <1>7, <1>8 DEF HandshakeInv

\* The server moves.
LEMMA ServerMoves ==
  ASSUME HandshakeInv, ServerStep
  PROVE  HandshakeInv'
<1>1. SA!EndpointNext /\ client' = client
  BY ServerSame DEF ServerStep
<1>2. SA!TypeInv' /\ SA!FlightInv' /\ SA!SecInv'
  BY <1>1, ServerValues, SA!TypeStep, SA!FlightStep, SA!SecStep DEF HandshakeInv, SA!Next
<1>3. SA!Together(server', client, toServer', toClient')
  <2>1. SA!Together(server, client, toServer, toClient)
    BY EndsSame DEF HandshakeInv
  <2> QED BY <1>1, <2>1, ServerValues, SA!TogetherStep DEF HandshakeInv
<1>4. CA!Together(client, server', toClient', toServer')
  BY <1>3, EndsSame
<1>5. server'.server
  BY <1>2, <1>3 DEF HandshakeInv, SA!Together, SA!SSL
<1>6. CA!TypeInv'
  <2>1. client \in CA!SSL /\ toServer' \in Seq(CA!Records) /\ toClient' \in Seq(CA!Records)
    BY <1>4 DEF CA!Together
  <2> QED BY <1>1, <2>1 DEF HandshakeInv, CA!TypeInv, CA!TypeOK, CA!Chosen, CA!RestsAtEnds
<1>7. CA!FlightInv'
  BY <1>1 DEF HandshakeInv, CA!FlightInv, CA!Ended, CA!Silent, CA!WriteStates
<1>8. CA!SecInv'
  <2>1. \A i \in DOMAIN toClient' : toClient'[i].flags \in CA!FlagsOf(toClient'[i].mt)
    BY <1>4, ClientValues, CA!TogetherFlags
  <2>2. CA!Good(client)
    BY DEF HandshakeInv, CA!SecInv
  <2> QED BY <1>1, <2>1, <2>2 DEF CA!SecInv, CA!InFlags, CA!FlagsOf
<1> QED BY <1>1, <1>2, <1>4, <1>5, <1>6, <1>7, <1>8 DEF HandshakeInv

\* Nothing moves.
LEMMA StillHolds ==
  ASSUME HandshakeInv, UNCHANGED vars
  PROVE  HandshakeInv'
<1>0. client' = client /\ server' = server /\ toServer' = toServer /\ toClient' = toClient
  BY DEF vars
<1>1. CA!TypeInv' /\ CA!FlightInv' /\ CA!SecInv'
  BY <1>0
     DEF HandshakeInv, CA!TypeInv, CA!TypeOK, CA!Chosen, CA!RestsAtEnds, CA!FlightInv, CA!Ended,
     CA!SecInv, CA!InFlags
<1>2. SA!TypeInv' /\ SA!FlightInv' /\ SA!SecInv'
  BY <1>0
     DEF HandshakeInv, SA!TypeInv, SA!TypeOK, SA!Chosen, SA!RestsAtEnds, SA!FlightInv, SA!Ended,
     SA!SecInv, SA!InFlags
<1> QED BY <1>0, <1>1, <1>2 DEF HandshakeInv

LEMMA HandshakeStep == HandshakeInv /\ [Next]_vars => HandshakeInv'
<1> SUFFICES ASSUME HandshakeInv, [Next]_vars PROVE HandshakeInv'
  OBVIOUS
<1>1. CASE ClientStep
  BY <1>1, ClientMoves
<1>2. CASE ServerStep
  BY <1>2, ServerMoves
<1>3. CASE UNCHANGED vars
  BY <1>3, StillHolds
<1> QED BY <1>1, <1>2, <1>3 DEF Next, Terminated

-----------------------------------------------------------------------------
(* What an end knows when it has completed *)

\* An end that has completed knows its peer's choices and settings.
LEMMA Known ==
  ASSUME NEW r, NEW w, NEW p, NEW q, CA!Together(r, w, p, q), Established(r)
  PROVE  /\ r.version = w.version /\ r.hit = w.hit /\ r.new_cipher = w.new_cipher
         /\ r.new_cipher = IF r.version = "TLS1_3" THEN "TLS13" ELSE r.opt.cipher
         /\ w.new_cipher = IF w.version = "TLS1_3" THEN "TLS13" ELSE w.opt.cipher
         /\ r.version \in r.opt.versions \cap w.opt.versions
         /\ "TLS1_3" \in r.opt.versions \cap w.opt.versions => r.version = "TLS1_3"
         /\ r.version \in {"TLS1_2", "TLS1_3"}
         /\ IF r.version = "TLS1_3" THEN r.group = w.group ELSE r.extms /\ w.extms
         /\ CA!Trusts(r, w)
         /\ r.hit => r.opt.session = r.version /\ w.opt.session = w.version
<1>1. CA!Linked(r, w) /\ CA!Wire(r) /\ CA!Wire(w) /\ r \in CA!SSL
  BY DEF CA!Together
<1>2. CA!PeerSeen(r)
  BY DEF CA!PeerSeen, Established
<1>3. \A t \in {r, w} : t.hit => t.opt.session = t.version
  BY <1>1 DEF CA!Wire, CA!Always
<1>4. r.opt.versions \subseteq {"TLS1_2", "TLS1_3"}
  BY <1>1 DEF CA!SSL, CA!Options, CA!Versions
<1> QED BY <1>1, <1>2, <1>3, <1>4 DEF CA!Linked

\* The best version is the one negotiated.
LEMMA BestKnown ==
  ASSUME NEW v \in Usable, v \in {"TLS1_2", "TLS1_3"}, "TLS1_3" \in Usable => v = "TLS1_3"
  PROVE  v = BestVersion
BY DEF BestVersion

LEMMA ClientKnows ==
  ASSUME HandshakeInv, Established(client)
  PROVE  /\ client.version = BestVersion /\ server.version = BestVersion
         /\ client.new_cipher = server.new_cipher /\ client.new_cipher = Suite
         /\ client.hit = server.hit
         /\ IF BestVersion = "TLS1_3" THEN client.group = server.group
                                      ELSE client.extms /\ server.extms
         /\ ServerAcceptable
<1>0. CA!Together(client, server, toClient, toServer) /\ ~client.server
  BY DEF HandshakeInv
<1>1. /\ client.version = server.version /\ client.hit = server.hit
      /\ client.new_cipher = server.new_cipher
      /\ client.new_cipher = IF client.version = "TLS1_3" THEN "TLS13" ELSE client.opt.cipher
      /\ client.version \in Usable
      /\ "TLS1_3" \in Usable => client.version = "TLS1_3"
      /\ client.version \in {"TLS1_2", "TLS1_3"}
      /\ IF client.version = "TLS1_3" THEN client.group = server.group
                                      ELSE client.extms /\ server.extms
      /\ CA!Trusts(client, server)
      /\ client.hit => client.opt.session = client.version /\ server.opt.session = server.version
  BY <1>0, Known DEF Usable
<1>2. client.version = BestVersion
  BY <1>1, BestKnown
<1>3. client.new_cipher = Suite
  BY <1>1, <1>2 DEF Suite
<1>4. ServerAcceptable
  BY <1>0, <1>1, <1>2, <1>3 DEF ServerAcceptable, Resumable, CA!Trusts, CA!VerifyPeer
<1> QED BY <1>1, <1>2, <1>3, <1>4

LEMMA ServerKnows ==
  ASSUME HandshakeInv, Established(server)
  PROVE  /\ client.version = BestVersion /\ server.version = BestVersion
         /\ client.new_cipher = server.new_cipher /\ server.new_cipher = Suite
         /\ client.hit = server.hit
         /\ IF BestVersion = "TLS1_3" THEN client.group = server.group
                                      ELSE client.extms /\ server.extms
         /\ ClientAcceptable
<1>0. CA!Together(server, client, toServer, toClient) /\ server.server
  <2>1. CA!Together(client, server, toClient, toServer)
    BY DEF HandshakeInv
  <2> QED BY <2>1 DEF HandshakeInv, CA!Together
<1>1. /\ server.version = client.version /\ server.hit = client.hit
      /\ server.new_cipher = client.new_cipher
      /\ client.new_cipher = IF client.version = "TLS1_3" THEN "TLS13" ELSE client.opt.cipher
      /\ server.version \in Usable
      /\ "TLS1_3" \in Usable => server.version = "TLS1_3"
      /\ server.version \in {"TLS1_2", "TLS1_3"}
      /\ IF server.version = "TLS1_3" THEN server.group = client.group
                                      ELSE server.extms /\ client.extms
      /\ CA!Trusts(server, client)
      /\ server.hit => server.opt.session = server.version /\ client.opt.session = client.version
  BY <1>0, Known DEF Usable
<1>2. server.version = BestVersion
  BY <1>1, BestKnown
<1>3. server.new_cipher = Suite
  BY <1>1, <1>2 DEF Suite
<1>4. ClientAcceptable
  BY <1>0, <1>1, <1>2, <1>3 DEF ClientAcceptable, Resumable, CA!Trusts, CA!VerifyPeer
<1> QED BY <1>1, <1>2, <1>3, <1>4

LEMMA HandshakeAgrees == HandshakeInv => Agreement
<1> SUFFICES ASSUME HandshakeInv, Established(client), Established(server) PROVE Agreement
  BY DEF Agreement
<1>1. /\ CA!Together(client, server, toClient, toServer)
      /\ client.hand_state = "OK" /\ server.hand_state = "OK"
  BY DEF HandshakeInv, Established
<1>2. /\ client \in CA!SSL /\ server \in CA!SSL /\ client.server # server.server
      /\ CA!Always(client) /\ CA!Always(server) /\ CA!Good(client) /\ CA!Good(server)
      /\ CA!Linked(client, server) /\ CA!Linked(server, client)
  BY <1>1 DEF CA!Together, CA!Wire
<1>3. client.transcript = server.transcript /\ client.enc_read = server.enc_write
  BY <1>1, <1>2, ClientValues, CA!Agrees
<1>4. server.enc_read = client.enc_write
  BY <1>1, <1>2, ClientValues, CA!Agrees
<1> QED BY <1>3, <1>4, ClientKnows DEF Agreement

LEMMA HandshakeAcceptable == HandshakeInv => OnlyAcceptable
BY ClientKnows, ServerKnows DEF OnlyAcceptable

LEMMA HandshakeTypes == HandshakeInv => TypeOK
BY ClientValues DEF HandshakeInv, CA!Together, TypeOK

-----------------------------------------------------------------------------
(* Theorems *)

\* Whatever the interleaving of the two ends, both SSL objects and what is in
\* flight keep their types (ssl_local.h).
THEOREM HandshakeTyped == Spec => []TypeOK
BY HandshakeInit, HandshakeStep, HandshakeTypes, PTL DEF Spec

\* When both ends have completed they agree on version, resumption, suite and
\* transcript, and each reads with the key the other one writes with
\* (tls_process_finished, tls1_change_cipher_state, tls13_change_cipher_state).
THEOREM EndsAgree == Spec => []Agreement
BY HandshakeInit, HandshakeStep, HandshakeAgrees, PTL DEF Spec

\* An end completes only on the best version both enable and with a peer whose
\* credentials its verify mode accepts (ssl_choose_client_version,
\* ssl_choose_server_version, tls_process_server_certificate,
\* tls_process_client_certificate).
THEOREM AcceptableOnly == Spec => []OnlyAcceptable
BY HandshakeInit, HandshakeStep, HandshakeAcceptable, PTL DEF Spec

-----------------------------------------------------------------------------
(* Damaged hellos *)

\* A damaged record is still a record of its kind.
LEMMA FlipRecord ==
  ASSUME NEW m \in CA!Records, NEW f \in HelloFlags
  PROVE  Flip(m, f) \in CA!Records /\ Flip(m, f).mt = m.mt
<1>1. f \in CA!Flags
  BY ClientValues DEF HelloFlags
<1>2. (IF f \in m.flags THEN m.flags \ {f} ELSE m.flags \cup {f}) \in SUBSET CA!Flags
  BY <1>1 DEF CA!Records
<1> QED BY <1>2 DEF Flip, CA!Records

\* Damage to a channel, of which t reads p.
LEMMA DamagedTogether ==
  ASSUME NEW t, NEW u, NEW p, NEW q, NEW c, CA!Together(t, u, p, q), NEW f \in HelloFlags,
         p # <<>>, Head(p).mt \in {"CLIENT_HELLO", "SERVER_HELLO"},
         c = [p EXCEPT ![1] = Flip(@, f)]
  PROVE  CA!Together(t, u, c, q)
<1>1. p \in Seq(CA!Records) /\ p[1] \in CA!Records /\ Head(p) = p[1]
  BY DEF CA!Together
<1>2. Flip(p[1], f) \in CA!Records /\ Flip(p[1], f).mt = p[1].mt
  BY <1>1, FlipRecord
<1>3. PICK m \in CA!Records : m = Flip(p[1], f)
  BY <1>2
<1>4. CA!Together(t, u, [p EXCEPT ![1] = m], q)
  <2>1. m.mt = p[1].mt /\ m.mt \in {"CLIENT_HELLO", "SERVER_HELLO"}
    BY <1>1, <1>2, <1>3
  <2> QED BY <2>1, ClientValues, CA!TogetherChanged
<1>5. c = [p EXCEPT ![1] = m]
  BY <1>3
<1> QED BY <1>4, <1>5

\* What is left to show once the two ends still go together.
LEMMA ChannelsOnly ==
  ASSUME HandshakeInv, client' = client, server' = server,
         CA!Together(client, server, toClient', toServer')
  PROVE  HandshakeInv'
<1>1. SA!Together(server, client, toServer', toClient')
  BY EndsSame
<1>2. /\ toServer' \in Seq(CA!Records) /\ toClient' \in Seq(CA!Records)
      /\ toServer' \in Seq(SA!Records) /\ toClient' \in Seq(SA!Records)
  BY <1>1 DEF CA!Together, SA!Together
<1>3. \A i \in DOMAIN toClient' : toClient'[i].flags \in CA!FlagsOf(toClient'[i].mt)
  BY ClientValues, CA!TogetherFlags
<1>4. \A i \in DOMAIN toServer' : toServer'[i].flags \in SA!FlagsOf(toServer'[i].mt)
  BY <1>1, ServerValues, SA!TogetherFlags
<1>5. CA!TypeInv' /\ CA!FlightInv'
  BY <1>2 DEF HandshakeInv, CA!TypeInv, CA!TypeOK, CA!Chosen, CA!RestsAtEnds, CA!FlightInv, CA!Ended
<1>6. SA!TypeInv' /\ SA!FlightInv'
  BY <1>2 DEF HandshakeInv, SA!TypeInv, SA!TypeOK, SA!Chosen, SA!RestsAtEnds, SA!FlightInv, SA!Ended
<1>7. CA!SecInv'
  BY <1>3 DEF HandshakeInv, CA!SecInv, CA!InFlags, CA!FlagsOf
<1>8. SA!SecInv'
  BY <1>4 DEF HandshakeInv, SA!SecInv, SA!InFlags, SA!FlagsOf
<1> QED BY <1>5, <1>6, <1>7, <1>8 DEF HandshakeInv

LEMMA CarriedStep == HandshakeInv /\ [CNext]_allVars => HandshakeInv'
<1> SUFFICES ASSUME HandshakeInv, [CNext]_allVars PROVE HandshakeInv'
  OBVIOUS
<1>0. CA!Together(client, server, toClient, toServer)
  BY DEF HandshakeInv
<1>1. CASE Carry
  BY <1>1, HandshakeStep DEF Carry
<1>2. CASE CorruptToServer
  <2>1. PICK f \in HelloFlags : Damaged(toServer, f)
    BY <1>2, ZenonT(60) DEF CorruptToServer
  <2>2. client' = client /\ server' = server /\ toClient' = toClient
    BY <1>2 DEF CorruptToServer
  <2>3. CA!Together(server, client, toServer, toClient)
    BY <1>0 DEF CA!Together
  <2>4. CA!Together(server, client, toServer', toClient)
    BY <2>1, <2>3, DamagedTogether DEF Damaged
  <2>5. CA!Together(client, server, toClient', toServer')
    BY <2>2, <2>4 DEF CA!Together
  <2> QED BY <2>2, <2>5, ChannelsOnly
<1>3. CASE CorruptToClient
  <2>1. PICK f \in HelloFlags : Damaged(toClient, f)
    BY <1>3, ZenonT(60) DEF CorruptToClient
  <2>2. client' = client /\ server' = server /\ toServer' = toServer
    BY <1>3 DEF CorruptToClient
  <2>3. CA!Together(client, server, toClient', toServer)
    BY <1>0, <2>1, DamagedTogether DEF Damaged
  <2> QED BY <2>2, <2>3, ChannelsOnly
<1>4. CASE UNCHANGED allVars
  BY <1>4, HandshakeStep DEF allVars
<1> QED BY <1>1, <1>2, <1>3, <1>4 DEF CNext

\* No damage to the hellos goes unnoticed: however often and wherever a flag of a
\* hello is flipped, an end that completes has negotiated the same as its peer, on
\* the best version both enable and with the extended master secret
\* (tls_process_finished, and the sentinel of tls_process_server_hello).
THEOREM DamageNoticed == CSpec => []NegotiationIntact
<1>1. HandshakeInv => NegotiationIntact
  BY ClientKnows, ServerKnows DEF NegotiationIntact
<1>2. CInit => HandshakeInv
  BY HandshakeInit DEF CInit
<1> QED BY <1>1, <1>2, CarriedStep, PTL DEF CSpec

\* Nor does damage make the two ends disagree on anything else: the transcript is
\* the same on both sides, the hellos as they arrived included, and so are the
\* keys and the checks of the credentials.
THEOREM DamagedEndsAgree == CSpec => [](Agreement /\ OnlyAcceptable)
<1>1. CInit => HandshakeInv
  BY HandshakeInit DEF CInit
<1> QED BY <1>1, CarriedStep, HandshakeAgrees, HandshakeAcceptable, PTL DEF CSpec

=============================================================================
