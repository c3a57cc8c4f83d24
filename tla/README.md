# A TLA+ model of OpenSSL 1.1.1k: TLS, DTLS, the session cache and BIO pairs

The repository is a Conan recipe (`src/conanfile.py`, `src/build.py`) around the
sources of OpenSSL 1.1.1k, which are under `src/src/`. The recipe only configures
a build. The program worth specifying is the library: two handshake state machines
that must stay in step whatever the peer sends; the DTLS layers that carry them over
a network that loses and repeats; a session cache shared by threads; and the BIO
pair, the ring buffer between a connection and an application that does its own
input and output. Paths below are relative to `src/src/`.

## 1. Inventory

| Component | State it keeps | Operations | What makes it hard | What makes it correct |
|---|---|---|---|---|
| Message flow machine (`ssl/statem/statem.c`) | `OSSL_STATEM`: flow state, read or write sub-state, `hand_state`, `in_init`; `init_buf`; the buffering BIO `bbio` | `state_machine`, `read_state_machine`, `write_state_machine`, `ossl_statem_fatal` | may return to the caller in any sub-state and be entered again; a flight must be flushed where it ends; every error has to become an alert | never waits with part of a flight in `bbio`; an error reaches the peer |
| Client (`statem_clnt.c`, `extensions_clnt.c`) | `version`, `hit`, `cert_req`, key share, session, `new_cipher` | transitions, constructors and processors of messages | optional messages, HelloRetryRequest, versions negotiated late | never completes without the authentication it asked for |
| Server (`statem_srvr.c`, `extensions_srvr.c`, `extensions.c`) | the same, with `cert_request`, `sent_tickets`, plaintext-alert tolerance | the same, and tickets after the handshake | the same, and handshake keys that must change between particular messages | the same for client certificates |
| Shared messages and version choice (`statem_lib.c`) | transcript, expected Finished MAC | Finished, CertificateVerify, change_cipher_spec, `tls_finish_handshake`, version choice, downgrade sentinel | the MAC is taken before the message it covers is hashed; the BIO is freed with its contents | nobody completes on values the other side does not share |
| Key schedule (`t1_enc.c`, `tls13_enc.c`, `s3_enc.c`) | read and write cipher states, `handshake_traffic_hash`, `server_finished_hash`, `master_key` | `change_cipher_state`, master secret, `final_finish_mac` | the two directions change at different messages on each side | each side reads with the key the other writes with |
| Record layer (`record/rec_layer_s3.c`, `record/ssl3_record.c`, `s3_msg.c`) | pending records, alert dispatch | `ssl3_read_bytes`, `ssl3_dispatch_alert` | records and alerts in the clear next to protected ones | nothing unprotected is taken for protected |
| Session cache (`ssl_sess.c`, `ssl_update_cache` of `ssl_lib.c`) | hash table, list by age, limit, reference counts, `not_resumable` marks, external cache | add, look up, remove, flush, trim, further tickets, replay check | threads; counts kept outside the lock; an id looked up a second time may name another struct; allocations that fail in the hash table | no use after free and no leak, one entry per id, a list that is the table, the limit holds, a single-use session is used once |
| DTLS handshake (`statem_dtls.c`, `d1_lib.c`) | `sent_messages`, `buffered_messages`, message numbers, timer, write epochs and counters | fragmentation, reassembly, retransmission, timeouts | loss, delay, reordering, fragments cut differently the second time, a last flight no timer guards | the handshake still ends; a retransmission goes out under its own epoch with a fresh record number |
| DTLS record layer (`rec_layer_d1.c`, `dtls1_bitmap.c`, `dtls1_get_record`, `pqueue.c`) | replay window, epoch, three queues, the rest of a datagram | replay check, buffering, `dtls1_process_buffered_records`, reading | duplicates on every path, queues at their limit, an epoch that changes with records waiting | nothing is handed up twice, nothing fresh is refused, records meet the keys of their epoch |
| BIO pair (`crypto/bio/bss_bio.c`) | ring buffer, offset, length, request, closed flag, peer | read, write, non-copying variants, shutdown, resizing, pairing, release | wrap-around, full and empty, close with data left, a pointer lent to the caller | a bounded queue in each direction |
| DRBG chain, initialisation, async jobs, ENGINE registry, lhash | parent and child generators; run-once flags; fibres; references; buckets | | threads, fork, re-entrance | |
| Primitives, ASN.1/PEM/CMS, X.509 path building, OCSP/TS/CT, applications, build files | | | no protocol state of their own | out of scope |

Interactions. `SSL_connect`, `SSL_accept` and, after the handshake, `SSL_read` call
`state_machine`; it calls the transition, pre-work, construct, post-work, process
and post-process functions of client or server through function pointers; those
use the shared messages and the key schedule; messages leave through `bbio` and
arrive through `ssl3_read_bytes`. All of it works on one `SSL` object, so within an
endpoint there is no concurrency; the concurrency is between the two endpoints and
the records in flight. Over DTLS the same machine calls `dtls_get_message` and
`dtls1_do_write`, and `dtls1_read_bytes` below them calls back up into the
retransmission code when a timer has run out or a Finished comes again. The session
cache is the one structure that connections of several threads share: they reach it
from `ssl_get_prev_session`, `tls_parse_ctos_psk`, `ssl_update_cache` and the error
paths. A BIO pair is used by two parties in turn, in one thread or under the
application's own lock.

`PROJECT.json` lists the hazards with the line where each bites and the properties
that watch it.

## 2. Modules

| Module | Models | Content |
|---|---|---|
| `SslLocal` | `ssl_local.h`, `statem.h` | the `SSL` object as a record, options, records in flight, fatal errors |
| `StatemLib` | `statem_lib.c`, `t1_enc.c`, `tls13_enc.c`, `s3_enc.c` | transcript, keys, Finished, CertificateVerify, change_cipher_spec, end of handshake, header, body and write of a message |
| `StatemClnt` | `statem_clnt.c`, `extensions_clnt.c`, client part of version choice | the client's transitions, pre/post work, messages |
| `StatemSrvr` | `statem_srvr.c`, `extensions_srvr.c`, `extensions.c`, server part of version choice | the server's |
| `Statem` | `statem.c`, reading rules of the record layer | the endpoint: variables `s`, `in`, `out`, one action per sub-state |
| `TLSHandshake` | two `SSL` objects on a reliable transport | client and server as two instances of `Statem` |
| `ArbitraryPeer` | one endpoint | `Statem` with a peer that sends anything |
| `CorruptingTransport` | two endpoints | `TLSHandshake` with damage to hello messages |
| `SessionCache` | `ssl_sess.c`, `ssl_update_cache`, the replay check of `extensions_srvr.c` | threads on one `SSL_CTX`: adding, lookup, removal, trimming, flushing, tickets, with an external cache |
| `DtlsRecord` | `dtls1_bitmap.c`, `rec_layer_d1.c`, `dtls1_get_record`, `pqueue.c` | the receiving record layer over a network that repeats, reorders, packs and damages |
| `DtlsHandshake` | `statem_dtls.c`, `d1_lib.c`, the writing counters of `rec_layer_d1.c` | two ends getting the messages of a handshake across a lossy network |
| `ByteQueues` | what `BIO_s_bio.pod` promises | the abstract specification: a bounded byte queue in each direction |
| `BioPair` | `bss_bio.c` | the ring buffers, one action per operation; an `INSTANCE` of `ByteQueues` with the refinement mapping |
| `StatemTypes`, `StatemSecurity`, `StatemTranscript` | | theorems about `ArbitraryPeer` and their proofs, each module on top of the one before |
| `TLSHandshakeProofs` | | theorems about `TLSHandshake` and `CorruptingTransport`, from `StatemTranscript` for each end |
| `DtlsRecordProofs` | | theorems about `DtlsRecord` |
| `SessionCacheProofs` | | theorems about `SessionCache` |
| `DtlsHandshakeProofs` | | theorems about `DtlsHandshake` |
| `BioPairProofs` | | theorems about `BioPair`, among them that it implements `ByteQueues` |
| `MCHandshake`, `MCPeer`, `MCCorrupting`, `MCSessionCache`, `MCDtlsRecord`, `MCDtlsHandshake`, `MCBioPair` | | constants for TLC |

### The TLS modules

How state corresponds. `s` is one record with the fields of the C object under
their C names where there is one (`hand_state`, `hit`, `cert_req`,
`hello_retry_request`, ...). `state` and `sub` are `MSG_FLOW_STATE` and the read or
write sub-state; `version = "ANY"` is an object whose version is not negotiated;
`opt` holds what the application set before (enabled versions, verify mode,
certificate, session, tickets, groups, suite). `enc_read`, `enc_write` are the
installed cipher states, `bbio` the buffering BIO, `reason` the code of the error.

How actions correspond. `Start` enters `state_machine`; `WriteTransition`,
`PreWork`, `Send`, `PostWork` are the four write sub-states; `ReadHeader`,
`ReadBody`, `PostProcess` the three read sub-states; `Spill` is the buffering BIO
passing on part of what it holds; `SslRead` is `SSL_read` on a finished
connection, which refuses a record, ends on an alert or re-enters the machine. The
C functions between them are operators with the C names that take the object and
return it as the function leaves it. A sub-state whose call would block stays as it
is and is tried again: a stuttering step, so `SSL_ERROR_WANT_READ`/`_WRITE` and
pausing callbacks need no action.

Abstractions of data:
- A message body is the set of flags the receiver's control depends on.
- A hash is the sequence of what was hashed, and a secret is the sequence it is
  derived from. Two are equal exactly when their inputs are; that is the usual
  symbolic assumption on the hash and key derivation functions.
- A record decrypts exactly when it was protected under the reader's key.
- A certificate chain has a verdict (`trusted`), a signature verifies (`ok`) or not.
- There is one suite at or below TLSv1.2 per endpoint, of the kinds RSA, DHE,
  anonymous, PSK, RSA-PSK, DHE-PSK, and one kind of TLSv1.3 suite; there are two
  groups, of which a client offers a share for the first one first.

### `SessionCache`

`hash` and `list` are `ctx->sessions` and the list from `session_cache_head` to
`_tail`; `refs`, `sid`, `dead` are `references`, `session_id` (NULL when
`session_id_length` is 0) and `not_resumable` of each struct; `lock` is `ctx->lock`
where it is held over several steps; `store` is the application's cache behind
`new_session_cb`, `get_session_cb` and `remove_session_cb` (external code). `th`
says where each thread is. An action is what a thread does between two points where
another may get in, so a locked section is one action (`AddLocked`, `RemoveLocked`,
`Lookup`, `Flush`), except that each turn of the trimming loop is one (`Trim`) with
the lock held; the references taken before the lock and dropped after it
(`CallAdd`, `RemoveDone`, `Close`) are steps of their own. `ServerHello` is the place
in `tls_construct_server_hello` that erases the id of a marked session. A freed struct
may be allocated again at once. Whether a session has expired is left open at every
check, so the clock is any clock.

### `DtlsRecord` and `DtlsHandshake`

`DtlsRecord` is one receiving end. `bitmap` is the replay window, its map a set of
bit positions; `unprocessed`, `processed` and `app_data` are the three queues, whose
items carry the rest of their datagram because the code queues the whole read buffer;
`pc` is the place in `dtls1_read_bytes` and `dtls1_get_record`. `Again` and
`ProcessBuffered` are the entry and one turn of the loop of
`dtls1_process_buffered_records`; `ReadRecord` takes the next record of a datagram
through `dtls1_get_bitmap`, the replay check, decryption, and either the window or a
queue; the `...Record` actions are what `dtls1_read_bytes` does with each type.
`Receive` is the network: any datagram of `Datagrams` at any time, any number of
times. A record number stands for its content; a damaged record (`genuine = FALSE`)
fails its MAC, except in epoch 0, which has none.

`DtlsHandshake` has both ends. Which messages make up a handshake is a parameter, a
*script*: a sequence of messages with their sender, length, whether the code starts
the timer for them and whether they end a flight. The module is about getting the
script across. `sent` and `buffered` are the two queues of `d1`; `out` holds the write
epoch and the counters that `DTLS_RECORD_LAYER_set_saved_w_epoch` swaps; `net` is the
set of records under way. `WriteMessage` is `dtls1_do_write` with its fragmentation
and `dtls1_buffer_message`; `HandleTimeout` is `dtls1_handle_timeout` with the MTU
reduction and the limit on timeouts; reading is `dtls1_retrieve_buffered_fragment`
first, then `dtls1_get_message_fragment` with reassembly and out-of-sequence
messages; a repeated Finished sends the last flight again. The record layer below is
taken as `DtlsRecord` shows it to be: no record twice, and one of the next epoch waits.

### `BioPair` and `ByteQueues`

The fields of `struct bio_bio_st` are one variable each, indexed by BIO. Calls on a
pair do not overlap (the code takes no lock), so a call is one action with its C name,
the control operations with that of their command (`ctrl_dup` is `BIO_CTRL_DUP`);
`ret` is what it returned, with the call and the number of bytes it asked for, the bytes
moved or shown, and the retry flag of the BIO. `lent` is the set of the indices that
`bio_nwrite0` gave out and `Fill` is the caller storing in any of them, at any time until
`bio_nwrite` claims them. Allocations may fail where the code allocates, and a BIO may be
paired with itself, which the code permits.

`ByteQueues` has no ring, only a sequence of bytes for each BIO. Its actions say what a
call of each kind may answer, depending on the queues: `Take` (bytes leave the queue they
are read from; `read` gets all that were asked for and are there, `nread` perhaps fewer),
`Peek` (`nread0` alone shows bytes that stay), `ReadNothing` (0 at the end of the stream,
a retry on an empty queue), and `Put`, `Offer`, `WriteNothing` for the writer. The
refinement maps the queue of a BIO to the bytes of its ring from `offset` on, wrapped, and
`answer` to `ret`.

## 3. Runs

| Run | Question | Bounds |
|---|---|---|
| `handshake` | two endpoints of the library: does every interleaving stay in step, complete when it should on the best common version, agree on keys, and fail on both sides when it should not complete? | TLSv1.2: every suite kind with every client certificate and verify mode; resumption, tickets, renewal, stapling on each side. TLSv1.3: compatibility mode on each side, HelloRetryRequest or not, client authentication, resumption, 0 to 3 tickets. Mixed: three version sets and three kinds of session on each side |
| `peer_server` | a server whose client sends any message in any order, in the clear or protected | verify modes, DHE and PSK, three kinds of session; 26 ClientHello bodies |
| `peer_client` | a client whose server does | verify modes, DHE, anonymous and RSA-PSK, three kinds of session; 37 ServerHello bodies |
| `corrupting` | does damage to the hellos go unnoticed? | two flags flipped in a connection, in either direction |
| `session_cache` | threads on one cache: are counts, table, list, marks and limit right? | 2 threads, 3 structs, 2 ids, limits 0 (none) and 1; with and without external cache, replay check and failing allocations |
| `dtls_record` | does the receiving record layer hand up every record once at most, refuse nothing fresh and leave nothing waiting? | 3 epochs of 3 record numbers, a window of 2 bits, queues of 2; every record alone, intact or damaged, and four packed datagrams |
| `dtls_handshake` | do timers, fragments and retransmissions bring both ends to the end? | a full, an abbreviated and a cookie handshake; one loss or early timeout in each, any reordering |
| `bio_pair` | is a pair of ring buffers two bounded queues, and are the promises to writers kept? | 2 BIOs, rings of 3 and 1 bytes, two byte values, calls of up to 3 bytes |
| `peer_client_retry`, `bio_pair_request`, `session_cache_stateful`, `dtls_record_fatal` | the disagreements of section 6 | as above; the session cache with 3 ids |

Why the bounds are enough to be interesting.
- TLS. Nothing bounds the length of a handshake: the state spaces are finite because
  a handshake is. The settings are the values the transitions branch on, so each
  branch of each transition is taken. The arbitrary peer answers only when the
  endpoint waits, because an endpoint cannot see when a record arrived; it may send
  each of the fifteen record types, with each of the bodies that lead to different
  branches, with a correct or a wrong `verify_data`, unprotected or under the
  endpoint's read key. Two damaged flags are what a downgrade needs (one to remove a
  version, one to hide it).
- Session cache. Two structs of one id need two threads that fetch it from the
  external cache; a third struct is one for the trimming loop to throw out. Ids are
  random in the code, so none is issued twice. Threads, structs and ids are
  interchangeable (symmetry). `StateView` leaves out what no action reads: the
  contents of freed structs and, where `SingleUse` says nothing, the count of
  resumptions. The finding needs a third id, for the copy of a resumed ticket.
- DTLS records. Three numbers exceed the window of two, so that a record falls out
  of it, and three epochs let the queue of the next epoch outlive a change. The code
  has 32 or 64 bits, queues of 100 and 48-bit numbers; section 5 proves the safety
  properties for all of these.
- DTLS handshake. ServerHello has three units: two fragments at first, three after
  the MTU was reduced, so a message can be completed from pieces of both cuts. The
  limit of one fault is on records lost and on timers that expire although something
  is still under way; reordering is not limited, nor are the timeouts that the
  faults lead to. `DurationsDouble` is what doubling durations give: of two timers
  that wait for each other, one does not expire twice more than the other.
- BIO pair. Three bytes are the smallest ring that wraps in the middle of a write
  and of a read; `OneLargeRing` keeps the other at one byte, since the directions
  share no data. `StateView` hides `ret`, which no action reads; what a call returns is
  checked on its step. `TwoEnds` keeps the counterexample of `bio_pair_request` to two
  BIOs. Section 5 proves the same for all sizes and numbers of BIOs.

Properties:
- `NoDesync`: no interleaving of flights, key changes, tickets and alerts ends in a
  record that does not decrypt, an unexpected message or an internal error; each
  failure is due to settings the two sides do not share.
- `Agreement`: two established sides agree on version, resumption, suite,
  transcript and both keys. `OnlyAcceptable`: each completes only on the best
  version and with a peer its verify mode accepts.
- `Completes`, `FailureReachesBoth`: what should connect connects, and if one side
  fails so does the other.
- `ClientAuthenticated`, `ServerAuthenticated`: stated on the transcript, so they
  ask for a trusted chain and *then* a proof of possession, in this handshake; the
  server's chain must come in its first flight, where no Certificate of the client's
  own can stand in for it.
- `KeysProtected`: no key from an empty secret or, in TLSv1.2, from public values
  alone; no direction left in the clear or in the handshake epoch; no tolerance of
  plaintext alerts after the handshake.
- `NothingHeldBack`: the buffering BIO is empty whenever the endpoint waits and when
  it is freed.
- `NeverGoesBack`: version, key epochs and retry state only move forward. The clause on
  the retry is about the server: a client's `hello_retry_request` is never marked
  complete, and what a second HelloRetryRequest does to it is the subject of
  `RetryChangesShare`.
- `NegotiationIntact`: as soon as *one* side completes, both have the same
  parameters, on the best version.
- `RefsExact`, `CacheConsistent`, `NoDeadSessionCached`, `SingleUse`, `LimitKept`:
  counts equal the pointers there are; one entry per id and a list that is the table;
  a marked session is out of the cache for good; one resumption of a single-use
  session; the limit holds whenever `SSL_CTX_add_session` returns.
- `NoReplay`, `WindowExact`, `FreshAccepted`, `RightKeys`, `LoopFits`,
  `BufferedProcessed`: no record number twice, on any path; the window is exactly what
  was taken; nothing fresh is refused; keys of the right epoch; the silent drop of a
  full queue never loses a record already counted; what waits gets its turn.
- `NumbersNotReused`, `RetransmittedAsSent`, `NoConfusion`, `Completes` of
  `DtlsHandshake`: record numbers are used once per epoch, retransmissions keep their
  epoch, the state machine gets the message it waits for, and both ends finish.
- `RingConsistent`, `LentWhileFilled`, `GuaranteeKept`, `IsQueuePair`: the indices, the
  region lent to a writer, the guarantee given to it, and the refinement of `ByteQueues`:
  every byte is read once and in order, end of file comes only behind the last byte of a
  peer that has closed, a retry only from an empty or a full queue, a short count only
  from the non-copying calls.
- `TypeOK` in each of the specifications with variables.

Each property of a passing run is paired in `PROJECT.json` with a variant of one of
the modelled functions that has a plausible bug and breaks the property. The
variants are the definitions commented "Mutation", next to the function they vary.

Deadlock is checked in the handshake, corruption, session cache and BIO pair runs.
In the first two `Terminated` is the only way to stop: both endpoints failed, or
finished with nothing left to read. In the others it is not checked: an endpoint in
`MSG_FLOW_ERROR` stays there, a failed receiver reads no more, and a DTLS handshake ends.

## 4. Fairness

Of the TLS models, `Fairness` is weak fairness of each endpoint's steps. The code
justifies it under the usual contract of the API: an application calls `SSL_connect`,
`SSL_accept` or `SSL_read` again until its handshake is over and as long as there is
something to read, each call makes progress when the transport is ready, and the
transport is reliable. The peer of `ArbitraryPeer` is under no fairness, so no liveness
is claimed there.

`DtlsHandshake` has the same assumption for each end: it keeps calling
`SSL_do_handshake` or `SSL_read`, and `DTLSv1_handle_timeout` when its timer has run
out. The network is under none; that it loses only so much is a bound (`Faults`).
`DtlsRecord` assumes that a reading call that is under way, or can go on with what it
already has, goes on (`WF_vars(Step)`); nothing is assumed about the network or about
renegotiation. In `SessionCache` a thread in the middle of a call goes on
(`FairSpec`, for the run that expects a violation of an action property; no liveness
is claimed).

## 5. What is proved

### TLS endpoint

Six theorems are about `ArbitraryPeer!Spec`: for either side, for every set of
options and every set of hello bodies, against a peer that sends anything. The only
assumption is `PeerAssumption` (the constants have their types).

`StatemTypes!TypeCorrect`: `Spec => []TypeOK`. `TypeOK` is not
inductive by itself: a ServerHello carries the object's version and suite as flags,
so it has its type only if both have been chosen, and the machine re-entered from
rest starts a new transcript only at the beginning of a handshake. `TypeInv`
therefore adds `Chosen` (a server that writes a ServerHello has chosen version and
suite) and `RestsAtEnds` (the machine rests only before and after a handshake).
The proof has a lemma per function on what type it returns, then a frame lemma per
group of functions for the two additional conjuncts, then one step per action.

`StatemTypes!FlightsComplete`: `Spec => []NothingHeldBack`. The reason is a match
between two tables of the source that are far apart: the flushes in
`*_post_work`, and the states at which `*_write_transition` stops writing. Lemma
`TransitionFlushed` states that match (a transition to reading, or to a state in
which nothing is sent, happens only after a flight has *ended*: read, or flushed).
`FlightInv` makes it inductive: the BIO is empty outside the writing flow, at a
transition after a flight has ended, and in the silent states; sub-states other
than the transition occur in write states and silent states only. `PreWorkBuffer`
and `ProcessBuffer` say what each group of functions does to the BIO.

`StatemSecurity` has three that hold whatever the peer sends and in whatever order:
`ClientsProveThemselves` (`Spec => []ClientAuthenticated`), `KeysAlwaysProtected`
(`Spec => []KeysProtected`) and `NothingTakenBack` (`Spec => NeverGoesBack`). Each speaks
of the end of a handshake and none is inductive: that a Finished was read says nothing about a certificate unless every
way through the transitions to that Finished has been accounted for. `SecInv` does it
state by state. It says that

- the message in hand is the one the state is about, and something has been hashed once
  the first hello has (`Flow`); before a version is chosen there are no keys, and a client
  that writes again answers a HelloRetryRequest (`Early`);
- how far the proof of identity has come: a server reports a certificate only after its
  own flight (`Opened`) and a trusted chain behind it (`ChainAfter`), is in the state of a
  CertificateVerify only with a certificate to check it against, and in the state of a
  Finished only when nothing is `Owed` (`Server`, `Server12`, `Server13`); a client is past
  the server's Certificate only with a chain, and past its signature, or its own
  ClientKeyExchange, only with a trusted chain and a use of its key, `ServerShown`
  (`Client`, `Client12`, `Client13`);
- which key each direction has in each state: in TLSv1.2 both orders, as the full and
  the abbreviated handshake change keys in opposite order; in TLSv1.3 that a server
  writes, and a client reads, under the application key before the other answers, and
  that a pending retry is answered before a flight goes out;
- a key is derived from something that is not public (`Keyed`), because where keys are
  installed there is a master secret or a non-empty transcript;
- an endpoint that has failed keeps only what its last state was worth (`Ends`).

The proof uses `TypeInv` and `FlightInv` as supporting invariants (the second for the
sub-states a state can be in). The lemmas follow the source: what each constructor
(`Made`), each processing function and each key change leaves alone or adds, which
states each transition function leads to and from where, what a growing transcript
keeps (a chain or a proof once found stays found), then one step per action. `Forward` is
`NeverGoesBack` as a relation between two objects, shown for the same functions. TLC
checked `SecInv` on the instances of `MCPeer`, and on wider ones, before it was proved.

### What a Finished proves (`StatemTranscript`)

Still about one endpoint with an arbitrary peer. `Wire` relates four things that the code
keeps apart: the transcript, the fields the endpoint acts on, its keys, and the records
it has sent. It has two parts, `Always` and, for an endpoint that has not failed, `Alive`.

- The hellos it has hashed are what it acts on: a client's ClientHello is its `Offer`, a
  ServerHello says what it has chosen (`Honours`, `Answers`), and a server's choice is one
  it may make on the ClientHello (`Obeys`, `Picked`).
- The two Certificate messages have one name and, in the transcript, no sender. What
  tells them apart is the end of the server's first flight (a ServerHelloDone, or the
  first Finished): `OwnChains` says the endpoint's own is on its side of it with its own
  chain, `Shown` that a client that insists on a certificate found a trusted one before it.
- A Finished in the buffering BIO, or sent, covers its sender's transcript up to it, under
  its sender's secret (`FinRecord`).
- The keys of a protected direction are those derived from the master secret, or from the
  transcript up to the first Finished (`KeysKnown`).
- After its own Finished, or after the check of its peer's, nothing that the Finished
  covers changes any more (`Steady`, a relation between two objects).

`ServersProveThemselves` (`Spec => []ServerAuthenticated`) is here because it needs
`ChainFirst`: a chain that the client sent itself proves nothing about the server.

The bridge to two endpoints is lemma `Concludes`: an endpoint whose peer is of the same
kind, and which checks a Finished, knows what its peer chose (`Linked`: version,
resumption, suite, secret, group or extended master secret, versions both enabled,
credentials; and the whole transcript if the peer writes last). `verify_data` is equal only
if transcript and secret are, because a hash is modelled by what it is taken of. From
equal transcripts, `Always` of each end gives equal choices. `Together` is the invariant of
two endpoints of either kind: what one end has decided, the other end still has (`Linked`,
in both directions), and what is in the channel is what the other end has sent
(`Delivers`). Lemma `TogetherStep` shows that a step of one end preserves it.

### Client and server connected (`TLSHandshakeProofs`)

Five theorems, for every pair of settings (`SettingsAssumption`: they have their type).
About `TLSHandshake!Spec`: `HandshakeTyped` (`[]TypeOK`), `EndsAgree` (`[]Agreement`) and
`AcceptableOnly` (`[]OnlyAcceptable`). About `CorruptingTransport!CSpec`, for every number of
flags damaged in a connection (`DamageAssumption` only says `MaxDamage` is a natural number):
`DamageNoticed` (`[]NegotiationIntact`) and `DamagedEndsAgree` (`[](Agreement /\ OnlyAcceptable)`).

None of these is inductive: two finished ends agree because of a check that each made
several flights before, on a value the other one sent before it was finished.
`HandshakeInv` is that history: each end satisfies `TypeInv`, `FlightInv` and `SecInv`, and the two are
`Together`. `CA` and `SA` are `StatemTranscript` for the two ends, each with
`OptionSet` all options and any hello bodies; lemmas `ClientSame`, `ServerSame` and
`EndsSame` show that a step of `TLSHandshake`'s endpoint is a step of that instance and that
both instances speak of the same records. So the proof has nothing of the state machines in
it, and each step of the pair is a step of one end and a stutter of the other. Damage
changes only the flags of a hello in a channel, and `Delivers` asks nothing of a hello.

### DTLS record layer (`DtlsRecordProofs`)

Six theorems about `DtlsRecord!Spec`: `RecordTypes`, `WindowIsExact`, `NeverReplayed`,
`KeysAreRight`, `LoopAlwaysFits`, `FreshIsAccepted`, for every width of the window,
every limit of the queues, any numbers, epochs, record types and datagrams. The
assumption is `WindowAssumption`; its one condition that is not a type,
`Saturation >= W`, is what the code has (128 against 32 or 64).

The argument has two layers. The lemmas on the window (`SatsubDifference`,
`PassedIsNew`, `RefusedIsOld`, `UpdateExact`) are pure: saturating subtraction decides
the comparisons of the replay check as exact subtraction would, so a number that
passes was not taken, one that is refused was taken or is out of the window, and
updating an exact window leaves an exact one. That a record is never handed up twice
does not follow from the window alone, because a record is marked when it is
decrypted and handed up later, possibly from another queue. The inductive invariant
`IInv` adds where a record may be: a number sits in at most one of `processed`,
`app_data` and the hand of `dtls1_read_bytes`, and is there only if it was taken and not
yet handed up (`HeldOnce`; conversely what was handed up was taken, `GotSeen`); the
window's upper edge is a number really taken (`MaxSeen`); the queue of waiting records
belongs to its own epoch, the one in use or the next (`EpochsInStep`); no decrypted
record is left over when a ChangeCipherSpec is worked on (`NothingLeft`), so that none
outlives its epoch; application data held back is genuine (`Genuine`); and the two
queues of the loop together fit one (`Bounded`). The proof has one lemma per
action and one step per conjunct the action can disturb.

### Session cache (`SessionCacheProofs`)

Six theorems, `CacheTypes`, `ReferencesExact`, `TableMatchesList`, `DeadStaysOut`,
`ResumedOnce` and `LimitHolds`, one for each property of the run, for any number of
threads, structs and ids, every limit, with and without an external cache, and with
allocations of the hash table failing. They assume `SessionAssumption` (types, and that
a struct, an id and a thread can be told from `NULL`) and the hypothesis
`ReplayChecked`: settings with sessions of TLSv1.3 in the cache have the replay check.
The hypothesis is not a convenience: without it a cached session can lose its id, and
the run `session_cache_stateful` shows the limit overrun (section 6).

None of the six is inductive. `IInv` says what each thread holds at each step
(`Threading`), that a struct on its way into the cache is known to its own thread only
(`Fresh`), that what was removed for good or claimed by the replay check is not in the
table (`Gone`), and that a count is at least, and while memory lasts exactly, the
pointers of table, list and threads (`Counts`); for `SingleUse` that an id is in one
place only: with the adding thread, in the table, with the one thread that claimed it,
or counted as resumed (`OneStruct`, `Unspent`, `Asked`, `OneClaim`). A count is a sum
over threads, so most of the work is in `OwedMoves` and `CountsKept`: what a step of one
thread does to the numbers of users, adders and removers of each struct. Filtering the
list (`Without`) is a recursive function; `WithoutIs` says what it computes, by an
induction on Nat that the library's theorem on well-founded relations gives in a form
the provers can use (`Induction`).

### DTLS handshake (`DtlsHandshakeProofs`)

`HandshakeTypes`, `RecordNumbersFresh`, `EpochsOfRetransmissions` and `RightMessage`, for
all scripts, MTUs, numbers of timeouts before an end gives up and numbers of losses, under
any order of delivery. The assumptions are `ScriptAssumption` (types) and `CcsAssumption`:
in a handshake each side sends at most one ChangeCipherSpec, and not as its first
message, as the transitions of `statem_clnt.c` and `statem_srvr.c` have it. The first
half is what makes the one saved counter enough: a third epoch would have nowhere to
keep the counter of the first.

`IInv` ties the counters of each end to its position in the script: the epochs are the
numbers of ChangeCipherSpecs before it, the message numbers those of the other messages
(`Positions`). Everything kept, under way or being put together stands for a message of
the script with the number and epoch of its place (`Kept`, `UnderWay`, `Collected`), and
every record number used is behind the counter of its epoch, the saved one for the
epoch before (`Numbering`). `RecordNumbersFresh` then rests on `RetransmitGood`, that
swapping the saved counter in and back leaves all numbers behind, and on an induction
over the flight (`RetransmitAllGood`); that a message cut at any MTU takes as many
numbers as it has fragments is `FragmentsFit`. `RightMessage` rests on `Expected`: number
and epoch name one message of the peer. For a number alone this is false, since
ChangeCipherSpec has none: the message behind it has the same number as if it were next,
and it is the epoch that keeps it back.

### BIO pair (`BioPairProofs`)

`PairTypes`, `RingsAreConsistent`, `LentStaysGood` and `PromiseIsKept` hold for any set of
BIOs, sizes and lengths of calls, from `ConstantsAssumption`. The inductive invariant
is `TypeOK`, `RingConsistent` and `LentWhileFilled` with `Buffers` (there is a buffer for
every BIO) and `LentIsFree` (a region is lent only while the ring is not full, so that
none of it is among the bytes still to be read and a caller that fills it cannot damage
them). Every call is shown to have one of a few effects on a ring
(nothing, bytes out, bytes in, a new size, empty), and the invariant is preserved by
each effect.

`PairsAreQueues`: `Spec => Queues!QSpec`. The initial state maps to the initial state
and every action maps to an action of `ByteQueues` that may give the same answer to the
same call; only a caller's store into lent bytes is a stutter. Its core is what
happens to `Contents`, the wrapped bytes of a ring: taking out the oldest k bytes,
in one or two chunks, leaves the rest of the sequence; appending puts the new bytes
behind the old; and a caller that fills a lent byte changes no byte of the queue.

### Only model-checked

`NoDesync` of `TLSHandshake`, the one safety property without a theorem. `HandshakeInv` says
what holds once a Finished has been checked; `NoDesync` speaks of every step before it,
that is, of the position of each machine relative to the other and of every message and
key change between them, for every pair of options. Its inductive invariant would be a
table of joint positions.
Liveness under fairness is beyond the proof system and stays with TLC: `Completes` and
`FailureReachesBoth` of `TLSHandshake`, `Completes` of `DtlsHandshake`, `BufferedProcessed`.

## 6. Where documentation and code disagree

Each of these is a run that expects a violation.

- `peer_client_retry`. The comment at `ssl/statem/extensions_clnt.c:1826` speaks of the
  key share of the first ClientHello; the code compares with the latest. A second
  HelloRetryRequest, which nothing refuses, may return to the first group.
  `RetryChangesShare` states the comment.
- `bio_pair_request`. `doc/man3/BIO_s_bio.pod:95` says that `BIO_get_read_request`
  never returns more than `BIO_get_write_guarantee`. Shutting down the writing side
  makes the guarantee 0 and leaves the request (`crypto/bio/bss_bio.c:503`).
- `session_cache_stateful`. With stateful TLSv1.3 tickets and no replay check, the
  session of a further ticket inherits `not_resumable` (`ssl/ssl_sess.c:114`), is cached
  with it, and loses its id in the cache when it is resumed
  (`ssl/statem/statem_srvr.c:2406`). Neither the trimming loop nor a flush can then find
  its entry of the table, and the cache outgrows its limit. `LimitKept` states
  `SSL_CTX_sess_set_cache_size.pod:29`.
- `dtls_record_fatal`. `dtls1_process_buffered_records` returns -1 after a fatal error
  (`ssl/record/rec_layer_d1.c:287`); its caller tests the result with `!`
  (`ssl/record/ssl3_record.c:1851`), so the reading call goes on and may hand up another
  record. `PermanentError` states the comment at `ssl/statem/statem.c:116`.

Worth knowing, without a run of their own:
- `SSL_CTX_set_verify.pod:101` says that with `SSL_VERIFY_FAIL_IF_NO_PEER_CERT` the
  handshake is terminated if the client returns no certificate. The condition at
  `ssl/statem/statem_srvr.c:397` never requests one in a suite authenticated by a
  pre-shared key, and the handshake completes. `ClientAuthenticated` is about the
  suites in which one is requested.
- A server with an anonymous suite and `SSL_VERIFY_FAIL_IF_NO_PEER_CERT` sends a
  certificate request that the library's own client refuses (`RequestRefused` in
  `TLSHandshake`).
- A lost HelloVerifyRequest is made good by nobody if the server keeps its connection
  object: it is not kept for retransmission, no timer guards it, and the ClientHello
  that comes again has a number already read. `Completes` of `DtlsHandshake` excepts
  exactly this (`RequestLost`). Servers that use `DTLSv1_listen` have no such object.
- When an insertion into the hash table fails for want of memory and a struct of the
  same id is there already, `SSL_CTX_add_session` takes the failure for success and
  list and table no longer agree. `CacheConsistent` says so only while memory lasts;
  `RefsExact` shows that nothing freed is on the list even then.
- `SingleUse` holds without an external cache; with one, the application may give out
  its copy again before the remove callback has run.
- The pointer that `BIO_nwrite0` gave out is stale once the peer has emptied the ring,
  because the next byte then moves to index 0; `LentWhileFilled` excepts this case.

## 7. Not modelled

In the TLS models: SSLv3, TLSv1.0, TLSv1.1; SRP, NPN, GOST, fixed Diffie-Hellman
certificates, EAP-FAST session secrets; renegotiation and HelloRequest after the
handshake; early data; KeyUpdate and post-handshake authentication; PSK without a key
exchange in TLSv1.3; limits on message size and on empty records; warning alerts and
close_notify; an alert that cannot be written at once; a transport that closes; the
peer certificate carried by a resumed session; a HelloRetryRequest with a cookie and no
group (`ext.tls13_cookie_len`, `statem/statem_clnt.c:1772`), which the code accepts and the
model refuses; cookies of servers. A write that blocks is no step of the models, since
nothing they keep changes by it: that the work before it (transcript, keys, counters) is
not repeated when the write is, is not shown. The extended master secret is always
offered by clients and recorded in sessions, as in this version. That a
ServerKeyExchange signature covers the randoms is not modelled.

In the others: the contents of sessions and their encoding, ticket encryption, the
client's side of sessions (`SSL_set_session`); renegotiation in `DtlsHandshake`
(`DtlsRecord` has it), SCTP, `DTLSv1_listen`, MTU discovery, the
real durations of timers; record headers, lengths, padding and compression; the control
calls of a BIO pair that only report a field.

Components left out altogether are in `PROJECT.json` with the reason: the DRBG chain
(its hazard, a forked child, rests on process ids of the operating system), library
initialisation (its order comes from `pthread_once` and `atexit`), asynchronous jobs (a
pausing job is a stutter of the handshake models), the ENGINE registry, cryptographic
primitives and generated assembly, encodings, X.509 path building, OCSP/TS/CT,
applications, engines, tests, the build and the Conan recipe. Most lines of the library
are in these, so the modelled share of the source is small while the modelled share of
its protocol state is not.

## 8. Plan

1. Done: the TLS state machines, connected, against an arbitrary peer and over a
   corrupting transport; session cache; DTLS records and handshake; BIO pair with its
   abstract specification; the proofs of section 5.
2. Post-handshake TLSv1.3 (KeyUpdate, post-handshake authentication), `SSL_shutdown`,
   renegotiation and early data, composed with `Statem`.
3. The scripts of `DtlsHandshake` taken from `StatemClnt` and `StatemSrvr`, so that the
   two are composed rather than joined by a parameter.
4. As far as worthwhile: DRBG chain across fork, run-once initialisation, ENGINE
   references.
5. Proofs: `NoDesync` of `TLSHandshake`, from `HandshakeInv` and a table of joint positions;
   the reference counts of the session cache without `ReplayChecked`.
