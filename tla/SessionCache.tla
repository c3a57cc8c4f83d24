---------------------------- MODULE SessionCache ----------------------------
(***************************************************************************)
(* The server's session cache (ssl/ssl_sess.c, ssl_update_cache of          *)
(* ssl/ssl_lib.c, the replay check of ssl/statem/extensions_srvr.c): a hash *)
(* table of SSL_SESSION structs by session id and a list of the same        *)
(* structs by age, shared by the threads that run connections and guarded   *)
(* by the context's lock.  Reference counts are atomic but not guarded: a   *)
(* thread takes its reference before or inside the locked section and drops *)
(* it after it.  An action is what one thread does between two points where *)
(* another may get in.                                                      *)
(***************************************************************************)
EXTENDS Integers, Sequences, FiniteSets, SequencesExt, Functions

CONSTANTS
    Threads,        \* the threads, one connection at a time each
    Structs,        \* addresses of SSL_SESSION structs; a freed one is used again
    Ids,            \* session ids, random in the code: none is issued twice
    NULL,
    Limits,         \* the cache sizes an application sets; 0 is no limit
    Settings        \* the settings of the context to start from

VARIABLES
    ctx,        \* how the context is set up, see SettingsType
    limit,      \* session_cache_size
    hash,       \* the structs in ctx->sessions
    list,       \* session_cache_head .. session_cache_tail
    lock,       \* the thread that holds ctx->lock over several steps, or NULL
    refs,       \* refs[s]: s->references; 0 is freed or never allocated
    sid,        \* sid[s]: session_id, NULL if session_id_length is 0
    dead,       \* the structs with not_resumable set
    issued,     \* the ids given out so far
    store,      \* the ids in the application's external cache
    resumed,    \* resumed[i]: how many connections resumed the session i (at most 2 are told apart)
    th          \* th[t]: where thread t is

vars == <<ctx, limit, hash, list, lock, refs, sid, dead, issued, store, resumed, th>>

\* external: get, new and remove callbacks are set; tls13: TLS 1.3 with stateful
\* tickets (SSL_OP_NO_TICKET, or early data); single_use: of these, max_early_data
\* > 0 and no SSL_OP_NO_ANTI_REPLAY; memory: allocations inside the hash table may
\* fail.
SettingsType ==
    {c \in [external : BOOLEAN, tls13 : BOOLEAN, single_use : BOOLEAN, memory : {"enough", "short"}] :
        c.single_use => c.tls13}

ASSUME SessionAssumption ==
    /\ IsFiniteSet(Threads) /\ Threads # {}
    /\ NULL \notin Threads /\ NULL \notin Structs /\ NULL \notin Ids
    /\ Limits \subseteq Nat
    /\ Settings \subseteq SettingsType

\* pc: the step the thread is at; session: s->session, of which the thread owns
\* a reference; other: the entry remove_session_lock took out; next: the step
\* after the call it is in; id: the session it was asked to resume.
Idle == [pc |-> "idle", session |-> NULL, other |-> NULL, next |-> "idle", id |-> NULL]

At(t, pc) == th[t].pc = pc
Goto(t, pc) == th' = [th EXCEPT ![t].pc = pc]

LockFree == lock = NULL

\* lh_SSL_SESSION_retrieve
Retrieve(i) == {s \in hash : sid[s] = i /\ i # NULL}

\* The list q after SSL_SESSION_list_remove on the members of S.
Without(q, S) ==
    LET kept[n \in 0..Len(q)] ==
            IF n = 0 THEN <<>>
            ELSE IF q[n] \in S THEN kept[n - 1] ELSE Append(kept[n - 1], q[n])
    IN  kept[Len(q)]

\* SSL_SESSION_free on the members of S, one reference each.
Freed(S) == [s \in Structs |-> IF s \in S THEN refs[s] - 1 ELSE refs[s]]

----------------------------------------------------------------------------
(* SSL_CTX_add_session: the reference for the cache is taken first.         *)

\* Mutation: the cache does not take a reference of its own.
CallAddNoRef(t, s, r, next) ==
    /\ refs' = r
    /\ th' = [th EXCEPT ![t] = [Idle EXCEPT !.pc = "add", !.session = s, !.next = next, !.id = th[t].id]]

\* The part before the lock.
CallAdd(t, s, r, next) ==
    /\ refs' = [r EXCEPT ![s] = r[s] + 1]
    /\ th' = [th EXCEPT ![t] = [Idle EXCEPT !.pc = "add", !.session = s, !.next = next, !.id = th[t].id]]

\* Mutation: a new struct is not cleared.
AllocateUncleared(s, i) ==
    /\ refs[s] = 0
    /\ sid' = [sid EXCEPT ![s] = i]
    /\ UNCHANGED dead

\* A zeroed struct for the id i (SSL_SESSION_new, d2i_SSL_SESSION).
Allocate(s, i) ==
    /\ refs[s] = 0
    /\ sid' = [sid EXCEPT ![s] = i]
    /\ dead' = dead \ {s}

\* The session of a full handshake: the connection holds the first reference and
\* ssl_update_cache adds it.
NewSession(t) ==
    /\ At(t, "idle")
    /\ \E s \in Structs, i \in Ids \ issued :
        /\ Allocate(s, i)
        /\ issued' = issued \cup {i}
        /\ CallAdd(t, s, [refs EXCEPT ![s] = 1], "store")
    /\ UNCHANGED <<ctx, limit, hash, list, lock, store, resumed>>

\* A further TLS 1.3 ticket: the connection goes on with a copy of its session
\* under a new id.  ssl_session_dup copies not_resumable with the rest.
NewTicket(t) ==
    /\ At(t, "connected")
    /\ ctx.tls13
    /\ \E s \in Structs, i \in Ids \ issued :
        /\ refs[s] = 0
        /\ sid' = [sid EXCEPT ![s] = i]
        /\ dead' = IF th[t].session \in dead THEN dead \cup {s} ELSE dead \ {s}
        /\ issued' = issued \cup {i}
        /\ CallAdd(t, s, [Freed({th[t].session}) EXCEPT ![s] = 1], "store")
    /\ UNCHANGED <<ctx, limit, hash, list, lock, store, resumed>>

\* lh_SSL_SESSION_insert found no memory: for a larger table, before it looked
\* for the id, or for the node of a new id.
InsertFails == ctx.memory = "short"

\* What insert returned and the cache after it.  The struct of another
\* connection with the same id is displaced and loses its reference; a struct
\* that is already there keeps its place and the reference is taken back.
AddLocked(t) ==
    LET s == th[t].session
        old == Retrieve(sid[s])
    IN  /\ At(t, "add")
        /\ LockFree
        /\ \/ /\ s \notin old
              /\ hash' = (hash \ old) \cup {s}
              /\ list' = <<s>> \o Without(list, old \cup {s})
              /\ refs' = Freed(old)
              /\ lock' = t
              /\ Goto(t, "trim")
           \/ /\ s \in old
              /\ refs' = Freed({s})
              /\ Goto(t, th[t].next)
              /\ UNCHANGED <<hash, list, lock>>
           \/ /\ InsertFails
              /\ old = {}
              /\ refs' = Freed({s})
              /\ Goto(t, th[t].next)
              /\ UNCHANGED <<hash, list, lock>>
           \/ /\ InsertFails
              /\ old # {}
              /\ list' = <<s>> \o Without(list, {s})
              /\ lock' = t
              /\ Goto(t, "trim")
              /\ UNCHANGED <<hash, refs>>
        /\ UNCHANGED <<ctx, limit, sid, dead, issued, store, resumed>>

\* Mutation: off by one at the limit.
TooLargeByTwo == limit > 0 /\ Cardinality(hash) > limit + 1

TooLarge == limit > 0 /\ Cardinality(hash) > limit

\* One turn of the trimming loop: the tail of the list goes, whatever entry has
\* its id; a tail that is in no entry, or has no id, ends the loop.  The lock is held all along
\* and the remove callback runs under it.
Trim(t) ==
    /\ At(t, "trim")
    /\ TooLarge
    /\ list # <<>>
    /\ LET c == Last(list)
           r == Retrieve(sid[c])
       IN  /\ dead' = IF sid[c] = NULL THEN dead ELSE dead \cup {c}
           /\ hash' = hash \ r
           /\ list' = Without(list, r)
           /\ refs' = Freed(r)
           /\ store' = store \ {sid[c]}
           /\ IF r = {}
              THEN lock' = NULL /\ Goto(t, th[t].next)
              ELSE UNCHANGED <<lock, th>>
    /\ UNCHANGED <<ctx, limit, sid, issued, resumed>>

AddDone(t) ==
    /\ At(t, "trim")
    /\ ~TooLarge \/ list = <<>>
    /\ lock' = NULL
    /\ Goto(t, th[t].next)
    /\ UNCHANGED <<ctx, limit, hash, list, refs, sid, dead, issued, store, resumed>>

\* The application's new_session_cb saves a copy of the session and returns 0,
\* so that the reference taken for it is dropped again.
StoreExternal(t) ==
    /\ At(t, "store")
    /\ store' = IF ctx.external THEN store \cup ({sid[th[t].session]} \ {NULL}) ELSE store
    /\ Goto(t, "connected")
    /\ UNCHANGED <<ctx, limit, hash, list, lock, refs, sid, dead, issued, resumed>>

----------------------------------------------------------------------------
(* Resumption: lookup_sess_in_cache, then the checks of the caller.         *)

\* Mutation: a hit takes no reference.
LookupNoRef(t, i) ==
    /\ At(t, "idle")
    /\ LockFree
    /\ \E s \in Retrieve(i) :
        th' = [th EXCEPT ![t] = [Idle EXCEPT !.pc = "found", !.session = s, !.id = i]]
    /\ UNCHANGED <<ctx, limit, hash, list, lock, refs, sid, dead, issued, store, resumed>>

\* A hit takes its reference under the lock.
Lookup(t, i) ==
    /\ At(t, "idle")
    /\ LockFree
    /\ \/ \E s \in Retrieve(i) :
            /\ refs' = [refs EXCEPT ![s] = refs[s] + 1]
            /\ th' = [th EXCEPT ![t] = [Idle EXCEPT !.pc = "found", !.session = s, !.id = i]]
       \/ /\ Retrieve(i) = {}
          /\ ctx.external
          /\ th' = [th EXCEPT ![t] = [Idle EXCEPT !.pc = "missed", !.id = i]]
          /\ UNCHANGED refs
    /\ UNCHANGED <<ctx, limit, hash, list, lock, sid, dead, issued, store, resumed>>

\* A miss asks the application, which builds a struct of its own from its copy
\* (copy == 0); it is added to the internal cache.
Fetch(t) ==
    /\ At(t, "missed")
    /\ \/ /\ th[t].id \in store
          /\ \E s \in Structs :
                /\ Allocate(s, th[t].id)
                /\ CallAdd(t, s, [refs EXCEPT ![s] = 1], "found")
       \/ /\ th[t].id \notin store
          /\ th' = [th EXCEPT ![t] = Idle]
          /\ UNCHANGED <<refs, sid, dead>>
    /\ UNCHANGED <<ctx, limit, hash, list, lock, issued, store, resumed>>

CountResumed(i) == resumed' = [resumed EXCEPT ![i] = IF @ < 2 THEN @ + 1 ELSE @]

\* ssl_get_prev_session, or tls_parse_ctos_psk with its replay check first.  A
\* session of another version or context is not used; one that has expired is
\* removed as well, unless a TLS 1.3 ticket named it.  The clock is left open.
Resume(t) ==
    /\ At(t, "found")
    /\ \/ /\ ctx.single_use
          /\ th' = [th EXCEPT ![t].pc = "remove", ![t].next = "claimed"]
          /\ UNCHANGED resumed
       \/ ~ctx.single_use /\ Goto(t, "close") /\ UNCHANGED resumed
       \/ /\ ~ctx.tls13
          /\ th' = [th EXCEPT ![t].pc = "remove", ![t].next = "close"]
          /\ UNCHANGED resumed
       \/ /\ ~ctx.single_use
          /\ CountResumed(th[t].id)
          /\ Goto(t, "hello")
    /\ UNCHANGED <<ctx, limit, hash, list, lock, refs, sid, dead, issued, store>>

\* The replay check passed; a session that has expired, or does not fit the cipher
\* or the context, is not used all the same.
ResumeClaimed(t) ==
    /\ At(t, "claimed")
    /\ \/ Goto(t, "close") /\ UNCHANGED resumed
       \/ CountResumed(th[t].id) /\ Goto(t, "hello")
    /\ UNCHANGED <<ctx, limit, hash, list, lock, refs, sid, dead, issued, store>>

\* tls_construct_server_hello: a session marked by now loses its id, which the
\* code does to a struct that other threads, and the cache, may be using.
ServerHello(t) ==
    LET s == th[t].session
    IN  /\ At(t, "hello")
        /\ sid' = IF s \in dead THEN [sid EXCEPT ![s] = NULL] ELSE sid
        /\ th' = [th EXCEPT ![t].pc = "connected", ![t].id = NULL]
        /\ UNCHANGED <<ctx, limit, hash, list, lock, refs, dead, issued, store, resumed>>

----------------------------------------------------------------------------
(* Removal.                                                                *)

\* A fatal alert, also in the rest of the handshake, or an unclean shutdown: the
\* connection's session must not be resumed (ssl3_send_alert, ssl_clear_bad_session).
Fail(t) ==
    /\ At(t, "hello") \/ At(t, "connected")
    /\ th' = [th EXCEPT ![t].pc = "remove", ![t].next = "close"]
    /\ UNCHANGED <<ctx, limit, hash, list, lock, refs, sid, dead, issued, store, resumed>>

\* remove_session_lock: the entry with the id of c leaves the cache, which may
\* be another struct than c; c is marked.  Without an id nothing is done.
RemoveLocked(t) ==
    LET c == th[t].session
        r == Retrieve(sid[c])
    IN  /\ At(t, "remove")
        /\ \/ /\ sid[c] = NULL
              /\ Goto(t, IF th[t].next = "claimed" THEN "close" ELSE th[t].next)
              /\ UNCHANGED <<hash, list, dead>>
           \/ /\ sid[c] # NULL
              /\ LockFree
              /\ hash' = hash \ r
              /\ list' = Without(list, r)
              /\ dead' = dead \cup {c}
              /\ th' = [th EXCEPT ![t].pc = "removed",
                                  ![t].other = IF r = {} THEN NULL ELSE CHOOSE s \in r : TRUE]
        /\ UNCHANGED <<ctx, limit, lock, refs, sid, issued, store, resumed>>

\* Mutation: the replay check ignores what the removal found.
RemoveDoneUnchecked(t) ==
    LET r == th[t].other
    IN  /\ At(t, "removed")
        /\ store' = store \ {sid[th[t].session]}
        /\ refs' = IF r = NULL THEN refs ELSE Freed({r})
        /\ th' = [th EXCEPT ![t].other = NULL, ![t].pc = th[t].next]
        /\ UNCHANGED <<ctx, limit, hash, list, lock, sid, dead, issued, resumed>>

\* After the lock: the callback removes the id from the external cache, then the
\* cache's reference is dropped.  The replay check fails if there was no entry.
RemoveDone(t) ==
    LET r == th[t].other
    IN  /\ At(t, "removed")
        /\ store' = store \ {sid[th[t].session]}
        /\ refs' = IF r = NULL THEN refs ELSE Freed({r})
        /\ th' = [th EXCEPT ![t].other = NULL,
                            ![t].pc = IF th[t].next = "claimed" /\ r = NULL THEN "close" ELSE th[t].next]
        /\ UNCHANGED <<ctx, limit, hash, list, lock, sid, dead, issued, resumed>>

\* The connection ends, perhaps in the middle of its handshake, and drops its
\* reference.
Close(t) ==
    LET s == th[t].session
    IN  /\ th[t].pc \in {"hello", "connected", "close"}
        /\ refs' = Freed({s})
        /\ th' = [th EXCEPT ![t] = Idle]
        /\ UNCHANGED <<ctx, limit, hash, list, lock, sid, dead, issued, store, resumed>>

\* Mutation: flushed entries stay on the list.
FlushKeepsLinks(gone) ==
    /\ LockFree
    /\ gone # {}
    /\ hash' = hash \ gone
    /\ dead' = dead \cup gone
    /\ store' = store \ {sid[s] : s \in gone}
    /\ refs' = Freed(gone)
    /\ UNCHANGED <<ctx, limit, list, lock, sid, issued, resumed, th>>

\* SSL_CTX_flush_sessions, every 255 connections or by the application: the
\* entries that have expired, or all (t == 0), under one lock.  The table does not
\* find an entry that has lost its id.
Flush(gone) ==
    /\ LockFree
    /\ gone # {}
    /\ hash' = hash \ {s \in gone : sid[s] # NULL}
    /\ list' = Without(list, gone)
    /\ dead' = dead \cup gone
    /\ store' = store \ {sid[s] : s \in gone}
    /\ refs' = Freed(gone)
    /\ UNCHANGED <<ctx, limit, lock, sid, issued, resumed, th>>

----------------------------------------------------------------------------
(* The environment.                                                        *)

\* SSL_CTX_sess_set_cache_size
SetLimit(n) ==
    /\ n # limit
    /\ limit' = n
    /\ UNCHANGED <<ctx, hash, list, lock, refs, sid, dead, issued, store, resumed, th>>

Init ==
    /\ ctx \in Settings
    /\ limit \in Limits
    /\ hash = {}
    /\ list = <<>>
    /\ lock = NULL
    /\ refs = [s \in Structs |-> 0]
    /\ sid = [s \in Structs |-> NULL]
    /\ dead = {}
    /\ issued = {}
    /\ store = {}
    /\ resumed = [i \in Ids |-> 0]
    /\ th = [t \in Threads |-> Idle]

Step(t) ==
    \/ AddLocked(t) \/ Trim(t) \/ AddDone(t) \/ StoreExternal(t) \/ Fetch(t)
    \/ Resume(t) \/ ResumeClaimed(t) \/ ServerHello(t) \/ RemoveLocked(t) \/ RemoveDone(t) \/ Close(t)

Next ==
    \/ \E t \in Threads : Step(t) \/ NewSession(t) \/ NewTicket(t) \/ Fail(t) \/ \E i \in Ids : Lookup(t, i)
    \/ \E gone \in SUBSET hash : Flush(gone)
    \/ \E n \in Limits : SetLimit(n)

Spec == Init /\ [][Next]_vars

\* A thread in the middle of a call goes on.
FairSpec == Spec /\ \A t \in Threads : WF_vars(Step(t))
----------------------------------------------------------------------------
(* Properties.                                                             *)

\* The cache holds structs, counts references and knows ids; references never
\* drop below zero (REF_ASSERT_ISNT of SSL_SESSION_free).
TypeOK ==
    /\ ctx \in SettingsType
    /\ limit \in Nat
    /\ hash \subseteq Structs
    /\ list \in Seq(Structs)
    /\ lock \in Threads \cup {NULL}
    /\ refs \in [Structs -> Nat]
    /\ sid \in [Structs -> Ids \cup {NULL}]
    /\ dead \subseteq Structs
    /\ issued \subseteq Ids /\ store \subseteq issued
    /\ resumed \in [Ids -> 0..2]
    /\ \A t \in Threads : {th[t].session, th[t].other} \subseteq Structs \cup {NULL}

\* The pointers to s that own a reference: the cache's, those of the connections,
\* the one a thread on its way into SSL_CTX_add_session has taken for the cache, and
\* the one a thread carries out of remove_session_lock.
Users(s) == {t \in Threads : th[t].session = s}
Adders(s) == {t \in Users(s) : At(t, "add")}
Removers(s) == {t \in Threads : th[t].other = s}

Owed(s) ==
    (IF s \in hash THEN 1 ELSE 0)
    + Cardinality(Users(s)) + Cardinality(Adders(s)) + Cardinality(Removers(s))

\* However lookups, additions, removals, trims and flushes of several threads
\* interleave, a struct that someone still points to is not freed, nothing on the
\* list is freed memory and, while memory lasts, nothing leaks: the counts that
\* SSL_SESSION_up_ref and SSL_SESSION_free keep outside the lock are exact.
RefsExact ==
    \A s \in Structs :
        /\ refs[s] >= Owed(s)
        /\ ctx.memory = "enough" => refs[s] = Owed(s)
        /\ s \in Range(list) => refs[s] > 0

\* Two threads may add structs with the same id (both fetched it from the external
\* cache) and remove the entry of one through the struct of the other: the hash
\* table has one entry for each id and the list has exactly the entries of the
\* table, each once, while no allocation of the hash table fails.
ListIsHash == Range(list) = hash /\ Len(list) = Cardinality(hash)

CacheConsistent ==
    /\ \A r, s \in hash : sid[r] = sid[s] => r = s
    /\ ctx.memory = "enough" => ListIsHash

\* What remove_session_lock, the trimming loop or a flush has marked as not
\* resumable is in the cache no more and does not come back, whichever of two
\* structs of one id was marked.  With TLS 1.3 tickets a copy of it does.
NoDeadSessionCached == ~ctx.tls13 => hash \cap dead = {}

\* The replay check of tls_parse_ctos_psk: of the connections that present one
\* session at the same time, one resumes it.  An external cache may give out its
\* copy again before the remove callback has run, so it is left out here.
SingleUse == ctx.single_use /\ ~ctx.external => \A i \in Ids : resumed[i] <= 1

\* SSL_CTX_sess_set_cache_size.pod: "If adding the session makes the cache exceed
\* its size, then unused sessions are dropped from the end of the cache."  When
\* SSL_CTX_add_session unlocks, the cache is within its limit, also when the limit
\* was lowered with more sessions in the cache.
LimitKept ==
    [][lock # NULL /\ lock' = NULL /\ ctx.memory = "enough" /\ limit > 0
        => Cardinality(hash') <= limit]_vars
=============================================================================
