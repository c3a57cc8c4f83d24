---------------------------- MODULE MCHandshake -----------------------------
(* Settings of client and server for model checking TLSHandshake.          *)
EXTENDS TLSHandshake

\* SSL_CTX_new defaults, with a certificate on the server.
Default(versions, cert) ==
  [versions |-> versions, compat |-> TRUE, verify |-> "NONE", cert |-> cert,
   session |-> "NONE", ticket |-> TRUE, renew |-> FALSE, status |-> FALSE,
   groups |-> {"g1", "g2"}, num_tickets |-> 1, cipher |-> "DHE", hint |-> FALSE]

Pair(c, s) == [client |-> c, server |-> s]
V12 == {"TLS1_2"}
V13 == {"TLS1_3"}
Both == {"TLS1_2", "TLS1_3"}
C12 == Default(V12, "NONE")
S12 == Default(V12, "TRUSTED")
C13 == Default(V13, "NONE")
S13 == Default(V13, "TRUSTED")

\* A client's certificate matters only to a server that asks for one.
Asked(p) == p.server.verify = "NONE" => p.client.cert = "NONE"

\* TLSv1.2, every cipher suite against every kind of client authentication.
Auth12 ==
  { Pair([C12 EXCEPT !.cipher = k, !.cert = cert],
         [S12 EXCEPT !.cipher = k, !.verify = v, !.hint = h])
    : k \in Ciphers \ {"TLS13"}, cert \in {"NONE", "TRUSTED", "UNTRUSTED"},
      v \in {"NONE", "PEER", "FAIL"}, h \in BOOLEAN }

\* Resumption, tickets and OCSP stapling, each side for or against.
Resume12 ==
  { Pair([C12 EXCEPT !.session = cs, !.ticket = ct, !.status = st, !.cipher = "RSA"],
         [S12 EXCEPT !.session = ss, !.ticket = tk, !.renew = r, !.status = st, !.cipher = "RSA"])
    : cs \in {"NONE", "TLS1_2"}, ss \in {"NONE", "TLS1_2"}, ct \in BOOLEAN,
      tk \in BOOLEAN, r \in BOOLEAN, st \in BOOLEAN }

MCSettings12 ==
  { p \in Auth12 : /\ p.server.hint => p.server.cipher \in {"PSK", "RSAPSK"}
                   /\ Asked(p) } \cup Resume12

\* TLSv1.3: authentication of both sides, with the middlebox compatibility of
\* each side, a server that takes the client's first key share or wants
\* another one (HelloRetryRequest), and resumption with renewed tickets.
Auth13 ==
  { Pair([C13 EXCEPT !.cert = cert, !.compat = cc],
         [S13 EXCEPT !.verify = v, !.compat = sc, !.groups = g])
    : cert \in {"NONE", "TRUSTED", "UNTRUSTED"}, v \in {"NONE", "PEER", "FAIL"},
      cc \in BOOLEAN, sc \in BOOLEAN, g \in {{"g1"}, {"g2"}} }

\* The change cipher spec records of one side matter with and without a retry,
\* whatever certificate the client has.
Compat13 ==
  { p \in Auth13 :
      Asked(p) /\ (p.client.cert = "TRUSTED" \/ p.client.compat = p.server.compat) }

Untrusted13 ==
  { Pair([C13 EXCEPT !.verify = "PEER", !.compat = cc],
         [S13 EXCEPT !.cert = "UNTRUSTED", !.compat = sc, !.groups = g])
    : cc \in BOOLEAN, sc \in BOOLEAN, g \in {{"g1"}, {"g2"}} }

Resume13 ==
  { Pair([C13 EXCEPT !.session = "TLS1_3", !.cert = "TRUSTED"],
         [S13 EXCEPT !.session = "TLS1_3", !.renew = r, !.groups = g, !.num_tickets = n,
                     !.verify = "FAIL"])
    : r \in BOOLEAN, g \in {{"g1"}, {"g2"}}, n \in 0..2 }

Tickets13 == { Pair(C13, [S13 EXCEPT !.num_tickets = n]) : n \in {0, 2, 3} }

MCSettings13 == Compat13 \cup Untrusted13 \cup Resume13 \cup Tickets13

\* Every combination of enabled versions, with every combination of remembered
\* sessions, with a certificate the client does not trust, and with another
\* TLSv1.2 suite on the server.
Mixed ==
  { Pair([Default(cv, "NONE") EXCEPT !.verify = "PEER", !.session = cs],
         [Default(sv, c) EXCEPT !.session = ss, !.cipher = k])
    : cv \in {V12, V13, Both}, sv \in {V12, V13, Both}, c \in {"TRUSTED", "UNTRUSTED"},
      cs \in {"NONE", "TLS1_2", "TLS1_3"}, ss \in {"NONE", "TLS1_2", "TLS1_3"},
      k \in {"DHE", "RSA"} }

MCSettingsMixed ==
  { p \in Mixed :
      \/ {p.client.session, p.server.session} = {"NONE"}
      \/ p.server.cipher = "DHE" /\ p.server.cert = "TRUSTED" }

MCSettings == MCSettings12 \cup MCSettings13 \cup MCSettingsMixed
=============================================================================
