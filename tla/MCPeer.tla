------------------------------- MODULE MCPeer -------------------------------
(* Settings and hello messages for model checking ArbitraryPeer.           *)
EXTENDS ArbitraryPeer

Base ==
  [versions |-> Versions, compat |-> TRUE, verify |-> "FAIL", cert |-> "TRUSTED",
   session |-> "NONE", ticket |-> TRUE, renew |-> FALSE, status |-> FALSE,
   groups |-> {"g2"}, num_tickets |-> 1, cipher |-> "DHE", hint |-> FALSE]

OneOf(flags) == {{f} : f \in flags}
Combine(a, b) == {x \cup y : x \in a, y \in b}

MCServerOptions ==
  { [Base EXCEPT !.verify = v, !.cipher = c, !.session = ss, !.compat = ss # "TLS1_3"]
    : v \in {"NONE", "PEER", "FAIL"}, c \in {"DHE", "PSK"},
      ss \in {"NONE", "TLS1_2", "TLS1_3"} }

MCClientHellos ==
  Combine(Combine(SUBSET Versions, {{}, {"sess12", "sess13"}}),
          Combine({{}, {"g1"}, {"g2"}}, {{"DHE", "PSK", "ticket", "ems"}}))
    \cup {Versions, {"TLS1_2", "DHE", "sess12"}}

\* A client prefers group g1; a server that wants g2 asks it to retry.
MCClientOptions ==
  { [Base EXCEPT !.verify = v, !.cipher = c, !.session = ss, !.compat = ss # "TLS1_3",
                 !.cert = IF ss = "TLS1_3" THEN "NONE" ELSE "TRUSTED"]
    : v \in {"NONE", "PEER"}, c \in {"DHE", "ANON", "RSAPSK"},
      ss \in {"NONE", "TLS1_2", "TLS1_3"} }

MCServerHellos ==
  Combine(Combine(OneOf(Versions), OneOf({"DHE", "ANON", "RSAPSK", "TLS13"})),
          {{"g1"}, {"g1", "hit"}, {"g2", "ticket", "ems"}, {"g2", "hit", "ticket", "ems"}})
    \cup { {"TLS1_2", "DHE", "sentinel"} }
    \cup Combine({{"HRR", "TLS13"}, {"HRR", "DHE"}}, {{"g1"}, {"g2"}})
=============================================================================
