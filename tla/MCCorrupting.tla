---------------------------- MODULE MCCorrupting -----------------------------
(* Settings for model checking CorruptingTransport: endpoints that enable  *)
(* both versions, with and without a session to resume.                    *)
EXTENDS CorruptingTransport

Base ==
  [versions |-> Versions, compat |-> TRUE, verify |-> "NONE", cert |-> "TRUSTED",
   session |-> "NONE", ticket |-> FALSE, renew |-> FALSE, status |-> FALSE,
   groups |-> {"g1", "g2"}, num_tickets |-> 1, cipher |-> "DHE", hint |-> FALSE]

MCSettings ==
  { [client |-> [Base EXCEPT !.session = cs, !.verify = "PEER"],
     server |-> [Base EXCEPT !.session = cs, !.versions = v]]
    : cs \in {"NONE", "TLS1_2"}, v \in {Versions, {"TLS1_2"}} }
==============================================================================
