------------------------------ MODULE MCCause ------------------------------
(***************************************************************************)
(* One TLS endpoint on a sensitive port: the facets a batch may read of it.*)
(***************************************************************************)
EXTENDS Cause

\* No TLS, a self-signed certificate that expires soon, one of a CA.
chainOf(self) ==
    <<[subject |-> "leaf", issuer |-> IF self THEN "leaf" ELSE "ca", verifies |-> {self},
       alg |-> "RSA", bits |-> 2048, n |-> 0, digest |-> "SHA-256"]>>
certOf(self, nb, na) ==
    [outcome |-> "presented", dated |-> TRUE, nb |-> nb, na |-> na, chain |-> chainOf(self), sans |-> {<<"*", "z">>}]
NoTls == [outcome |-> "no-tls", dated |-> FALSE, nb |-> 0, na |-> 0, chain |-> <<>>, sans |-> {}]
MCCert == {NoTls, certOf(TRUE, 1, 7), certOf(FALSE, 0, 8)}
MCHttp == {[responded |-> TRUE, status |-> 200, location |-> {}],
           [responded |-> TRUE, status |-> 301, location |-> {[scheme |-> "http", host |-> "h"]}]}
MCTls == {[outcome |-> "enumerated", versions |-> {"1.2"}], [outcome |-> "enumerated", versions |-> {"1.0", "1.2"}]}
MCSvc == [port |-> 22, transport |-> "tcp"]
MCHost == <<"w", "z">>
MCPairs == {MCSvc}
=============================================================================
