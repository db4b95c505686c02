------------------------------ MODULE MCCalls ------------------------------
(* Values of Calls' constants for TLC. *)
EXTENDS Calls

CONSTANTS p4499, p14499, h1, h2, h3, h4

EnvRec(tunnel, at, listen, host) == [tunnel |-> tunnel, at |-> at, listen |-> listen, host |-> host]

\* A direct environment, two behind SSH that use one local port, and one behind
\* WireGuard at an address somebody else has outside of the VPN.
FourEnvs == {EnvRec("none", p4499, p4499, h1),
             EnvRec("ssh", p14499, p14499, h2), EnvRec("ssh", p14499, p14499, h3),
             EnvRec("wireguard", p4499, p4499, h4)}

\* example-direct and example-ssh of config.example.yaml.
ExampleEnvs == {EnvRec("none", p4499, p4499, h1), EnvRec("ssh", p4499, p14499, h2)}

LocalServer == [a \in {p4499, p14499} |-> IF a = p4499 THEN h1 ELSE NoHost]
=============================================================================
