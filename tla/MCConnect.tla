------------------------------ MODULE MCConnect ------------------------------
(* Connect.tla on hosts whose two files are alike: gateway.toml and         *)
(* gateway.env do not depend on each other, and each takes every shape.     *)
EXTENDS Connect

MCHosts == {host \in [toml : Files, env : Files] : host.toml = host.env}
=============================================================================
