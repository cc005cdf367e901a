---------------------------- MODULE MCPipeline ----------------------------
(***************************************************************************)
(* Instances of Pipeline for TLC: two hosts, one with a credential that    *)
(* changes between the snapshots, one whose rule names none or is absent.  *)
(***************************************************************************)
EXTENDS Pipeline, TLC

CONSTANTS v1, v2, ha, hb, c1, c2, http, https

MCRuleOf == (v1 :> (ha :> c1 @@ hb :> None)) @@ (v2 :> (ha :> c2 @@ hb :> NoMatch))

In(sni, host, port, pathOK, agentAuth) ==
    [sni |-> sni, host |-> host, authPort |-> port, hostPort |-> port,
     dst |-> https, pathOK |-> pathOK, agentAuth |-> agentAuth]

MCInputs ==
    { In(ha, ha, None, TRUE, TRUE),        \* agrees
      In(hb, None, https, TRUE, TRUE),     \* SNI only, port agrees
      In(ha, hb, None, TRUE, FALSE),       \* SNI and Host differ
      In(None, None, None, TRUE, FALSE),   \* no identity at all
      In(ha, ha, None, FALSE, FALSE),      \* path cannot be made canonical
      [In(ha, ha, None, TRUE, FALSE) EXCEPT !.hostPort = "malformed"],
      [In(ha, ha, https, TRUE, FALSE) EXCEPT !.authPort = http],
      [In(ha, ha, None, TRUE, FALSE) EXCEPT !.authPort = http] }
=============================================================================
