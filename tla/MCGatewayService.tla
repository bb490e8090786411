-------------------------- MODULE MCGatewayService --------------------------
(* Small instances of GatewayService for TLC. *)
EXTENDS GatewayService, TLC

CONSTANTS t1, t2, hi, hello, howdy, warm, cold

\* hi resembles hello and hello resembles howdy, but hi is far from howdy.
MCSimilar ==
    LET near == {<<hi, hello>>, <<hello, howdy>>}
    IN  (near \union {<<pair[2], pair[1]>> : pair \in near})
            \intersect (Prompts \X Prompts)

Ask(t, p, m, bypass, stream) ==
    [key |-> [tenant |-> t, prompt |-> p, params |-> m],
     bypass |-> bypass, stream |-> stream]

\* Other prompts, parameters and tenants than the ones beside them.
MixedWorkload ==
    {Ask(t1, hi, cold, FALSE, FALSE), Ask(t1, hello, cold, FALSE, FALSE),
     Ask(t1, howdy, cold, FALSE, TRUE), Ask(t1, hello, cold, TRUE, FALSE),
     Ask(t1, hello, warm, FALSE, FALSE), Ask(t2, hello, cold, FALSE, FALSE)}

\* Every kind of handler run, on two prompts.
KindsWorkload ==
    {Ask(t1, p, cold, bypass, stream) :
        p \in {hi, hello}, bypass \in BOOLEAN, stream \in BOOLEAN}

RequestSymmetry == Permutations(Requests)
=============================================================================
