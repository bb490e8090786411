-------------------------- MODULE MCRoutingService --------------------------
(* Small instances of RoutingService for TLC. *)
EXTENDS RoutingService, TLC

CONSTANTS openai, anthropic, azure, gpt, claude, gptX

\* azure is in the chain twice but has no API key; gptX is served by openai
\* and has no equivalent elsewhere.
MCRegistry == <<openai, anthropic>>
MCFallbackChain == <<azure, anthropic, openai, azure>>
MCServes == {<<openai, gpt>>, <<openai, gptX>>, <<anthropic, claude>>}
MCEquivalentModel ==
    (<<openai, gpt>> :> <<anthropic, claude>>) @@
    (<<anthropic, claude>> :> <<openai, gpt>>)

\* Native, remapped by an override, without an equivalent, unregistered.
MCInbound ==
    {[model |-> gpt, override |-> NoProvider],
     [model |-> gptX, override |-> NoProvider],
     [model |-> gpt, override |-> anthropic],
     [model |-> claude, override |-> azure]}
=============================================================================
