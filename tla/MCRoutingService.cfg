CONSTANTS
    openai = openai
    anthropic = anthropic
    azure = azure
    gpt = gpt
    claude = claude
    gptX = gptX
    r1 = r1
    r2 = r2
    Providers = {openai, anthropic, azure}
    Models = {gpt, claude, gptX}
    Calls = {r1, r2}
    NoProvider = NoProvider
    NoModel = NoModel
    Inbound <- MCInbound
    Registry <- MCRegistry
    FallbackChain <- MCFallbackChain
    Serves <- MCServes
    EquivalentModel <- MCEquivalentModel
    FailureThreshold = 2
    Cooldown = 1
    MaxRetries = 0
    MaxChunks = 1
SPECIFICATION FairRoutingSpec
INVARIANTS
    RoutingTypeOK
    SelectionNamesProducer
    FallbackInOrder
PROPERTY ImplementsContract
