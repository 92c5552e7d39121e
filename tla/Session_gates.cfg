\* Two threads, agents or services; two tenants and a caller without one.
CONSTANTS
    Threads = {t1, t2}
    Scopes = {nobody, ta, tb}
    Requests = {q1}
    Policies <- SamplePolicies
    NoTenant = nobody
    Unresolved = unresolved
    Untargeted = untargeted
    MaxTurns = 2
    MaxUses = 2
    AgentSets = {{}, {t1}}
SPECIFICATION FairSpec
INVARIANTS TypeOK AllowIsCleared LateAnswerIgnored EveryUseAnswered
PROPERTIES NobodyHangs
