SPECIFICATION Spec
INVARIANTS PromptIsTrue VerdictsPass Coherent LowerRuns
