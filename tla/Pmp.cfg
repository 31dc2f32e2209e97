SPECIFICATION Spec
CONSTANT Load = "sram"
INVARIANTS PromptIsTrue PolicyIsTrue VerdictsPass LowerRuns
