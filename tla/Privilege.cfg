SPECIFICATION Spec
INVARIANTS PromptIsTrue VerdictsPass StackBounded
