SPECIFICATION Spec
CONSTANT Load = "ddr"
INVARIANT LowerRuns
