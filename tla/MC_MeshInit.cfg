CONSTANTS
    MaxRejects <- MCMaxRejects
SPECIFICATION Spec
\* mesh-init is a one-shot command: every run ends in a state where it has
\* exited (and the sidecar has started, or never will).
CHECK_DEADLOCK FALSE
INVARIANTS
    SidecarStartsOnlyWhenReady
PROPERTIES
    BootstrapSpec
