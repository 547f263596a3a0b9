CONSTANTS
    f1 = f1
    f2 = f2
    a1 = a1
    a2 = a2
    b1 = b1
    b2 = b2
    Families <- MCFamilies
    Tasks <- MCTasks
    TaskFamily <- MCTaskFamily
    MeshTasks <- MCMeshTasks
    InitTokens <- MCInitTokens
    InitIdents <- MCInitIdents
    MaxTokens <- MCMaxTokens
    MaxFaults <- MCMaxFaults
    MaxTaskChanges <- MCMaxTaskChanges
SPECIFICATION Spec
PROPERTIES
    Converges
