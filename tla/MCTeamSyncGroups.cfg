SPECIFICATION Spec
CONSTANTS
    g1 = g1
    g2 = g2
    devops = devops
    developer = developer
    shared = shared
    Users = {u1}
    Groups = {g1, g2}
    TeamNames = {devops, developer}
    Folders = {shared}
    GroupsMapping <- TwoGroups
    FolderPermissions <- OwnFolder
    NoGroup = NoGroup
    NoFolder = NoFolder
INVARIANTS
    UndisturbedAreSynced
PROPERTIES
    NoOutsiderJoins
