SPECIFICATION Spec
CONSTANTS
    g1 = g1
    g2 = g2
    devops = devops
    developer = developer
    shared = shared
    Users = {u1, u2}
    Groups = {g1}
    TeamNames = {devops, developer}
    Folders = {shared}
    GroupsMapping <- OneGroup
    FolderPermissions <- SharedFolder
    NoGroup = NoGroup
    NoFolder = NoFolder
SYMMETRY UserSymmetry
INVARIANTS
    TypeOK
    UndisturbedAreSynced
PROPERTIES
    NoOutsiderJoins
    NoMemberDropped
    GrantsAreWhole
