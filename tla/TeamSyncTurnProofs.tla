------------------------- MODULE TeamSyncTurnProofs -------------------------
(***************************************************************************)
(* What a pass does in a turn that meets no failure: it takes nobody out   *)
(* of the team of his group, not even for a moment, and leaves the group's *)
(* team, or the folder, in sync. A turn is calm while no unreliable call   *)
(* has concerned the group or folder in hand; in a calm turn everything    *)
(* the pass has been told is so, and what is left to do leads to what is   *)
(* wanted. Once the turn is over, other turns do not undo it.              *)
(***************************************************************************)
EXTENDS TeamSyncSafetyProofs

-----------------------------------------------------------------------------
(***************************************************************************)
(* The turn of one group or folder.                                        *)
(***************************************************************************)
\* So far no unreliable call has concerned the group or folder in hand.
Calm == InHand # {} /\ InHand \cap disturbed = {}

\* What a calm turn knows of Grafana is so.
CalmTurn ==
    Calm =>
      /\ reliable
      /\ pass.pc = "verify" => pass.teamID \in IdsNamed(Wanted)
      /\ pass.pc = "create" => IdsNamed(Wanted) = {}
      /\ pass.folder # NoFolder => pass.folder \in titles

\* One group or one folder is in hand, never both.
LEMMA HandTypes ==
    ASSUME TypeInv
    PROVE  /\ pass \in Pass /\ Control
           /\ pass.group # NoGroup => /\ pass.group \in Groups /\ pass.folder = NoFolder
                                      /\ InHand = {pass.group}
           /\ pass.folder # NoFolder => /\ pass.folder \in Folders /\ pass.group = NoGroup
                                        /\ InHand = {pass.folder}
           /\ InHand = {} <=> pass.group = NoGroup /\ pass.folder = NoFolder
<1>1. pass \in Pass /\ Control
  BY DEF TypeInv, TypeOK
<1>2. /\ pass.group \in Groups \cup {NoGroup}
      /\ pass.folder \in Folders \cup {NoFolder}
  BY <1>1, Mapped, Listed DEF Pass
<1>3. pass.group = NoGroup \/ pass.folder = NoFolder
  BY <1>1 DEF Control, Resolving, Pass
<1> QED
  BY <1>1, <1>2, <1>3, TeamSyncAssumption DEF InHand

\* The step of a pass after which there is something in hand: it is still the same,
\* or has just been taken up.
LEMMA HandKept ==
    ASSUME TypeInv, [Next]_vars, InHand' # {}
    PROVE  /\ ~Begin /\ ~Exits
           /\ \/ /\ pass'.group = pass.group /\ pass'.folder = pass.folder
                 /\ pass'.entries = pass.entries
              \/ \E g \in Groups : NextGroup(g)
              \/ \E f \in Folders : NextFolder(f) /\ f \in titles /\ pass'.folder = f
<1>1. /\ pass \in Pass /\ Control
      /\ pass.group = NoGroup \/ pass.folder = NoFolder
      /\ pass'.group # NoGroup \/ pass'.folder # NoFolder
  BY HandTypes, TypeStep DEF InHand
<1> DEFINE Same == /\ pass'.group = pass.group /\ pass'.folder = pass.folder
                   /\ pass'.entries = pass.entries
<1> USE DEF Keeps, Fields
<1>2. ASSUME Begin \/ Search \/ SearchFails \/ GroupDone \/ GroupsDone \/ PassDone
                   \/ UpdateFolderPermissions \/ Exits
      PROVE  FALSE
  <2>1. CASE Exits
    BY <1>1, <2>1 DEF Exits, NoPass
  <2>2. CASE Begin
    <3>1. pass.pc \in {"idle", "done"}
      BY <2>2, Zenon DEF Begin
    <3> QED
      BY <1>1, <2>2, <3>1, BeginEffect DEF Control
  <2>3. ASSUME pass.pc \in {"ldap", "group", "folder"}, Keeps({"pc", "entries", "groups", "folders"})
        PROVE  FALSE
    BY <1>1, <2>3 DEF Control
  <2>4. CASE Search \/ SearchFails \/ GroupsDone \/ PassDone
    <3>1. pass.pc \in {"ldap", "group", "folder"}
      BY <2>4, Zenon DEF Search, SearchFails, GroupsDone, PassDone, At
    <3>2. Keeps({"pc", "entries", "groups", "folders"})
      BY <1>1, <2>4, SearchEffect, SearchFailsEffect, GroupsDoneEffect, PassDoneEffect
    <3> QED
      BY <2>3, <3>1, <3>2, Zenon
  <2>5. CASE GroupDone
    <3>1. pass.pc = "apply"
      BY <2>5, Zenon DEF GroupDone, At
    <3> QED
      BY <1>1, <2>5, <3>1, GroupDoneEffect DEF Control
  <2>6. CASE UpdateFolderPermissions
    <3>1. pass.pc = "perms"
      BY <2>6, Zenon DEF UpdateFolderPermissions, At
    <3> QED
      BY <1>1, <2>6, <3>1, UpdateFolderPermissionsEffect DEF Control
  <2> QED
    BY <1>2, <2>1, <2>2, <2>4, <2>5, <2>6
<1>3. ASSUME GiveUp
      PROVE  FALSE
  BY <1>1, <1>3, GiveUpEffect
<1>4. CASE LookupsDone \/ NextPerm \/ GetTeamMembers \/ \E u \in Users : LookupUser(u)
  <2>1. Same
    BY <1>1, <1>4, LookupsDoneEffect, NextPermEffect, GetTeamMembersEffect,
       LookupUserEffect
  <2> QED
    BY <1>2, <2>1
<1>5. ASSUME NEW id, Resolved(id)
      PROVE  Same
  BY <1>1, <1>5, ResolvedEffect
<1>6. CASE GetTeamByName \/ GetTeam \/ CreateTeam
  <2>1. Same \/ GiveUp \/ \E id : Resolved(id)
    <3>1. CASE CreateTeam
      BY <3>1, Zenon DEF CreateTeam
    <3> QED
      BY <1>1, <1>6, <3>1, GetTeamByNameEffect, GetTeamEffect
  <2> QED
    BY <1>2, <1>3, <1>5, <2>1
<1>7. CASE \E id \in UserIds :
             AddTeamMember(id) \/ AddTeamMemberFails(id) \/ RemoveTeamMember(id)
  <2>1. PICK id \in UserIds : AddedOrGivenUp(id) \/ TriesAgain(id) \/ RemoveTeamMember(id)
    BY <1>7, Zenon DEF AddTeamMember, AddTeamMemberFails
  <2>2. Same
    BY <1>1, <2>1, AddedOrGivenUpEffect, TriesAgainEffect, RemoveTeamMemberEffect
  <2> QED
    BY <1>2, <2>2
<1>8. ASSUME NEW f \in Folders, NextFolder(f)
      PROVE  pass'.folder = f /\ f \in titles
  <2>1. pass.pc = "folder"
    BY <1>8, Zenon DEF NextFolder, At
  <2>2. pass.group = NoGroup /\ pass.folder = NoFolder
    BY <1>1, <2>1 DEF Control
  <2> QED
    BY <1>1, <1>8, <2>2, NextFolderEffect
<1>9. CASE \/ (\E g \in Groups : NextGroup(g)) \/ (\E f \in Folders : NextFolder(f))
  BY <1>2, <1>8, <1>9
<1>10. CASE \/ AdChanges \/ (\E u \in Users : FirstVisit(u))
            \/ (\E f \in Folders : FolderAppears(f))
            \/ ReliabilityChanges \/ Wipe \/ UNCHANGED vars
  <2>1. UNCHANGED pass
    BY <1>10, Zenon DEF AdChanges, FirstVisit, FolderAppears, ReliabilityChanges, Wipe, vars
  <2> QED
    BY <1>2, <2>1
<1> QED
  BY <1>2, <1>4, <1>6, <1>7, <1>9, <1>10, Zenon DEF Next, PassStep

\* A turn that is calm after a step was so before, or has just begun.
LEMMA CalmBefore ==
    ASSUME TypeInv, [Next]_vars, Calm'
    PROVE  /\ ~Begin /\ ~Exits /\ ~Wipe
           /\ UNCHANGED <<reliable, wiped, atStart>>
           /\ \/ /\ Calm
                 /\ pass'.group = pass.group /\ pass'.folder = pass.folder
                 /\ pass'.entries = pass.entries
              \/ reliable /\ \E g \in Groups : NextGroup(g)
              \/ reliable /\ \E f \in Folders : NextFolder(f) /\ f \in titles
                                                /\ pass'.folder = f
<1>1. InHand' # {} /\ InHand' \cap disturbed' = {}
  BY DEF Calm
<1>2. /\ ~Begin /\ ~Exits
      /\ \/ /\ pass'.group = pass.group /\ pass'.folder = pass.folder
            /\ pass'.entries = pass.entries
         \/ \E g \in Groups : NextGroup(g)
         \/ \E f \in Folders : NextFolder(f) /\ f \in titles /\ pass'.folder = f
  BY <1>1, HandKept
<1>3. CASE \E g \in Groups : NextGroup(g)
  <2>1. PICK g \in Groups : NextGroup(g)
    BY <1>3
  <2>2. /\ disturbed' = disturbed \cup IfUnreliable({g})
        /\ UNCHANGED <<reliable, wiped, atStart>>
    BY <2>1, Zenon DEF NextGroup, env
  <2>3. pass'.group = g
    BY <2>1, NextGroupEffect, HandTypes
  <2>4. g \in InHand'
    BY <2>3, TeamSyncAssumption DEF InHand
  <2>5. reliable
    BY <1>1, <2>2, <2>4 DEF IfUnreliable
  <2>6. ~Wipe
    BY <1>1, <2>2, <2>5 DEF Wipe
  <2> QED
    BY <1>2, <1>3, <2>2, <2>5, <2>6
<1>4. CASE \E f \in Folders : NextFolder(f) /\ f \in titles /\ pass'.folder = f
  <2>1. PICK f \in Folders : NextFolder(f) /\ f \in titles /\ pass'.folder = f
    BY <1>4
  <2>2. /\ disturbed' = disturbed \cup IfUnreliable({f})
        /\ UNCHANGED <<reliable, wiped, atStart>>
    BY <2>1, Zenon DEF NextFolder, env
  <2>4. f \in InHand'
    BY <2>1, TeamSyncAssumption DEF InHand
  <2>5. reliable
    BY <1>1, <2>2, <2>4 DEF IfUnreliable
  <2>6. ~Wipe
    BY <1>1, <2>2, <2>5 DEF Wipe
  <2> QED
    BY <1>2, <1>4, <2>2, <2>5, <2>6
<1>5. ASSUME pass'.group = pass.group, pass'.folder = pass.folder,
             ~(\E g \in Groups : NextGroup(g)), ~(\E f \in Folders : NextFolder(f))
      PROVE  Calm /\ ~Wipe /\ UNCHANGED <<reliable, wiped, atStart>>
  <2>1. InHand' = InHand
    BY <1>5 DEF InHand
  <2>2. ~Wipe /\ ~ReliabilityChanges
    BY <1>1, <2>1 DEF Wipe, ReliabilityChanges
  <2>3. UNCHANGED <<reliable, wiped, atStart, disturbed>>
    BY <1>2, <1>5, <2>2, OthersKept
  <2> QED
    BY <1>1, <2>1, <2>2, <2>3 DEF Calm
<1>6. CASE \E f \in Folders : NextFolder(f)
  <2>1. PICK f \in Folders : NextFolder(f)
    BY <1>6
  <2>2. /\ disturbed' = disturbed \cup IfUnreliable({f})
        /\ UNCHANGED <<reliable, wiped, atStart>>
    BY <2>1, Zenon DEF NextFolder, env
  <2>3. pass.pc = "folder"
    BY <2>1, Zenon DEF NextFolder, At
  <2>4. InHand = {}
    BY <2>3, HandTypes DEF Control
  <2>5. ~(pass'.group = pass.group /\ pass'.folder = pass.folder)
    BY <1>1, <2>4 DEF InHand
  <2>6. ~(\E g \in Groups : NextGroup(g))
    BY <2>3, Zenon DEF NextGroup, At
  <2> QED
    BY <1>2, <1>4, <2>5, <2>6
<1> QED
  BY <1>2, <1>3, <1>4, <1>5, <1>6

LEMMA CalmTurnStep ==
    ASSUME TypeInv, CalmTurn, [Next]_vars
    PROVE  CalmTurn'
<1>1. CASE ~Calm'
  BY <1>1 DEF CalmTurn
<1> SUFFICES ASSUME Calm'
             PROVE  /\ reliable'
                    /\ pass'.pc = "verify" => (pass.teamID \in IdsNamed(Wanted))'
                    /\ pass'.pc = "create" => (IdsNamed(Wanted) = {})'
                    /\ pass'.folder # NoFolder => pass'.folder \in titles'
  BY <1>1 DEF CalmTurn
<1>2. pass \in Pass /\ Control
  BY HandTypes
<1>3. reliable' /\ reliable
  BY CalmBefore DEF CalmTurn
<1>4. titles \subseteq titles'
  BY CalmBefore, OthersKept DEF FolderAppears
<1>5. pass'.folder # NoFolder => pass'.folder \in titles'
  <2>1. CASE \E g \in Groups : NextGroup(g)
    <3>1. PICK g \in Groups : NextGroup(g)
      BY <2>1
    <3>2. pass'.folder = NoFolder
      <4>1. pass.pc = "group"
        BY <3>1, Zenon DEF NextGroup, At
      <4> QED
        BY <1>2, <3>1, <4>1, NextGroupEffect DEF Control, Keeps, Fields
    <3> QED
      BY <3>2
  <2> QED
    BY <1>4, <2>1, CalmBefore DEF CalmTurn
<1>6. ASSUME pass'.pc \in {"verify", "create"}
      PROVE  /\ Calm
             /\ pass'.group = pass.group /\ pass'.folder = pass.folder
  <2>1. ASSUME NEW g, NextGroup(g)
        PROVE  pass'.pc = "lookup"
    BY <1>2, <2>1, NextGroupEffect
  <2>2. ASSUME NEW f, NextFolder(f)
        PROVE  pass'.pc \in {"perms", "folder"}
    <3>1. pass.pc = "folder"
      BY <2>2, Zenon DEF NextFolder, At
    <3> QED
      BY <1>2, <2>2, <3>1, NextFolderEffect DEF Keeps, Fields
  <2> QED
    BY <1>6, <2>1, <2>2, CalmBefore
<1> DEFINE Right == /\ pass'.pc = "verify" => (pass.teamID \in IdsNamed(Wanted))'
                    /\ pass'.pc = "create" => (IdsNamed(Wanted) = {})'
<1> SUFFICES Right
  BY <1>3, <1>5
<1>7. CASE pass'.pc \notin {"verify", "create"}
  BY <1>7
<1>8. ASSUME Keeps({"pc", "teamID"}), UNCHANGED teams
      PROVE  \A id : id \in IdsNamed(Wanted) <=> id \in (IdsNamed(Wanted))'
  BY <1>8 DEF IdsNamed, Wanted, Keeps, Fields
<1>9. CASE GetTeamByName
  <2>1. UNCHANGED teams
    BY <1>9, Zenon DEF GetTeamByName, grafanaDB
  <2>2. ASSUME pass'.pc = "verify", Keeps({"pc", "teamID"}),
               pass'.teamID \in IdsNamed(Wanted)
        PROVE  Right
    BY <1>8, <2>1, <2>2
  <2>3. ASSUME pass'.pc = "create", Keeps({"pc"}), IdsNamed(Wanted) = {}
        PROVE  Right
    <3>1. Keeps({"pc", "teamID"})
      BY <2>3 DEF Keeps
    <3> QED
      BY <1>8, <2>1, <2>3, <3>1
  <2> QED
    BY <1>2, <1>3, <1>9, <2>2, <2>3, GetTeamByNameEffect
<1>10. CASE \/ AdChanges \/ (\E u \in Users : FirstVisit(u))
            \/ (\E f \in Folders : FolderAppears(f))
            \/ ReliabilityChanges \/ Wipe \/ UNCHANGED vars
  <2>1. UNCHANGED pass
    BY <1>10, Zenon DEF AdChanges, FirstVisit, FolderAppears, ReliabilityChanges, Wipe, vars
  <2>2. UNCHANGED teams
    BY <1>10, CalmBefore, Zenon
       DEF AdChanges, FirstVisit, FolderAppears, ReliabilityChanges, grafanaDB, vars
  <2>3. Keeps({"pc", "teamID"})
    BY <2>1 DEF Keeps
  <2> QED
    BY <1>6, <1>7, <1>8, <2>1, <2>2, <2>3 DEF CalmTurn
<1>11. CASE GetTeam
  <2>1. CASE pass'.pc = "create"
    <3>1. pass.pc = "verify"
      BY <1>11, Zenon DEF GetTeam, GetTeam_Among, At
    <3>2. pass.teamID \in IdsNamed(Wanted)
      BY <1>6, <2>1, <3>1 DEF CalmTurn
    <3>3. Resolved(pass.teamID)
      BY <1>2, <1>3, <1>11, <3>2, GetTeamEffect
    <3> QED
      BY <1>2, <1>7, <3>3, ResolvedEffect
  <2>2. pass'.pc # "verify"
    BY <1>2, <1>11, ResolvedEffect, GetTeamEffect
  <2> QED
    BY <1>7, <2>1, <2>2
<1> USE DEF Keeps, Fields
<1>12. CASE Search \/ SearchFails \/ LookupsDone \/ GroupDone \/ GroupsDone \/ PassDone
            \/ NextPerm \/ UpdateFolderPermissions \/ GetTeamMembers
            \/ \E g \in Groups : NextGroup(g)
  BY <1>2, <1>7, <1>12, SearchEffect, SearchFailsEffect, LookupsDoneEffect,
     GroupDoneEffect, GroupsDoneEffect, PassDoneEffect, NextPermEffect,
     UpdateFolderPermissionsEffect, GetTeamMembersEffect, NextGroupEffect
<1>13. CASE CreateTeam
  <2>1. GiveUp \/ \E id : Resolved(id)
    BY <1>13, Zenon DEF CreateTeam
  <2> QED
    BY <1>2, <1>7, <2>1, GiveUpEffect, ResolvedEffect
<1>14. CASE (\E u \in Users : LookupUser(u)) \/ (\E f \in Folders : NextFolder(f))
  <2>1. pass.pc \in {"lookup", "folder"}
    BY <1>14, Zenon DEF LookupUser, LookupUser_Then, NextFolder, At
  <2> QED
    BY <1>2, <1>7, <1>14, <2>1, LookupUserEffect, NextFolderEffect
<1>15. CASE \E id \in UserIds :
              AddTeamMember(id) \/ AddTeamMemberFails(id) \/ RemoveTeamMember(id)
  <2>1. PICK id \in UserIds : /\ pass.pc = "apply"
                              /\ AddedOrGivenUp(id) \/ TriesAgain(id) \/ RemoveTeamMember(id)
    BY <1>15, Zenon DEF AddTeamMember, AddTeamMemberFails, RemoveTeamMember, Adding, At
  <2> QED
    BY <1>2, <1>7, <2>1, AddedOrGivenUpEffect, TriesAgainEffect, RemoveTeamMemberEffect
<1> QED
  BY <1>9, <1>10, <1>11, <1>12, <1>13, <1>14, <1>15, CalmBefore, Zenon DEF Next, PassStep

-----------------------------------------------------------------------------
(***************************************************************************)
(* A calm turn of a group.                                                 *)
(***************************************************************************)
\* Who had an account, and what folder was there, when the pass began, is there.
StillThere ==
    ~wiped => /\ atStart.users \subseteq Range(accounts)
              /\ atStart.folders \subseteq titles

\* The members of the team whom the directory has in the group are wanted, once
\* they have been looked up.
MembersFound ==
    \A id \in IdsNamed(adToGrafana[pass.group]) : \A i \in teams[id].members :
        accounts[i] \in pass.entries[pass.group] \ pass.logins => i \in pass.desired

\* So are those of the group who have had an account since the pass began.
UsersFound ==
    ~wiped => \A u \in (pass.entries[pass.group] \cap atStart.users) \ pass.logins :
                 \E i \in pass.desired : i \in DOMAIN accounts /\ accounts[i] = u

\* What is left to do makes the members of the team those that are wanted.
ChangesRight ==
    pass.pc = "apply" =>
        /\ pass.toAdd = pass.desired \ teams[pass.teamID].members
        /\ pass.toRemove = teams[pass.teamID].members \ pass.desired

\* Together, for the group in hand.
CalmGroup ==
    Calm /\ pass.group # NoGroup => MembersFound /\ UsersFound /\ ChangesRight

LEMMA StillThereStep ==
    ASSUME TypeInv, StillThere, [Next]_vars
    PROVE  StillThere'
<1>1. CASE wiped'
  BY <1>1 DEF StillThere
<1>2. CASE Begin
  BY <1>2 DEF Begin, StillThere, env
<1>3. CASE Exits
  BY <1>3 DEF Exits, StillThere, NobodyYet
<1>4. CASE ~wiped' /\ ~Begin /\ ~Exits
  <2>1. ~Wipe
    BY <1>4, Zenon DEF Wipe
  <2>2. UNCHANGED <<wiped, atStart>> /\ titles \subseteq titles'
    BY <1>4, <2>1, OthersKept DEF FolderAppears
  <2>3. Range(accounts) \subseteq Range(accounts')
    BY <2>1, DataKept DEF Range
  <2> QED
    BY <1>4, <2>2, <2>3 DEF StillThere
<1> QED
  BY <1>1, <1>2, <1>3, <1>4

\* Members are those there were, and those the pass adds.
LEMMA MembersKept ==
    ASSUME TypeInv, [Next]_vars, NEW id \in DOMAIN teams', NEW i \in teams'[id].members
    PROVE  \/ id \in DOMAIN teams /\ i \in teams[id].members
           \/ /\ pass.pc = "apply" /\ id = pass.teamID /\ id \in DOMAIN teams
              /\ i \in pass.toAdd
<1>1. teams \in Seq(Team)
  BY DEF TypeInv, TypeOK
<1>2. CASE UNCHANGED teams
  BY <1>2
<1>3. CASE Wipe
  BY <1>3 DEF Wipe
<1>4. CASE TeamMade
  <2>1. Wanted \in TeamNames /\ teams' = WithNewTeam
    BY <1>4, WantedTypes, Zenon DEF TeamMade, At, Resolving, TypeInv
  <2>2. /\ \A t \in DOMAIN teams : teams'[t] = teams[t]
        /\ DOMAIN teams' = DOMAIN teams \cup {Len(teams) + 1}
        /\ teams'[Len(teams) + 1] = [name |-> Wanted, members |-> {}]
    BY <1>1, <2>1, TeamAdded DEF WithNewTeam
  <2> QED
    BY <2>2
<1>5. ASSUME NEW u \in UserIds, MemberJoins(u) \/ MemberLeaves(u)
      PROVE  \/ id \in DOMAIN teams /\ i \in teams[id].members
             \/ /\ pass.pc = "apply" /\ id = pass.teamID /\ id \in DOMAIN teams
                /\ i \in pass.toAdd
  <2>1. /\ pass.pc = "apply"
        /\ MemberJoins(u) => u \in pass.toAdd
    BY <1>5, Zenon DEF MemberJoins, MemberLeaves, At
  <2> QED
    BY <1>5, <2>1, MembershipChange
<1> QED
  BY <1>2, <1>3, <1>4, <1>5, TeamsChange, Zenon

\* What has been looked up changes with a lookup, or with the group.
LEMMA LookupsKept ==
    ASSUME TypeInv, [Next]_vars, pass.group # NoGroup, pass'.group = pass.group
    PROVE  \/ pass'.logins = pass.logins /\ pass'.desired = pass.desired
           \/ \E u \in Users : LookupUser(u)
<1>1. pass \in Pass /\ Control
  BY HandTypes
<1> DEFINE Same == pass'.logins = pass.logins /\ pass'.desired = pass.desired
<1> USE DEF Keeps, Fields
<1>2. CASE Begin \/ Search \/ SearchFails \/ LookupsDone \/ GroupsDone \/ PassDone
           \/ NextPerm \/ UpdateFolderPermissions \/ GetTeamMembers \/ GroupDone
  BY <1>1, <1>2, BeginEffect, SearchEffect, SearchFailsEffect, LookupsDoneEffect,
     GroupsDoneEffect, PassDoneEffect, NextPermEffect, UpdateFolderPermissionsEffect,
     GetTeamMembersEffect, GroupDoneEffect
<1>3. CASE (\E f \in Folders : NextFolder(f)) \/ GetTeamByName \/ GetTeam \/ CreateTeam
  <2>1. CASE CreateTeam
    <3>1. GiveUp \/ \E id : Resolved(id)
      BY <2>1, Zenon DEF CreateTeam
    <3> QED
      BY <1>1, <3>1, GiveUpEffect, ResolvedEffect
  <2> QED
    BY <1>1, <1>3, <2>1, NextFolderEffect, GetTeamByNameEffect, GetTeamEffect,
       GiveUpEffect, ResolvedEffect
<1>4. CASE \E id \in UserIds :
             AddTeamMember(id) \/ AddTeamMemberFails(id) \/ RemoveTeamMember(id)
  <2>1. PICK id \in UserIds : AddedOrGivenUp(id) \/ TriesAgain(id) \/ RemoveTeamMember(id)
    BY <1>4, Zenon DEF AddTeamMember, AddTeamMemberFails
  <2> QED
    BY <1>1, <2>1, AddedOrGivenUpEffect, TriesAgainEffect, RemoveTeamMemberEffect
<1>5. ASSUME NEW g \in Groups, NextGroup(g)
      PROVE  FALSE
  <2>1. pass.pc = "group"
    BY <1>5, Zenon DEF NextGroup, At
  <2> QED
    BY <1>1, <2>1 DEF Control
<1>6. CASE Exits
  BY <1>6 DEF Exits, NoPass
<1>7. CASE \/ AdChanges \/ (\E u \in Users : FirstVisit(u))
           \/ (\E f \in Folders : FolderAppears(f))
           \/ ReliabilityChanges \/ Wipe \/ UNCHANGED vars
  <2>1. UNCHANGED pass
    BY <1>7, Zenon DEF AdChanges, FirstVisit, FolderAppears, ReliabilityChanges, Wipe, vars
  <2> QED
    BY <2>1
<1> QED
  BY <1>2, <1>3, <1>4, <1>5, <1>6, <1>7, Zenon DEF Next, PassStep

\* Looking up a user who has an account finds it, when calls are answered.
LEMMA LookupFinds ==
    ASSUME TypeInv, reliable, NEW u \in Users, LookupUser(u)
    PROVE  /\ pass'.logins = pass.logins \ {u} /\ pass.desired \subseteq pass'.desired
           /\ pass.pc = "lookup" /\ u \in pass.logins /\ accounts' = accounts
           /\ \A i \in DOMAIN accounts : accounts[i] = u => i \in pass'.desired
<1>1. pass.pc = "lookup" /\ u \in pass.logins /\ accounts' = accounts
  BY Zenon DEF LookupUser, LookupUser_Then, At, env
<1>2. /\ pass'.logins = pass.logins \ {u}
      /\ \/ u \in Range(accounts) /\ pass'.desired = pass.desired \cup {IdOf(u)}
         \/ u \notin Range(accounts) /\ pass'.desired = pass.desired
  BY HandTypes, LookupUserEffect
<1>3. ASSUME NEW i \in DOMAIN accounts, accounts[i] = u
      PROVE  u \in Range(accounts) /\ IdOf(u) = i
  BY <1>3 DEF IdOf, Range, TypeInv, Databases, IsInjective
<1> QED
  BY <1>1, <1>2, <1>3

LEMMA CalmTurnOfGroup ==
    ASSUME TypeInv, GroupKnown, StillThere, CalmTurn, CalmGroup, [Next]_vars,
           Calm', Calm, pass.group # NoGroup, pass'.group = pass.group
    PROVE  /\ reliable /\ ~Wipe /\ wiped' = wiped /\ atStart' = atStart
           /\ pass'.entries = pass.entries
           /\ MembersFound /\ UsersFound /\ ChangesRight
           /\ pass.pc = "apply" => /\ pass.toAdd \subseteq pass.desired
                                   /\ pass.teamID \in DOMAIN teams
                                   /\ pass.desired \subseteq DOMAIN accounts
           /\ \A i \in DOMAIN accounts : i \in DOMAIN accounts' /\ accounts'[i] = accounts[i]
           /\ \A id \in DOMAIN teams :
                teams'[id].name = teams[id].name /\ teams[id].members \subseteq DOMAIN accounts
           /\ \/ pass'.logins = pass.logins /\ pass'.desired = pass.desired
              \/ pass.pc = "lookup" /\ \E u \in Users : LookupUser(u)
<1>1. Known
  BY HandTypes DEF Known, Calm
<1>2. ~Wipe /\ UNCHANGED <<reliable, wiped, atStart>> /\ pass'.entries = pass.entries
  <2>1. ASSUME NEW g, NextGroup(g)
        PROVE  pass.pc = "group"
    BY <2>1, Zenon DEF NextGroup, At
  <2>2. ASSUME NEW f, NextFolder(f)
        PROVE  pass.pc = "folder"
    BY <2>2, Zenon DEF NextFolder, At
  <2> QED
    BY <2>1, <2>2, HandTypes, CalmBefore DEF Control
<1>3. reliable /\ MembersFound /\ UsersFound /\ ChangesRight
  BY DEF CalmTurn, CalmGroup
<1>4. \A u \in Users : LookupUser(u) => pass.pc = "lookup"
  BY <1>3, LookupFinds
<1> QED
  BY <1>1, <1>2, <1>3, <1>4, LookupsKept, DataKept
     DEF GroupKnown, TypeInv, Databases

LEMMA MembersFoundStep ==
    ASSUME TypeInv, GroupKnown, StillThere, CalmTurn, CalmGroup, [Next]_vars,
           Calm', Calm, pass.group # NoGroup, pass'.group = pass.group
    PROVE  MembersFound'
<1> SUFFICES ASSUME NEW id \in DOMAIN teams', teams'[id].name = adToGrafana[pass.group],
                    NEW i \in teams'[id].members,
                    accounts'[i] \in pass.entries[pass.group], accounts'[i] \notin pass'.logins
             PROVE  i \in pass'.desired
  BY CalmTurnOfGroup DEF MembersFound, IdsNamed
<1>1. CASE pass.pc = "apply" /\ id \in DOMAIN teams /\ i \in pass.toAdd
  BY <1>1, CalmTurnOfGroup
<1>2. CASE id \in DOMAIN teams /\ i \in teams[id].members
  <2>1. /\ i \in DOMAIN accounts /\ accounts'[i] = accounts[i]
        /\ accounts[i] \notin pass.logins => i \in pass.desired
    BY <1>2, CalmTurnOfGroup DEF MembersFound, IdsNamed
  <2>2. ASSUME NEW u \in Users, LookupUser(u)
        PROVE  i \in pass'.desired
    BY <2>1, <2>2, LookupFinds, CalmTurnOfGroup
  <2> QED
    BY <2>1, <2>2, CalmTurnOfGroup
<1> QED
  BY <1>1, <1>2, MembersKept

LEMMA UsersFoundStep ==
    ASSUME TypeInv, GroupKnown, StillThere, CalmTurn, CalmGroup, [Next]_vars,
           Calm', Calm, pass.group # NoGroup, pass'.group = pass.group
    PROVE  UsersFound'
<1> SUFFICES ASSUME ~wiped, NEW u \in pass.entries[pass.group], u \in atStart.users,
                    u \notin pass'.logins
             PROVE  \E i \in pass'.desired : i \in DOMAIN accounts' /\ accounts'[i] = u
  BY CalmTurnOfGroup DEF UsersFound
<1>1. CASE u \notin pass.logins
  <2>1. PICK i \in pass.desired : i \in DOMAIN accounts /\ accounts[i] = u
    BY <1>1, CalmTurnOfGroup DEF UsersFound
  <2>2. i \in pass'.desired
    BY <2>1, LookupFinds, CalmTurnOfGroup
  <2> QED
    BY <2>1, <2>2, CalmTurnOfGroup
<1>2. CASE u \in pass.logins
  <2>1. PICK i \in DOMAIN accounts : accounts[i] = u
    BY DEF StillThere, Range
  <2>2. PICK v \in Users : LookupUser(v)
    BY <1>2, CalmTurnOfGroup
  <2>3. i \in pass'.desired
    BY <1>2, <2>1, <2>2, LookupFinds, CalmTurnOfGroup
  <2> QED
    BY <2>1, <2>3, CalmTurnOfGroup
<1> QED
  BY <1>1, <1>2

\* How a step gets to the point where the members are changed, or stays there.
LEMMA Applying ==
    ASSUME TypeInv, [Next]_vars, ~Wipe, pass'.pc = "apply"
    PROVE  \/ GetTeamMembers
           \/ UNCHANGED <<pass, teams>>
           \/ pass.pc = "apply" /\ \E id \in UserIds :
                AddTeamMember(id) \/ AddTeamMemberFails(id) \/ RemoveTeamMember(id)
<1>1. pass \in Pass
  BY HandTypes
<1> USE DEF Keeps, Fields
<1>2. ~(Begin \/ Search \/ SearchFails \/ LookupsDone \/ GroupsDone \/ PassDone
         \/ NextPerm \/ UpdateFolderPermissions \/ GroupDone
         \/ \E g \in Groups : NextGroup(g))
  BY <1>1, BeginEffect, SearchEffect, SearchFailsEffect, LookupsDoneEffect,
     GroupsDoneEffect, PassDoneEffect, NextPermEffect, UpdateFolderPermissionsEffect,
     GroupDoneEffect, NextGroupEffect
<1>3. ~(GetTeamByName \/ GetTeam \/ CreateTeam)
  <2>1. CreateTeam => GiveUp \/ \E id : Resolved(id)
    BY Zenon DEF CreateTeam
  <2> QED
    BY <1>1, <2>1, GetTeamByNameEffect, GetTeamEffect, GiveUpEffect, ResolvedEffect
<1>4. ~((\E u \in Users : LookupUser(u)) \/ (\E f \in Folders : NextFolder(f)))
  <2>1. ASSUME (\E u \in Users : LookupUser(u)) \/ (\E f \in Folders : NextFolder(f))
        PROVE  FALSE
    <3>1. pass.pc \in {"lookup", "folder"}
      BY <2>1, Zenon DEF LookupUser, LookupUser_Then, NextFolder, At
    <3> QED
      BY <1>1, <2>1, <3>1, LookupUserEffect, NextFolderEffect
  <2> QED
    BY <2>1
<1>5. ~Exits
  <2>1. NoPass.pc = "idle"
    BY DEF NoPass
  <2> QED
    BY <2>1 DEF Exits
<1>6. ASSUME NEW id \in UserIds,
             AddTeamMember(id) \/ AddTeamMemberFails(id) \/ RemoveTeamMember(id)
      PROVE  pass.pc = "apply"
  BY <1>6, Zenon DEF AddTeamMember, AddTeamMemberFails, RemoveTeamMember, Adding, At
<1>7. ASSUME \/ AdChanges \/ (\E u \in Users : FirstVisit(u))
             \/ (\E f \in Folders : FolderAppears(f))
             \/ ReliabilityChanges \/ UNCHANGED vars
      PROVE  UNCHANGED <<pass, teams>>
  BY <1>7, Zenon DEF AdChanges, FirstVisit, FolderAppears, ReliabilityChanges, vars, grafanaDB
<1> QED
  BY <1>2, <1>3, <1>4, <1>5, <1>6, <1>7, Zenon DEF Next, PassStep

\* Each call takes one user from what is left to do; what has been done counts.
LEMMA ChangesRightStep ==
    ASSUME TypeInv, GroupKnown, StillThere, CalmTurn, CalmGroup, [Next]_vars,
           Calm', Calm, pass.group # NoGroup, pass'.group = pass.group
    PROVE  ChangesRight'
<1> SUFFICES ASSUME pass'.pc = "apply"
             PROVE  /\ pass'.toAdd = pass'.desired \ teams'[pass'.teamID].members
                    /\ pass'.toRemove = teams'[pass'.teamID].members \ pass'.desired
  BY DEF ChangesRight
<1>1. pass \in Pass /\ reliable /\ ~Wipe
  BY HandTypes, CalmTurnOfGroup
<1> USE DEF Keeps, Fields
<1>2. CASE GetTeamMembers
  <2>1. UNCHANGED teams
    BY <1>2, Zenon DEF GetTeamMembers, GetTeamMembers_Then, grafanaDB
  <2> QED
    BY <1>1, <1>2, <2>1, GetTeamMembersEffect
<1>3. CASE UNCHANGED <<pass, teams>>
  BY <1>3, CalmTurnOfGroup DEF ChangesRight
<1>4. ASSUME pass.pc = "apply", NEW id \in UserIds,
             AddTeamMember(id) \/ AddTeamMemberFails(id)
      PROVE  /\ pass'.toAdd = pass'.desired \ teams'[pass'.teamID].members
             /\ pass'.toRemove = teams'[pass'.teamID].members \ pass'.desired
  <2>1. id \in pass.toAdd
    BY <1>4, Zenon DEF AddTeamMember, AddTeamMemberFails, Adding
  <2>2. /\ pass.toAdd = pass.desired \ teams[pass.teamID].members
        /\ pass.toRemove = teams[pass.teamID].members \ pass.desired
    BY <1>4, CalmTurnOfGroup DEF ChangesRight
  <2>3. CanJoin(id)
    BY <1>4, <2>1, <2>2, CalmTurnOfGroup DEF CanJoin
  <2>4. ~AddTeamMemberFails(id)
    BY <1>1, <2>3, Zenon DEF AddTeamMemberFails, AttemptFails
  <2>5. teams' = WithMember(id) /\ AddedOrGivenUp(id)
    BY <1>4, <2>4, Zenon DEF AddTeamMember
  <2>6. teams'[pass.teamID].members = teams[pass.teamID].members \cup {id}
    <3>1. UNCHANGED <<accounts, wiped, disturbed>>
      BY <1>4, <2>4, Zenon DEF AddTeamMember, env, history
    <3>2. MemberJoins(id)
      BY <1>4, <2>1, <2>3, <2>5, <3>1 DEF MemberJoins, SetsMembers, WithMember, CanJoin, At
    <3> QED
      BY <3>2, MembershipChange
  <2>7. /\ pass'.toAdd = pass.toAdd \ {id} /\ pass'.toRemove = pass.toRemove
        /\ pass'.desired = pass.desired /\ pass'.teamID = pass.teamID
    BY <1>1, <2>5, AddedOrGivenUpEffect
  <2> QED
    BY <2>1, <2>2, <2>6, <2>7
<1>5. ASSUME pass.pc = "apply", NEW id \in UserIds, RemoveTeamMember(id)
      PROVE  /\ pass'.toAdd = pass'.desired \ teams'[pass'.teamID].members
             /\ pass'.toRemove = teams'[pass'.teamID].members \ pass'.desired
  <2>1. pass.teamID \in DOMAIN teams
    BY <1>5, CalmTurnOfGroup
  <2>2. /\ id \in pass.toRemove
        /\ teams' = [teams EXCEPT ![pass.teamID].members = @ \ {id}]
        /\ UNCHANGED <<accounts, wiped, disturbed>>
    BY <1>1, <1>5, <2>1, Zenon DEF RemoveTeamMember, env, history
  <2>3. teams'[pass.teamID].members = teams[pass.teamID].members \ {id}
    <3>1. MemberLeaves(id)
      BY <1>5, <2>1, <2>2 DEF MemberLeaves, SetsMembers, At
    <3> QED
      BY <3>1, MembershipChange
  <2>4. /\ pass.toAdd = pass.desired \ teams[pass.teamID].members
        /\ pass.toRemove = teams[pass.teamID].members \ pass.desired
    BY <1>5, CalmTurnOfGroup DEF ChangesRight
  <2>5. /\ pass'.toRemove = pass.toRemove \ {id} /\ pass'.toAdd = pass.toAdd
        /\ pass'.desired = pass.desired /\ pass'.teamID = pass.teamID
    BY <1>1, <1>5, RemoveTeamMemberEffect
  <2> QED
    BY <2>2, <2>3, <2>4, <2>5
<1> QED
  BY <1>1, <1>2, <1>3, <1>4, <1>5, Applying

LEMMA CalmGroupStep ==
    ASSUME TypeInv, GroupKnown, StillThere, CalmTurn, CalmGroup, [Next]_vars
    PROVE  CalmGroup'
<1> SUFFICES ASSUME Calm', pass'.group # NoGroup
             PROVE  MembersFound' /\ UsersFound' /\ ChangesRight'
  BY DEF CalmGroup
<1>1. CASE Calm /\ pass'.group = pass.group
  BY <1>1, MembersFoundStep, UsersFoundStep, ChangesRightStep
<1>2. ASSUME NEW g \in Groups, NextGroup(g)
      PROVE  MembersFound' /\ UsersFound' /\ ChangesRight'
  <2>1. /\ pass'.logins = pass'.entries[pass'.group] /\ pass'.pc = "lookup"
    BY <1>2, HandTypes, NextGroupEffect DEF Keeps, Fields
  <2> QED
    BY <2>1 DEF MembersFound, UsersFound, ChangesRight
<1>3. ASSUME NEW f \in Folders, pass'.folder = f
      PROVE  FALSE
  <2>1. TypeInv'
    BY TypeStep
  <2>2. Control'
    BY <2>1 DEF TypeInv
  <2>3. pass' \in Pass
    BY PassTypes
  <2> QED
    BY <1>3, <2>2, <2>3, TeamSyncAssumption DEF Control, Resolving, Pass
<1> QED
  BY <1>1, <1>2, <1>3, CalmBefore

-----------------------------------------------------------------------------
\* Inductive: what a turn knows, what it has found out and what is left to do.
TurnInv == TypeInv /\ GroupKnown /\ StillThere /\ CalmTurn /\ CalmGroup

LEMMA TurnInit == Init => TurnInv
<1>1. Init => GroupKnown /\ StillThere /\ CalmTurn /\ CalmGroup
  BY DEF Init, NoPass, NobodyYet, GroupKnown, StillThere, CalmTurn, CalmGroup, Calm, InHand
<1> QED
  BY <1>1, TypeInit DEF TurnInv

LEMMA TurnStep ==
    ASSUME TurnInv, [Next]_vars
    PROVE  TurnInv'
BY TypeStep, GroupKnownStep, StillThereStep, CalmTurnStep, CalmGroupStep DEF TurnInv

LEMMA TurnInvariance == Spec => []TurnInv
BY TurnInit, TurnStep, PTL DEF Spec

\* NoMemberDropped, as a property of one step.
NobodyDropped ==
    pass.group # NoGroup /\ pass.group \notin disturbed' =>
        \A id \in DOMAIN teams : Leavers(id) \cap pass.entries[pass.group] = {}

\* RemoveTeamMember is given members whom the directory does not have in the group,
\* because the members the directory has there have been found.
LEMMA NobodyDroppedStep ==
    ASSUME TurnInv, [Next]_vars
    PROVE  NobodyDropped
<1> SUFFICES ASSUME pass.group # NoGroup, pass.group \notin disturbed',
                    NEW t \in DOMAIN teams, t \in DOMAIN teams',
                    NEW i \in teams[t].members, i \notin teams'[t].members
             PROVE  accounts[i] \notin pass.entries[pass.group]
  BY DEF NobodyDropped, Leavers
<1>1. TypeInv /\ teams \in Seq(Team) /\ InHand = {pass.group}
  BY HandTypes DEF TurnInv, TypeInv, TypeOK
<1>2. ~UNCHANGED teams /\ ~Wipe
  BY <1>1 DEF Wipe
<1>3. CASE TeamMade
  <2>1. Wanted \in TeamNames /\ teams' = WithNewTeam
    BY <1>1, <1>3, WantedTypes, Zenon DEF TeamMade, At, Resolving, TypeInv
  <2> QED
    BY <1>1, <2>1, TeamAdded DEF WithNewTeam
<1>4. ASSUME NEW id \in UserIds, MemberJoins(id)
      PROVE  FALSE
  BY <1>1, <1>4, MembershipChange
<1>5. ASSUME NEW id \in UserIds, MemberLeaves(id)
      PROVE  accounts[i] \notin pass.entries[pass.group]
  <2>1. pass.pc = "apply" /\ id \in pass.toRemove
    BY <1>5, Zenon DEF MemberLeaves, At
  <2>2. UNCHANGED disturbed /\ t = pass.teamID /\ i = id
    BY <1>1, <1>5, MembershipChange
  <2>3. Calm /\ Known
    BY <1>1, <2>2 DEF Calm, Known
  <2>4. MembersFound /\ i \notin pass.desired
    BY <2>1, <2>2, <2>3 DEF TurnInv, CalmGroup, ChangesRight
  <2>5. pass.teamID \in IdsNamed(adToGrafana[pass.group]) /\ pass.logins = {}
    BY <1>1, <2>1, <2>3, HandTypes DEF TurnInv, GroupKnown, IdsNamed, Control
  <2> QED
    BY <2>2, <2>4, <2>5 DEF MembersFound
<1> QED
  BY <1>2, <1>3, <1>4, <1>5, TeamsChange, Zenon

\* Nobody whom the directory has in a group leaves its team, even for a moment, in
\* a turn of that group that meets no failure.
THEOREM MembersStayIn == Spec => NoMemberDropped
<1>1. TurnInv /\ [Next]_vars => [NobodyDropped]_vars
  BY NobodyDroppedStep
<1>2. Spec => [][NobodyDropped]_vars
  BY <1>1, TurnInvariance, PTL DEF Spec
<1> QED
  BY <1>2, Zenon DEF NoMemberDropped, NobodyDropped

-----------------------------------------------------------------------------
(***************************************************************************)
(* What calm turns leave behind.                                           *)
(***************************************************************************)
\* The team of the group has its members who had accounts, and nobody else.
GroupSynced(g) ==
    \E id \in IdsNamed(adToGrafana[g]) :
        /\ pass.entries[g] \cap atStart.users \subseteq MemberNames(id)
        /\ MemberNames(id) \subseteq pass.entries[g]

\* The groups whose turn is over.
GroupsSynced ==
    ~wiped /\ pass.pc \notin {"idle", "ldap"} =>
        \A g \in SoleGroups(pass.entries) \ (disturbed \cup pass.groups \cup {pass.group}) :
            GroupSynced(g)

\* The folders whose turn is over.
FoldersSynced ==
    ~wiped /\ (pass.folder # NoFolder \/ pass.pc \in {"folder", "done"}) =>
        \A f \in (ConfiguredFolders \cap atStart.folders)
                 \ (disturbed \cup pass.folders \cup {pass.folder}) : GrantsMatch(f)

\* Once it has the entries a pass goes on with them, and forgets no group.
LEMMA PassGoesOn ==
    ASSUME TypeInv, [Next]_vars, pass'.pc \notin {"idle", "ldap"}, ~Search
    PROVE  /\ pass.pc \notin {"idle", "ldap"} /\ ~Begin /\ ~Exits
           /\ pass'.entries = pass.entries
           /\ pass.groups \subseteq pass'.groups \cup {pass'.group}
<1>1. pass \in Pass /\ Control
  BY HandTypes
<1> DEFINE GoesOn == /\ pass.pc \notin {"idle", "ldap"}
                     /\ pass'.entries = pass.entries
                     /\ pass.groups \subseteq pass'.groups \cup {pass'.group}
<1> USE DEF Keeps, Fields
<1>2. ~(Begin \/ SearchFails \/ Exits)
  <2>1. NoPass.pc = "idle"
    BY DEF NoPass
  <2> QED
    BY <1>1, <2>1, BeginEffect, SearchFailsEffect DEF Exits
<1> SUFFICES GoesOn
  BY <1>2
<1>3. CASE \/ LookupsDone \/ GetTeamMembers \/ GroupDone \/ GroupsDone \/ NextPerm
           \/ UpdateFolderPermissions \/ PassDone
           \/ (\E u \in Users : LookupUser(u)) \/ (\E f \in Folders : NextFolder(f))
  <2>1. pass.pc \notin {"idle", "ldap"}
    BY <1>3, Zenon DEF LookupsDone, GetTeamMembers, GetTeamMembers_Then, GroupDone,
       GroupsDone, NextPerm, UpdateFolderPermissions, PassDone, LookupUser,
       LookupUser_Then, NextFolder, At
  <2>2. pass'.entries = pass.entries /\ pass'.groups = pass.groups
    BY <1>1, <1>3, LookupsDoneEffect, GetTeamMembersEffect, GroupDoneEffect,
       GroupsDoneEffect, NextPermEffect, UpdateFolderPermissionsEffect, PassDoneEffect,
       LookupUserEffect, NextFolderEffect
  <2> QED
    BY <2>1, <2>2
<1>4. CASE \E g \in Groups : NextGroup(g)
  <2>1. PICK g \in Groups : NextGroup(g)
    BY <1>4
  <2>2. pass.pc = "group"
    BY <2>1, Zenon DEF NextGroup, At
  <2>3. pass'.group = g /\ pass'.groups = pass.groups \ {g} /\ pass'.entries = pass.entries
    BY <1>1, <2>1, NextGroupEffect
  <2> QED
    BY <2>2, <2>3
<1>5. CASE GetTeamByName \/ GetTeam \/ CreateTeam
  <2>1. pass.pc \notin {"idle", "ldap"}
    BY <1>5, Zenon DEF GetTeamByName, GetTeam, GetTeam_Among, CreateTeam, At
  <2>2. CreateTeam => GiveUp \/ \E id : Resolved(id)
    BY Zenon DEF CreateTeam
  <2>3. pass'.entries = pass.entries /\ pass'.groups = pass.groups
    BY <1>1, <1>5, <2>2, GetTeamByNameEffect, GetTeamEffect, GiveUpEffect, ResolvedEffect
  <2> QED
    BY <2>1, <2>3
<1>6. CASE \E id \in UserIds :
             AddTeamMember(id) \/ AddTeamMemberFails(id) \/ RemoveTeamMember(id)
  <2>1. PICK id \in UserIds : /\ pass.pc = "apply"
                              /\ AddedOrGivenUp(id) \/ TriesAgain(id) \/ RemoveTeamMember(id)
    BY <1>6, Zenon DEF AddTeamMember, AddTeamMemberFails, RemoveTeamMember, Adding, At
  <2> QED
    BY <1>1, <2>1, AddedOrGivenUpEffect, TriesAgainEffect, RemoveTeamMemberEffect
<1>7. CASE \/ AdChanges \/ (\E u \in Users : FirstVisit(u))
           \/ (\E f \in Folders : FolderAppears(f))
           \/ ReliabilityChanges \/ Wipe \/ UNCHANGED vars
  <2>1. UNCHANGED pass
    BY <1>7, Zenon DEF AdChanges, FirstVisit, FolderAppears, ReliabilityChanges, Wipe, vars
  <2> QED
    BY <2>1
<1> QED
  BY <1>2, <1>3, <1>4, <1>5, <1>6, <1>7, Zenon DEF Next, PassStep

\* Once it has come to the folders a pass stays with them, and forgets none.
LEMMA FoldersGoOn ==
    ASSUME TypeInv, [Next]_vars, ~GroupsDone,
           pass'.folder # NoFolder \/ pass'.pc \in {"folder", "done"}
    PROVE  /\ pass.folder # NoFolder \/ pass.pc \in {"folder", "done"}
           /\ ~Begin /\ ~Exits
           /\ pass'.folders = pass.folders \/ \E f \in Folders : NextFolder(f)
<1>1. pass \in Pass /\ Control
  BY HandTypes
<1> DEFINE GoOn == /\ pass.folder # NoFolder \/ pass.pc \in {"folder", "done"}
                   /\ pass'.folders = pass.folders \/ \E f \in Folders : NextFolder(f)
<1> USE DEF Keeps, Fields
<1>2. ~Exits /\ ~Begin
  <2>1. NoPass.pc = "idle" /\ NoPass.folder = NoFolder
    BY DEF NoPass
  <2>2. Begin => pass.pc \in {"idle", "done"}
    BY Zenon DEF Begin
  <2> QED
    BY <1>1, <2>1, <2>2, BeginEffect DEF Exits, Control
<1> SUFFICES GoOn
  BY <1>2
<1>3. CASE \/ Search \/ SearchFails \/ LookupsDone \/ GetTeamMembers \/ GroupDone
           \/ (\E g \in Groups : NextGroup(g)) \/ (\E u \in Users : LookupUser(u))
  <2>1. pass.pc \in {"ldap", "lookup", "members", "apply", "group"}
    BY <1>3, Zenon DEF Search, SearchFails, LookupsDone, GetTeamMembers,
       GetTeamMembers_Then, GroupDone, NextGroup, LookupUser, LookupUser_Then, At
  <2>2. pass'.folder = pass.folder /\ pass'.pc \notin {"folder", "done"}
    BY <1>1, <1>3, <2>1, SearchEffect, SearchFailsEffect, LookupsDoneEffect,
       GetTeamMembersEffect, GroupDoneEffect, NextGroupEffect, LookupUserEffect
  <2> QED
    BY <1>1, <2>1, <2>2 DEF Control
<1>4. CASE \/ NextPerm \/ UpdateFolderPermissions \/ PassDone
           \/ (\E f \in Folders : NextFolder(f))
  <2>1. pass.pc \in {"perms", "folder"}
    BY <1>4, Zenon DEF NextPerm, UpdateFolderPermissions, PassDone, NextFolder, At
  <2>2. pass'.folders = pass.folders \/ \E f \in Folders : NextFolder(f)
    BY <1>1, <1>4, NextPermEffect, UpdateFolderPermissionsEffect, PassDoneEffect
  <2> QED
    BY <1>1, <2>1, <2>2 DEF Control
<1>5. CASE GetTeamByName \/ GetTeam \/ CreateTeam
  <2>1. CreateTeam => GiveUp \/ \E id : Resolved(id)
    BY Zenon DEF CreateTeam
  <2>2. GiveUp \/ (\E id : Resolved(id)) \/ Keeps({"pc", "teamID"})
    BY <1>1, <1>5, <2>1, GetTeamByNameEffect, GetTeamEffect
  <2>3. /\ pass'.folders = pass.folders
        /\ pass.folder = NoFolder => pass'.folder = NoFolder
    BY <1>1, <2>2, GiveUpEffect, ResolvedEffect
  <2>4. pass.folder = NoFolder => pass'.pc \notin {"folder", "done"}
    BY <1>1, <1>5, <2>1, GetTeamByNameEffect, GetTeamEffect, GiveUpEffect, ResolvedEffect
  <2> QED
    BY <2>3, <2>4
<1>6. CASE \E id \in UserIds :
             AddTeamMember(id) \/ AddTeamMemberFails(id) \/ RemoveTeamMember(id)
  <2>1. PICK id \in UserIds : AddedOrGivenUp(id) \/ TriesAgain(id) \/ RemoveTeamMember(id)
    BY <1>6, Zenon DEF AddTeamMember, AddTeamMemberFails
  <2> QED
    BY <1>1, <2>1, AddedOrGivenUpEffect, TriesAgainEffect, RemoveTeamMemberEffect
<1>7. CASE \/ AdChanges \/ (\E u \in Users : FirstVisit(u))
           \/ (\E f \in Folders : FolderAppears(f))
           \/ ReliabilityChanges \/ Wipe \/ UNCHANGED vars
  <2>1. UNCHANGED pass
    BY <1>7, Zenon DEF AdChanges, FirstVisit, FolderAppears, ReliabilityChanges, Wipe, vars
  <2> QED
    BY <2>1
<1> QED
  BY <1>2, <1>3, <1>4, <1>5, <1>6, <1>7, Zenon DEF Next, PassStep

\* A calm turn that ends has come to its end.
LEMMA CalmTurnEnds ==
    ASSUME TurnInv, [Next]_vars, Calm, ~Exits,
           pass'.group # pass.group \/ pass'.folder # pass.folder
    PROVE  GroupDone \/ UpdateFolderPermissions
<1>1. pass \in Pass /\ Control /\ TypeInv /\ reliable
  BY HandTypes DEF TurnInv, CalmTurn
<1>2. pass.group # NoGroup \/ pass.folder # NoFolder
  BY DEF Calm, InHand
<1>3. ~UNCHANGED pass
  BY <1>1
<1> USE DEF Keeps, Fields
<1>4. pass.pc \notin {"idle", "ldap", "group", "folder", "done"}
  BY <1>1, <1>2 DEF Control
<1>5. ~(Begin \/ Search \/ SearchFails \/ GroupsDone \/ PassDone
        \/ (\E g \in Groups : NextGroup(g)) \/ (\E f \in Folders : NextFolder(f)))
  BY <1>4, Zenon DEF Begin, Search, SearchFails, GroupsDone, PassDone, NextGroup,
     NextFolder, At
<1>6. ~(LookupsDone \/ NextPerm \/ \E u \in Users : LookupUser(u))
  BY <1>1, LookupsDoneEffect, NextPermEffect, LookupUserEffect
<1>7. \A id : ~Resolved(id)
  BY <1>1, ResolvedEffect
<1>8. ~GetTeamByName /\ ~GetTeam
  BY <1>1, <1>7, GetTeamByNameEffect, GetTeamEffect
<1>9. ~CreateTeam
  <2>1. ASSUME CreateTeam
        PROVE  FALSE
    <3>1. pass.pc = "create"
      BY <2>1, Zenon DEF CreateTeam, At
    <3>2. IdsNamed(Wanted) = {}
      BY <3>1 DEF TurnInv, CalmTurn
    <3> QED
      BY <1>1, <1>7, <2>1, <3>2, Zenon DEF CreateTeam
  <2> QED
    BY <2>1
<1>10. ~GetTeamMembers
  <2>1. ASSUME GetTeamMembers
        PROVE  FALSE
    <3>1. pass.pc = "members"
      BY <2>1, Zenon DEF GetTeamMembers, GetTeamMembers_Then, At
    <3>2. pass.group # NoGroup /\ Known
      BY <1>1, <3>1, HandTypes DEF Control, Known, Calm
    <3>3. pass.teamID \in DOMAIN teams
      BY <3>1, <3>2 DEF TurnInv, GroupKnown
    <3> QED
      BY <1>1, <2>1, <3>3, GetTeamMembersEffect
  <2> QED
    BY <2>1
<1>11. ~(\E id \in UserIds :
           AddTeamMember(id) \/ AddTeamMemberFails(id) \/ RemoveTeamMember(id))
  <2>1. ASSUME NEW id \in UserIds,
               AddedOrGivenUp(id) \/ TriesAgain(id) \/ RemoveTeamMember(id)
        PROVE  FALSE
    BY <1>1, <2>1, AddedOrGivenUpEffect, TriesAgainEffect, RemoveTeamMemberEffect
  <2> QED
    BY <2>1, Zenon DEF AddTeamMember, AddTeamMemberFails
<1>12. ASSUME \/ AdChanges \/ (\E u \in Users : FirstVisit(u))
              \/ (\E f \in Folders : FolderAppears(f))
              \/ ReliabilityChanges \/ Wipe \/ UNCHANGED vars
       PROVE  UNCHANGED pass
  BY <1>12, Zenon DEF AdChanges, FirstVisit, FolderAppears, ReliabilityChanges, Wipe, vars
<1> QED
  BY <1>3, <1>5, <1>6, <1>8, <1>9, <1>10, <1>11, <1>12, Zenon DEF Next, PassStep

\* Whose team has its members keeps them in the turns of other groups.
LEMMA GroupStaysSynced ==
    ASSUME TurnInv, [Next]_vars, ~Wipe, ~wiped,
           pass'.entries = pass.entries, atStart' = atStart,
           NEW g \in SoleGroups(pass.entries), g # pass.group, GroupSynced(g)
    PROVE  GroupSynced(g)'
<1>1. TypeInv /\ teams \in Seq(Team)
  BY DEF TurnInv, TypeInv, TypeOK
<1>2. PICK id \in IdsNamed(adToGrafana[g]) :
        /\ pass.entries[g] \cap atStart.users \subseteq MemberNames(id)
        /\ MemberNames(id) \subseteq pass.entries[g]
  BY DEF GroupSynced
<1>3. id \in DOMAIN teams /\ teams[id].name = adToGrafana[g]
  BY <1>2 DEF IdsNamed
<1>4. pass.pc = "apply" => pass.teamID # id
  <2>1. ASSUME pass.pc = "apply"
        PROVE  pass.teamID # id
    <3>1. /\ pass.group # NoGroup /\ pass.group \in DOMAIN pass.entries
          /\ pass.group \in DOMAIN adToGrafana
      BY <1>1, <2>1, HandTypes DEF Control, Pass
    <3>2. teams[pass.teamID].name = adToGrafana[pass.group]
      BY <2>1, <3>1 DEF TurnInv, GroupKnown, Known
    <3>3. adToGrafana[pass.group] # adToGrafana[g]
      BY <3>1 DEF SoleGroups
    <3> QED
      BY <1>3, <3>2, <3>3
  <2> QED
    BY <2>1
<1>5. id \in DOMAIN teams' /\ teams'[id].members = teams[id].members
  <2>1. CASE UNCHANGED teams
    BY <1>3, <2>1
  <2>2. CASE TeamMade
    <3>1. Wanted \in TeamNames /\ teams' = WithNewTeam
      BY <1>1, <2>2, WantedTypes, Zenon DEF TeamMade, At, Resolving, TypeInv
    <3> QED
      BY <1>1, <1>3, <3>1, TeamAdded DEF WithNewTeam
  <2>3. ASSUME NEW u \in UserIds, MemberJoins(u) \/ MemberLeaves(u)
        PROVE  id \in DOMAIN teams' /\ teams'[id].members = teams[id].members
    <3>1. pass.pc = "apply"
      BY <2>3, Zenon DEF MemberJoins, MemberLeaves, At
    <3> QED
      BY <1>1, <1>3, <1>4, <2>3, <3>1, MembershipChange
  <2> QED
    BY <2>1, <2>2, <2>3, TeamsChange, Zenon
<1>6. /\ teams'[id].name = adToGrafana[g]
      /\ \A i \in teams[id].members : accounts'[i] = accounts[i]
  BY <1>1, <1>3, DataKept DEF TypeInv, Databases
<1>7. MemberNames(id)' = MemberNames(id)
  BY <1>5, <1>6 DEF MemberNames
<1> QED
  BY <1>2, <1>5, <1>6, <1>7 DEF GroupSynced, IdsNamed

\* At the end of its calm turn, the team of a group has its members.
LEMMA GroupGetsSynced ==
    ASSUME TurnInv, Calm, ~wiped, pass.group # NoGroup, GroupDone
    PROVE  /\ GroupSynced(pass.group)
           /\ UNCHANGED <<teams, accounts, atStart>>
<1>1. /\ pass.pc = "apply" /\ pass.toAdd = {} /\ pass.toRemove = {}
      /\ UNCHANGED <<teams, accounts, atStart>>
  BY Zenon DEF GroupDone, At, env, grafanaDB, history
<1> DEFINE id == pass.teamID
<1>2. /\ id \in IdsNamed(adToGrafana[pass.group]) /\ pass.logins = {}
      /\ \A i \in pass.desired :
           i \in DOMAIN accounts /\ accounts[i] \in pass.entries[pass.group]
  BY <1>1, HandTypes DEF TurnInv, GroupKnown, Known, IdsNamed, Control
<1>3. teams[id].members = pass.desired
  BY <1>1 DEF TurnInv, CalmGroup, ChangesRight
<1>4. MemberNames(id) \subseteq pass.entries[pass.group]
  BY <1>2, <1>3 DEF MemberNames
<1>5. pass.entries[pass.group] \cap atStart.users \subseteq MemberNames(id)
  <2>1. UsersFound
    BY DEF TurnInv, CalmGroup
  <2> QED
    BY <1>2, <1>3, <2>1 DEF UsersFound, MemberNames
<1> QED
  BY <1>1, <1>2, <1>4, <1>5 DEF GroupSynced

LEMMA GroupsSyncedStep ==
    ASSUME TurnInv, GroupsSynced, [Next]_vars
    PROVE  GroupsSynced'
<1> SUFFICES ASSUME ~wiped', pass'.pc \notin {"idle", "ldap"},
                    NEW g \in SoleGroups(pass'.entries),
                    g \notin disturbed', g \notin pass'.groups, g # pass'.group
             PROVE  GroupSynced(g)'
  <2>1. SoleGroups(pass.entries)' = SoleGroups(pass'.entries)
    BY DEF SoleGroups, adToGrafana
  <2> QED
    BY <2>1 DEF GroupsSynced
<1>1. TypeInv
  BY DEF TurnInv
<1>2. ~Search
  <2>1. ASSUME Search
        PROVE  FALSE
    BY <1>1, <2>1, HandTypes, SearchEffect DEF SoleGroups
  <2> QED
    BY <2>1
<1>3. /\ pass.pc \notin {"idle", "ldap"} /\ ~Begin /\ ~Exits
      /\ pass'.entries = pass.entries
      /\ pass.groups \subseteq pass'.groups \cup {pass'.group}
  BY <1>1, <1>2, PassGoesOn
<1>4. ~Wipe /\ ~wiped /\ UNCHANGED atStart
  <2>1. ~Wipe
    BY Zenon DEF Wipe
  <2> QED
    BY <1>3, <2>1, OthersKept
<1>5. disturbed \subseteq disturbed'
  BY <1>3, OthersKept DEF ReliabilityChanges, Wipe, NextGroup, NextFolder
<1>6. g \in SoleGroups(pass.entries) /\ g \notin disturbed /\ g \notin pass.groups
  BY <1>3, <1>5
<1>7. CASE g # pass.group
  BY <1>3, <1>4, <1>6, <1>7, GroupStaysSynced DEF GroupsSynced
<1>8. CASE g = pass.group
  <2>1. pass.group # NoGroup
    BY <1>6, <1>8, Mapped, TeamSyncAssumption DEF SoleGroups
  <2>2. Calm
    BY <1>1, <1>6, <1>8, <2>1, HandTypes DEF Calm
  <2>3. GroupDone
    <3>1. ~UpdateFolderPermissions
      <4>1. pass.pc # "perms"
        BY <1>1, <2>1 DEF TypeInv, Control
      <4> QED
        BY <4>1, Zenon DEF UpdateFolderPermissions, At
    <3> QED
      BY <1>3, <1>8, <2>2, <3>1, CalmTurnEnds
  <2> QED
    BY <1>3, <1>4, <1>8, <2>1, <2>2, <2>3, GroupGetsSynced
       DEF GroupSynced, IdsNamed, MemberNames
<1> QED
  BY <1>7, <1>8

\* A list that names the right teams goes on naming them.
LEMMA GrantsStayRight ==
    ASSUME TypeInv, [Next]_vars, ~Wipe, NEW f, granted'[f] = granted[f], GrantsMatch(f)
    PROVE  GrantsMatch(f)'
<1>1. \A name : IdsNamed(name) \subseteq IdsNamed(name)'
  BY DataKept
<1> QED
  BY <1>1 DEF GrantsMatch, IdsNamed

LEMMA FoldersSyncedStep ==
    ASSUME TurnInv, ListResolved, FoldersSynced, [Next]_vars
    PROVE  FoldersSynced'
<1> SUFFICES ASSUME ~wiped', pass'.folder # NoFolder \/ pass'.pc \in {"folder", "done"},
                    NEW f \in ConfiguredFolders, f \in atStart'.folders,
                    f \notin disturbed', f \notin pass'.folders, f # pass'.folder
             PROVE  GrantsMatch(f)'
  BY DEF FoldersSynced
<1>1. TypeInv /\ pass \in Pass /\ Control
  BY HandTypes DEF TurnInv
<1>2. ~GroupsDone
  BY <1>1, GroupsDoneEffect
<1>3. /\ pass.folder # NoFolder \/ pass.pc \in {"folder", "done"}
      /\ ~Begin /\ ~Exits
      /\ pass'.folders = pass.folders \/ \E h \in Folders : NextFolder(h)
  BY <1>1, <1>2, FoldersGoOn
<1>4. ~Wipe /\ ~wiped /\ UNCHANGED atStart
  <2>1. ~Wipe
    BY Zenon DEF Wipe
  <2> QED
    BY <1>3, <2>1, OthersKept
<1>5. disturbed \subseteq disturbed'
  BY <1>3, OthersKept DEF ReliabilityChanges, Wipe, NextGroup, NextFolder
<1>6. f \in titles
  BY <1>4 DEF TurnInv, StillThere
<1>7. f \notin pass.folders
  <2>1. ASSUME NEW h \in Folders, NextFolder(h), f \in pass.folders
        PROVE  FALSE
    <3>1. pass'.folders = pass.folders \ {h} /\ (pass'.folder = h \/ h \notin titles \/ ~reliable)
      BY <1>1, <2>1, NextFolderEffect
    <3>2. f = h
      BY <2>1, <3>1
    <3>3. disturbed' = disturbed \cup IfUnreliable({h})
      BY <2>1, Zenon DEF NextFolder
    <3> QED
      BY <1>6, <3>1, <3>2, <3>3 DEF IfUnreliable
  <2> QED
    BY <1>3, <2>1
<1>8. CASE f # pass.folder
  <2>1. GrantsMatch(f)
    BY <1>3, <1>4, <1>5, <1>7, <1>8 DEF FoldersSynced
  <2>2. granted'[f] = granted[f]
    <3>1. granted \in [Folders -> Seq(Grant)] /\ f \in Folders
      BY <1>1, Listed DEF TypeInv, TypeOK
    <3> QED
      BY <1>4, <1>8, <3>1, OthersKept DEF UpdateFolderPermissions
  <2> QED
    BY <1>1, <1>4, <2>1, <2>2, GrantsStayRight
<1>9. CASE f = pass.folder
  <2>1. pass.folder # NoFolder
    BY <1>1, <1>9, Listed, TeamSyncAssumption
  <2>2. Calm
    BY <1>1, <1>5, <1>9, <2>1, HandTypes DEF Calm
  <2>3. UpdateFolderPermissions
    <3>1. ~GroupDone
      <4>1. pass.pc # "apply"
        BY <1>1, <2>1 DEF Control
      <4> QED
        BY <4>1, Zenon DEF GroupDone, At
    <3> QED
      BY <1>3, <1>9, <2>2, <3>1, CalmTurnEnds
  <2>4. /\ pass.pc = "perms" /\ pass.fps = <<>>
        /\ UNCHANGED <<teams, wiped>>
    BY <2>3, Zenon DEF UpdateFolderPermissions, At, history
  <2>5. reliable
    BY <2>2 DEF TurnInv, CalmTurn
  <2>6. granted' = [granted EXCEPT ![pass.folder] = pass.newPerms]
    BY <1>4, <1>6, <1>9, <2>3, <2>5, Zenon DEF UpdateFolderPermissions
  <2>7. granted'[f] = pass.newPerms
    <3>1. granted \in [Folders -> Seq(Grant)] /\ f \in Folders
      BY <1>1, Listed DEF TypeInv, TypeOK
    <3> QED
      BY <1>9, <2>6, <3>1
  <2>8. /\ Len(pass.newPerms) = Len(folderPerms[f])
        /\ \A k \in DOMAIN pass.newPerms : Rightly(pass.newPerms[k], folderPerms[f][k])
    BY <1>1, <1>9, <2>4, ListComplete
  <2> QED
    BY <1>4, <2>4, <2>7, <2>8 DEF GrantsMatch, Rightly, IdsNamed
<1> QED
  BY <1>8, <1>9

\* Inductive: turns in hand and turns that are over.
SyncedInv == TurnInv /\ ListResolved /\ GroupsSynced /\ FoldersSynced

\* Every group and folder whose turn met no failure is in sync when the pass ends,
\* for every directory, mapping and configuration, and whatever state the pass
\* found Grafana in.
THEOREM CalmTurnsSync == Spec => []UndisturbedAreSynced
<1>1. Init => SyncedInv
  <2>1. Init => ListResolved /\ GroupsSynced /\ FoldersSynced
    BY DEF Init, NoPass, ListResolved, GroupsSynced, FoldersSynced
  <2> QED
    BY <2>1, TurnInit DEF SyncedInv
<1>2. SyncedInv /\ [Next]_vars => SyncedInv'
  BY TurnStep, ListResolvedStep, GroupsSyncedStep, FoldersSyncedStep DEF SyncedInv, TurnInv
<1>3. SyncedInv => UndisturbedAreSynced
  <2> SUFFICES ASSUME SyncedInv, pass.pc = "done", ~wiped
               PROVE  /\ \A g \in SoleGroups(pass.entries) \ disturbed : GroupSynced(g)
                      /\ \A f \in (ConfiguredFolders \cap atStart.folders) \ disturbed :
                           GrantsMatch(f)
    BY DEF UndisturbedAreSynced, At, GroupSynced
  <2>1. /\ pass.group = NoGroup /\ pass.folder = NoFolder
        /\ pass.groups = {} /\ pass.folders = {}
    BY DEF SyncedInv, TurnInv, TypeInv, Control
  <2>2. NoGroup \notin SoleGroups(pass.entries) /\ NoFolder \notin ConfiguredFolders
    BY Mapped, Listed, TeamSyncAssumption DEF SoleGroups
  <2> QED
    BY <2>1, <2>2 DEF SyncedInv, GroupsSynced, FoldersSynced
<1> QED
  BY <1>1, <1>2, <1>3, PTL DEF Spec

=============================================================================
