------------------------ MODULE TeamSyncSafetyProofs ------------------------
(***************************************************************************)
(* Two action properties of TeamSync that hold whatever calls fail: nobody *)
(* joins the team of a group the directory does not have him in, and a     *)
(* folder gets its whole list of permissions or keeps what it has. Both    *)
(* follow from what the pass remembers between the call that finds an id   *)
(* and the call that uses it, and both only until Grafana loses its        *)
(* database, which gives the same ids to others.                           *)
(***************************************************************************)
EXTENDS TeamSyncProofs

-----------------------------------------------------------------------------
(***************************************************************************)
(* What the pass knows of the group in hand.                               *)
(***************************************************************************)
\* The ids the pass has collected in this turn are of today's database.
Known == ~wiped \/ pass.group \notin disturbed

\* Then the users found are users of the group's AD list, and the team resolved has
\* the name the mapping gives the group. That only users found are added holds at
\* any rate.
GroupKnown ==
    pass.group # NoGroup =>
      /\ pass.logins \subseteq pass.entries[pass.group]
      /\ pass.pc = "apply" => pass.toAdd \subseteq pass.desired
      /\ Known =>
           /\ \A i \in pass.desired :
                i \in DOMAIN accounts /\ accounts[i] \in pass.entries[pass.group]
           /\ pass.pc \in {"members", "apply"} =>
                /\ pass.teamID \in DOMAIN teams
                /\ teams[pass.teamID].name = adToGrafana[pass.group]

\* A wipe in the turn of a group makes its ids unknown, for the rest of the turn.
LEMMA KnownBefore ==
    ASSUME TypeInv, [Next]_vars, pass.group # NoGroup, pass'.group = pass.group, Known'
    PROVE  Known /\ ~Wipe
<1>1. pass.group \in Groups /\ pass.group # NoFolder
  <2>1. pass.group \in DOMAIN adToGrafana
    BY DEF TypeInv, TypeOK, Pass
  <2> QED
    BY <2>1, Mapped, TeamSyncAssumption
<1>2. pass.pc \notin {"idle", "done"}
  BY DEF TypeInv, Control
<1>3. ~Begin
  BY <1>2, Zenon DEF Begin
<1>4. ~Exits
  <2>1. ASSUME Exits
        PROVE  FALSE
    <3>1. pass'.group = NoGroup
      BY <2>1 DEF Exits, NoPass
    <3> QED
      BY <3>1
  <2> QED
    BY <2>1
<1>5. pass.group \in InHand
  BY <1>1 DEF InHand
<1>6. disturbed \subseteq disturbed'
  BY <1>3, <1>4, OthersKept DEF ReliabilityChanges, Wipe, NextGroup, NextFolder
<1>7. ~Wipe
  BY <1>5 DEF Wipe, Known
<1>8. UNCHANGED wiped
  BY <1>3, <1>4, <1>7, OthersKept
<1> QED
  BY <1>6, <1>7, <1>8 DEF Known

\* A call to resolveTeam returns the id of a team with the name that was wanted.
Returns(id) ==
    /\ Resolved(id) /\ pass.pc \in Resolving
    /\ id \in DOMAIN teams' /\ teams'[id].name = Wanted

LEMMA GetTeamReturns ==
    ASSUME pass \in Pass, GetTeam
    PROVE  \/ Returns(pass.teamID)
           \/ pass'.pc = "create" /\ Keeps({"pc", "teamID"})
<1>1. pass.pc \in Resolving /\ teams' = teams
  BY Zenon DEF GetTeam, GetTeam_Among, At, Resolving, grafanaDB
<1> QED
  BY <1>1, GetTeamEffect DEF Returns, IdsNamed

LEMMA CreateTeamReturns ==
    ASSUME TypeInv, CreateTeam
    PROVE  \/ TeamMade /\ Returns(Len(teams) + 1)
           \/ GiveUp /\ pass.pc \in Resolving
<1>1. pass.pc \in Resolving
  BY Zenon DEF CreateTeam, At, Resolving
<1>2. ASSUME Resolved(Len(teams) + 1), teams' = WithNewTeam
      PROVE  Returns(Len(teams) + 1)
  <2>1. Wanted \in TeamNames /\ teams \in Seq(Team)
    BY <1>1, WantedTypes DEF TypeInv, TypeOK
  <2>2. /\ DOMAIN teams' = DOMAIN teams \cup {Len(teams) + 1}
        /\ teams'[Len(teams) + 1] = [name |-> Wanted, members |-> {}]
    BY <1>2, <2>1, TeamAdded DEF WithNewTeam
  <2> DEFINE new == Len(teams) + 1
  <2> HIDE DEF new
  <2>3. teams'[new].name = Wanted
    BY <2>2 DEF new
  <2> QED
    BY <1>1, <1>2, <2>2, <2>3, Zenon DEF Returns, new
<1>3. (IdsNamed(Wanted) = {} /\ teams' = WithNewTeam /\ Resolved(Len(teams) + 1)) \/ GiveUp
  BY Zenon DEF CreateTeam
<1>4. UNCHANGED <<accounts, wiped, disturbed>>
  BY Zenon DEF CreateTeam, env, history
<1> QED
  BY <1>1, <1>2, <1>3, <1>4, Zenon DEF TeamMade, CreateTeam

-----------------------------------------------------------------------------
\* The steps that look up nobody.
LEMMA GroupKept ==
    ASSUME TypeInv, GroupKnown, [Next]_vars,
           pass.group # NoGroup, pass'.group = pass.group,
           pass'.entries = pass.entries, pass'.desired = pass.desired,
           pass'.logins = pass.logins,
           pass'.pc = "apply" => pass'.toAdd \subseteq pass.desired,
           pass'.pc \in {"members", "apply"} =>
             \/ pass.pc \in {"members", "apply"} /\ pass'.teamID = pass.teamID
             \/ /\ pass'.teamID \in DOMAIN teams'
                /\ teams'[pass'.teamID].name = adToGrafana[pass.group]
    PROVE  GroupKnown'
<1>1. ASSUME Known'
      PROVE  /\ Known
             /\ DOMAIN accounts \subseteq DOMAIN accounts'
             /\ \A i \in DOMAIN accounts : accounts'[i] = accounts[i]
             /\ DOMAIN teams \subseteq DOMAIN teams'
             /\ \A id \in DOMAIN teams : teams'[id].name = teams[id].name
  BY <1>1, KnownBefore, DataKept
<1> QED
  BY <1>1 DEF GroupKnown

\* Search, lookup and resolution make it so, action by action.
LEMMA GroupKnownStep ==
    ASSUME TypeInv, GroupKnown, [Next]_vars
    PROVE  GroupKnown'
<1>1. pass \in Pass /\ Control /\ Control'
  BY ControlStep DEF TypeInv, TypeOK
<1>2. CASE pass'.group = NoGroup
  BY <1>2 DEF GroupKnown
<1>3. ASSUME pass'.pc \in {"idle", "ldap", "group", "folder", "done", "perms"}
      PROVE  GroupKnown'
  BY <1>1, <1>2, <1>3 DEF Control
<1> USE DEF Keeps, Fields
<1>4. CASE Begin \/ Search \/ SearchFails \/ GroupDone \/ GroupsDone \/ PassDone
           \/ UpdateFolderPermissions
  BY <1>1, <1>3, <1>4, BeginEffect, SearchEffect, SearchFailsEffect, GroupDoneEffect,
     GroupsDoneEffect, PassDoneEffect, UpdateFolderPermissionsEffect
<1>5. ASSUME NEW g \in Groups, NextGroup(g)
      PROVE  GroupKnown'
  BY <1>1, <1>5, NextGroupEffect DEF GroupKnown
<1>6. ASSUME NEW u \in Users, LookupUser(u)
      PROVE  GroupKnown'
  <2>1. pass.pc = "lookup" /\ u \in pass.logins /\ accounts' = accounts
    BY <1>6, Zenon DEF LookupUser, LookupUser_Then, At, env
  <2>2. pass.group # NoGroup
    BY <1>1, <2>1 DEF Control
  <2>3. u \in Range(accounts) => IdOf(u) \in DOMAIN accounts /\ accounts[IdOf(u)] = u
    BY DEF IdOf, Range
  <2>4. /\ pass'.group = pass.group /\ pass'.entries = pass.entries /\ pass'.pc = pass.pc
        /\ pass'.logins = pass.logins \ {u}
        /\ \/ pass'.desired = pass.desired
           \/ u \in Range(accounts) /\ pass'.desired = pass.desired \cup {IdOf(u)}
    BY <1>1, <1>6, LookupUserEffect
  <2>5. Known' => Known
    BY <2>2, <2>4, KnownBefore
  <2> QED
    BY <2>1, <2>2, <2>3, <2>4, <2>5 DEF GroupKnown
<1>7. ASSUME pass.group # NoGroup,
             pass'.pc \in {"lookup", "search", "verify", "create"},
             Keeps({"pc", "teamID"})
      PROVE  GroupKnown'
  BY <1>7, GroupKept
<1>8. CASE LookupsDone
  BY <1>1, <1>2, <1>7, <1>8, LookupsDoneEffect
<1>9. ASSUME GiveUp, pass.pc \in Resolving
      PROVE  GroupKnown'
  BY <1>1, <1>3, <1>9, GiveUpEffect
<1>10. ASSUME NEW id, Returns(id)
       PROVE  GroupKnown'
  <2>1. CASE pass.folder # NoFolder
    BY <1>1, <1>3, <1>10, <2>1, ResolvedEffect DEF Returns
  <2>2. CASE pass.folder = NoFolder
    <3>1. pass'.pc = "members" /\ pass'.teamID = id /\ Keeps({"pc", "teamID"})
      BY <1>1, <1>10, <2>2, ResolvedEffect DEF Returns
    <3>2. pass.group # NoGroup
      BY <1>1, <1>10, <2>2 DEF Control, Returns
    <3>3. id \in DOMAIN teams' /\ teams'[id].name = adToGrafana[pass.group]
      BY <1>10, <2>2 DEF Returns, Wanted
    <3> QED
      BY <3>1, <3>2, <3>3, GroupKept
  <2> QED
    BY <2>1, <2>2
<1>11. CASE GetTeamByName
  <2>1. pass.pc \in Resolving
    BY <1>11, Zenon DEF GetTeamByName, At, Resolving
  <2>2. CASE pass'.pc \in {"verify", "create"} /\ Keeps({"pc", "teamID"})
    BY <1>2, <1>7, <2>2
  <2> QED
    BY <1>1, <1>9, <1>11, <2>1, <2>2, GetTeamByNameEffect
<1>12. CASE GetTeam
  <2>1. CASE pass'.pc = "create" /\ Keeps({"pc", "teamID"})
    BY <1>2, <1>7, <2>1
  <2> QED
    BY <1>1, <1>10, <1>12, <2>1, GetTeamReturns
<1>13. CASE CreateTeam
  BY <1>9, <1>10, <1>13, CreateTeamReturns
<1>14. CASE GetTeamMembers
  <2>1. pass.pc = "members"
    BY <1>14, Zenon DEF GetTeamMembers, GetTeamMembers_Then, At
  <2>2. pass.group # NoGroup
    BY <1>1, <2>1 DEF Control
  <2>3. CASE /\ pass'.pc = "apply" /\ pass'.toAdd \subseteq pass.desired
             /\ Keeps({"pc", "toAdd", "toRemove"})
    BY <2>1, <2>2, <2>3, GroupKept
  <2> QED
    BY <1>1, <1>3, <1>14, <2>3, GetTeamMembersEffect
<1>15. ASSUME pass.pc = "apply", pass'.toAdd \subseteq pass.toAdd,
              Keeps({"toAdd", "toRemove", "adding", "attempt"})
       PROVE  GroupKnown'
  <2>1. pass.group # NoGroup
    BY <1>1, <1>15 DEF Control
  <2>2. pass'.toAdd \subseteq pass.desired
    BY <1>15, <2>1 DEF GroupKnown
  <2> QED
    BY <1>15, <2>1, <2>2, GroupKept
<1>16. ASSUME NEW id \in UserIds, AddTeamMember(id) \/ AddTeamMemberFails(id)
       PROVE  GroupKnown'
  <2>1. pass.pc = "apply" /\ (AddedOrGivenUp(id) \/ TriesAgain(id))
    BY <1>16, Zenon DEF AddTeamMember, AddTeamMemberFails, Adding, At
  <2> QED
    BY <1>1, <1>15, <2>1, AddedOrGivenUpEffect, TriesAgainEffect
<1>17. ASSUME NEW id \in UserIds, RemoveTeamMember(id)
       PROVE  GroupKnown'
  <2>1. pass.pc = "apply"
    BY <1>17, Zenon DEF RemoveTeamMember, At
  <2> QED
    BY <1>1, <1>15, <1>17, <2>1, RemoveTeamMemberEffect
<1>18. CASE (\E f \in Folders : NextFolder(f)) \/ NextPerm
  <2>1. pass.pc \in {"folder", "perms"}
    BY <1>18, Zenon DEF NextFolder, NextPerm, At
  <2>2. pass.group = NoGroup
    BY <1>1, <2>1 DEF Control
  <2>3. pass'.group = pass.group
    BY <1>1, <1>18, NextFolderEffect, NextPermEffect
  <2> QED
    BY <1>2, <2>2, <2>3
<1>19. CASE Exits
  <2>1. pass'.group = NoGroup
    BY <1>19 DEF Exits, NoPass
  <2> QED
    BY <1>2, <2>1
<1>20. ASSUME UNCHANGED pass
       PROVE  GroupKnown'
  BY <1>2, <1>20, GroupKept DEF GroupKnown
<1>21. ASSUME \/ AdChanges \/ (\E u \in Users : FirstVisit(u))
              \/ (\E f \in Folders : FolderAppears(f))
              \/ ReliabilityChanges \/ Wipe \/ UNCHANGED vars
       PROVE  UNCHANGED pass
  BY <1>21, Zenon DEF AdChanges, FirstVisit, FolderAppears, ReliabilityChanges, Wipe, vars
<1> QED
  BY <1>4, <1>5, <1>6, <1>8, <1>11, <1>12, <1>13, <1>14, <1>16, <1>17, <1>18, <1>19,
     <1>20, <1>21, Zenon DEF Next, PassStep

LEMMA GroupKnownInvariance == Spec => [](TypeInv /\ GroupKnown)
<1>1. Init => TypeInv /\ GroupKnown
  <2>1. Init => GroupKnown
    BY DEF Init, NoPass, GroupKnown
  <2> QED
    BY <2>1, TypeInit
<1>2. (TypeInv /\ GroupKnown) /\ [Next]_vars => (TypeInv /\ GroupKnown)'
  BY TypeStep, GroupKnownStep
<1> QED
  BY <1>1, <1>2, PTL DEF Spec

\* NoOutsiderJoins, as a property of one step.
JoinsAreListed ==
    \A id \in DOMAIN teams \cap DOMAIN teams' :
       \A i \in teams'[id].members \ teams[id].members :
          ~wiped =>
              \E g \in DOMAIN pass.entries \cap DOMAIN adToGrafana :
                  /\ adToGrafana[g] = teams[id].name
                  /\ accounts[i] \in pass.entries[g]

\* Only AddTeamMember lets anybody join, and it is given what GroupKnown speaks of.
LEMMA JoinsStep ==
    ASSUME TypeInv, GroupKnown, [Next]_vars
    PROVE  JoinsAreListed
<1>1. teams \in Seq(Team)
  BY DEF TypeInv, TypeOK
<1>2. CASE UNCHANGED teams
  BY <1>2, Zenon DEF JoinsAreListed
<1>3. CASE Wipe
  <2>1. teams' = <<>>
    BY <1>3, Zenon DEF Wipe
  <2> QED
    BY <2>1 DEF JoinsAreListed
<1>4. CASE TeamMade
  <2>1. Wanted \in TeamNames /\ teams' = WithNewTeam
    BY <1>4, WantedTypes, Zenon DEF TeamMade, At, Resolving, TypeInv
  <2>2. \A id \in DOMAIN teams : teams'[id] = teams[id]
    BY <1>1, <2>1, TeamAdded DEF WithNewTeam
  <2> QED
    BY <2>2, Zenon DEF JoinsAreListed
<1>5. ASSUME NEW id \in UserIds, MemberJoins(id)
      PROVE  JoinsAreListed
  <2>1. pass.pc = "apply" /\ id \in pass.toAdd
    BY <1>5, Zenon DEF MemberJoins, At
  <2>2. /\ pass.group \in DOMAIN pass.entries /\ pass.group \in DOMAIN adToGrafana
        /\ pass.group # NoGroup
    BY <2>1 DEF TypeInv, TypeOK, Pass, Control
  <2>3. ~wiped => /\ teams[pass.teamID].name = adToGrafana[pass.group]
                  /\ accounts[id] \in pass.entries[pass.group]
    BY <2>1, <2>2 DEF GroupKnown, Known
  <2>4. /\ \A t \in DOMAIN teams : t # pass.teamID => teams'[t] = teams[t]
        /\ teams'[pass.teamID].members = teams[pass.teamID].members \cup {id}
    BY <1>5, MembershipChange
  <2> QED
    BY <2>2, <2>3, <2>4 DEF JoinsAreListed
<1>6. ASSUME NEW id \in UserIds, MemberLeaves(id)
      PROVE  JoinsAreListed
  <2>1. /\ \A t \in DOMAIN teams : t # pass.teamID => teams'[t] = teams[t]
        /\ teams'[pass.teamID].members = teams[pass.teamID].members \ {id}
    BY <1>6, MembershipChange
  <2> QED
    BY <2>1 DEF JoinsAreListed
<1> QED
  BY <1>2, <1>3, <1>4, <1>5, <1>6, TeamsChange, Zenon

\* Whatever calls fail, take effect unseen or answer with stale ids, nobody joins a
\* team unless an AD group mapped to that team lists him, until Grafana loses its
\* database in mid-pass.
THEOREM OutsidersStayOut == Spec => NoOutsiderJoins
<1>1. TypeInv /\ GroupKnown /\ [Next]_vars => [JoinsAreListed]_vars
  BY JoinsStep
<1>2. Spec => [][JoinsAreListed]_vars
  BY <1>1, GroupKnownInvariance, PTL DEF Spec
<1> QED
  BY <1>2, Zenon DEF NoOutsiderJoins, JoinsAreListed

-----------------------------------------------------------------------------
(***************************************************************************)
(* The list of permissions of the folder in hand.                          *)
(***************************************************************************)
\* What the pass has made of an entry of the list.
Rightly(perm, fp) ==
    /\ perm.Permission = permMap(fp.Permission)
    /\ ~wiped => perm.TeamID \in DOMAIN teams /\ teams[perm.TeamID].name = fp.Team

\* What has been resolved and what has not make up the configured list.
ListResolved ==
    pass.folder # NoFolder =>
      /\ Len(pass.newPerms) + Len(pass.fps) = Len(folderPerms[pass.folder])
      /\ \A k \in 1 .. Len(pass.fps) :
           pass.fps[k] = folderPerms[pass.folder][Len(pass.newPerms) + k]
      /\ \A k \in 1 .. Len(pass.newPerms) :
           Rightly(pass.newPerms[k], folderPerms[pass.folder][k])

LEMMA FolderTypes ==
    ASSUME TypeInv
    PROVE  /\ pass \in Pass /\ Control
           /\ pass.fps \in Seq(Range(FolderPermissions)) /\ pass.newPerms \in Seq(Grant)
           /\ pass.folder # NoFolder =>
                /\ pass.folder \in ConfiguredFolders
                /\ folderPerms[pass.folder] \in Seq(Range(FolderPermissions))
           /\ \A k \in 1 .. Len(pass.newPerms) : pass.newPerms[k] \in Grant
BY Listed DEF TypeInv, TypeOK, Pass

\* In the turn of a folder the database is lost only by a wipe.
LEMMA RightlyKept ==
    ASSUME TypeInv, [Next]_vars, pass.folder # NoFolder, pass'.folder # NoFolder,
           NEW perm, NEW fp, Rightly(perm, fp)
    PROVE  Rightly(perm, fp)'
<1>1. pass.pc \notin {"idle", "done"}
  BY DEF TypeInv, Control
<1>2. ~Begin
  BY <1>1, Zenon DEF Begin
<1>3. ~Exits
  <2>1. NoPass.folder = NoFolder
    BY DEF NoPass
  <2> QED
    BY <2>1, Zenon DEF Exits
<1>4. CASE Wipe
  BY <1>4 DEF Wipe, Rightly
<1>5. CASE ~Wipe
  BY <1>2, <1>3, <1>5, OthersKept, DataKept DEF Rightly
<1> QED
  BY <1>4, <1>5

LEMMA ListKept ==
    ASSUME TypeInv, ListResolved, [Next]_vars, pass.folder # NoFolder,
           pass'.folder = pass.folder, pass'.fps = pass.fps, pass'.newPerms = pass.newPerms
    PROVE  ListResolved'
<1> DEFINE list == folderPerms[pass.folder]
<1> HIDE DEF list
<1>1. \A k \in 1 .. Len(pass.newPerms) : Rightly(pass.newPerms[k], list[k])
  BY DEF ListResolved, list
<1>2. \A k \in 1 .. Len(pass.newPerms) : Rightly(pass.newPerms[k], list[k])'
  <2>1. list' = list
    BY DEF list
  <2> QED
    BY <1>1, <2>1, RightlyKept
<1> QED
  BY <1>1, <1>2 DEF ListResolved, list

\* An entry that is resolved moves from the rest of the list to the permissions.
LEMMA ListGrows ==
    ASSUME TypeInv, ListResolved, [Next]_vars, pass.folder # NoFolder, NEW id, Returns(id)
    PROVE  ListResolved'
<1>1. PICK list, perms, fps, fp, perm :
        /\ list = folderPerms[pass.folder] /\ perms = pass.newPerms /\ fps = pass.fps
        /\ fp = Head(fps)
        /\ perm = [TeamID |-> id, Permission |-> permMap(fp.Permission)]
  BY Zenon
<1>2. /\ pass'.fps = Tail(fps) /\ pass'.newPerms = Append(perms, perm)
      /\ pass'.folder = pass.folder
  BY <1>1, FolderTypes, ResolvedEffect DEF Returns, Keeps, Fields
<1>3. /\ perms \in Seq(Grant) /\ fps \in Seq(Range(FolderPermissions)) /\ fps # <<>>
      /\ list \in Seq(Range(FolderPermissions))
  BY <1>1, FolderTypes DEF Returns, Control
<1>4. /\ Len(perms) \in Nat /\ Len(fps) \in Nat \ {0}
      /\ fp = fps[1]
      /\ Len(perms) + Len(fps) = Len(list)
      /\ \A k \in 1 .. Len(fps) : fps[k] = list[Len(perms) + k]
      /\ \A k \in 1 .. Len(perms) : Rightly(perms[k], list[k])
  <2>1. Len(perms) \in Nat /\ Len(fps) \in Nat \ {0} /\ fp = fps[1]
    BY <1>1, <1>3
  <2>2. /\ Len(perms) + Len(fps) = Len(list)
        /\ \A k \in 1 .. Len(fps) : fps[k] = list[Len(perms) + k]
        /\ \A k \in 1 .. Len(perms) : Rightly(perms[k], list[k])
    BY <1>1, Zenon DEF ListResolved
  <2> QED
    BY <2>1, <2>2
<1>5. fp = list[Len(perms) + 1]
  BY <1>4
<1>6. Rightly(perm, fp)'
  <2>1. perm.TeamID = id /\ perm.Permission = permMap(fp.Permission)
    BY <1>1
  <2>2. id \in DOMAIN teams' /\ teams'[id].name = fp.Team
    BY <1>1 DEF Returns, Wanted
  <2> QED
    BY <2>1, <2>2 DEF Rightly
<1>7. pass'.folder # NoFolder
  BY <1>2
<1>8. \A k \in 1 .. Len(perms) : Rightly(perms[k], list[k])'
  BY <1>4, <1>7, RightlyKept
<1>9. /\ Len(pass'.fps) = Len(fps) - 1
      /\ \A k \in 1 .. (Len(fps) - 1) : pass'.fps[k] = fps[k + 1]
  BY <1>2, <1>3, <1>4
<1>10. /\ Len(pass'.newPerms) = Len(perms) + 1
       /\ \A k \in 1 .. Len(perms) : pass'.newPerms[k] = perms[k]
       /\ pass'.newPerms[Len(perms) + 1] = perm
  <2> DEFINE S == Grant \cup {perm}
  <2>1. perms \in Seq(S) /\ perm \in S
    BY <1>3
  <2> HIDE DEF S
  <2> QED
    BY <1>2, <1>4, <2>1
<1>11. folderPerms[pass'.folder] = list
  BY <1>1, <1>2
<1>12. ASSUME NEW k \in 1 .. (Len(perms) + 1)
       PROVE  Rightly(pass.newPerms[k], list[k])'
  <2>1. CASE k = Len(perms) + 1
    BY <1>5, <1>6, <1>10, <2>1 DEF Rightly
  <2>2. CASE k \in 1 .. Len(perms)
    BY <1>8, <1>10, <2>2 DEF Rightly
  <2> QED
    BY <1>4, <2>1, <2>2
<1>13. /\ Len(pass'.newPerms) + Len(pass'.fps) = Len(list)
       /\ \A k \in 1 .. Len(pass'.fps) : pass'.fps[k] = list[Len(pass'.newPerms) + k]
  <2>1. ASSUME NEW k \in 1 .. (Len(fps) - 1)
        PROVE  pass'.fps[k] = list[Len(perms) + 1 + k]
    <3>1. k + 1 \in 1 .. Len(fps) /\ Len(perms) + (k + 1) = Len(perms) + 1 + k
      BY <1>4
    <3>2. fps[k + 1] = list[Len(perms) + (k + 1)]
      BY <1>4, <3>1
    <3> QED
      BY <1>9, <3>1, <3>2
  <2>2. Len(pass'.newPerms) + Len(pass'.fps) = Len(list)
    <3>1. ASSUME NEW n \in Nat, NEW m \in Nat \ {0}
          PROVE  (n + 1) + (m - 1) = n + m
      OBVIOUS
    <3>2. (Len(perms) + 1) + (Len(fps) - 1) = Len(perms) + Len(fps)
      BY <1>4, <3>1, Zenon
    <3> QED
      BY <1>4, <1>9, <1>10, <3>2, Zenon
  <2>3. \A k \in 1 .. Len(pass'.fps) : pass'.fps[k] = list[Len(pass'.newPerms) + k]
    BY <1>9, <1>10, <2>1
  <2> QED
    BY <2>2, <2>3
<1>14. \A k \in 1 .. Len(pass'.newPerms) : Rightly(pass.newPerms[k], list[k])'
  BY <1>10, <1>12
<1> QED
  BY <1>11, <1>13, <1>14 DEF ListResolved

\* The list is taken up whole, and grows by one entry or is given up.
LEMMA ListResolvedStep ==
    ASSUME TypeInv, ListResolved, [Next]_vars
    PROVE  ListResolved'
<1>1. pass \in Pass /\ Control
  BY FolderTypes
<1>2. CASE pass'.folder = NoFolder
  BY <1>2 DEF ListResolved
<1>3. ASSUME pass'.folder = pass.folder, pass'.fps = pass.fps,
             pass'.newPerms = pass.newPerms
      PROVE  ListResolved'
  BY <1>2, <1>3, ListKept
<1> USE DEF Keeps, Fields
<1>4. CASE Begin \/ Search \/ SearchFails \/ GroupDone \/ GroupsDone \/ PassDone
           \/ LookupsDone \/ NextPerm
  BY <1>1, <1>3, <1>4, BeginEffect, SearchEffect, SearchFailsEffect, GroupDoneEffect,
     GroupsDoneEffect, PassDoneEffect, LookupsDoneEffect, NextPermEffect
<1>5. CASE \/ (\E g \in Groups : NextGroup(g)) \/ (\E u \in Users : LookupUser(u))
           \/ GetTeamMembers
  BY <1>1, <1>3, <1>5, NextGroupEffect, LookupUserEffect, GetTeamMembersEffect
<1>6. CASE \E id \in UserIds :
             AddTeamMember(id) \/ AddTeamMemberFails(id) \/ RemoveTeamMember(id)
  <2>1. PICK id \in UserIds : AddedOrGivenUp(id) \/ TriesAgain(id) \/ RemoveTeamMember(id)
    BY <1>6, Zenon DEF AddTeamMember, AddTeamMemberFails
  <2> QED
    BY <1>1, <1>3, <2>1, AddedOrGivenUpEffect, TriesAgainEffect, RemoveTeamMemberEffect
<1>7. ASSUME GiveUp
      PROVE  ListResolved'
  BY <1>1, <1>2, <1>3, <1>7, GiveUpEffect
<1>8. ASSUME NEW id, Returns(id)
      PROVE  ListResolved'
  <2>1. CASE pass.folder = NoFolder
    BY <1>1, <1>2, <1>8, <2>1, ResolvedEffect DEF Returns
  <2>2. CASE pass.folder # NoFolder
    BY <1>8, <2>2, ListGrows
  <2> QED
    BY <2>1, <2>2
<1>9. CASE GetTeamByName
  BY <1>1, <1>3, <1>7, <1>9, GetTeamByNameEffect
<1>10. CASE GetTeam
  BY <1>1, <1>3, <1>8, <1>10, GetTeamReturns
<1>11. CASE CreateTeam
  BY <1>7, <1>8, <1>11, CreateTeamReturns
<1>12. ASSUME NEW f \in Folders, NextFolder(f)
       PROVE  ListResolved'
  <2>1. f \in pass.folders /\ pass.pc = "folder"
    BY <1>12, Zenon DEF NextFolder, At
  <2>2. pass.newPerms = <<>> /\ f \in ConfiguredFolders
    BY <1>1, <2>1 DEF Control, Pass
  <2>3. CASE /\ pass'.folder = f /\ pass'.fps = folderPerms[f]
             /\ pass'.newPerms = pass.newPerms
    <3>1. folderPerms[f] \in Seq(Range(FolderPermissions))
      BY <2>2, Listed
    <3>2. Len(pass'.newPerms) = 0 /\ Len(folderPerms[f]) \in Nat
      BY <2>2, <2>3, <3>1
    <3> QED
      BY <2>3, <3>2 DEF ListResolved
  <2> QED
    BY <1>1, <1>3, <1>12, <2>3, NextFolderEffect
<1>13. CASE UpdateFolderPermissions
  BY <1>1, <1>2, <1>13, UpdateFolderPermissionsEffect
<1>14. CASE Exits
  <2>1. pass'.folder = NoFolder
    BY <1>14 DEF Exits, NoPass
  <2> QED
    BY <1>2, <2>1
<1>15. ASSUME \/ AdChanges \/ (\E u \in Users : FirstVisit(u))
              \/ (\E f \in Folders : FolderAppears(f))
              \/ ReliabilityChanges \/ Wipe \/ UNCHANGED vars
       PROVE  UNCHANGED pass
  BY <1>15, Zenon DEF AdChanges, FirstVisit, FolderAppears, ReliabilityChanges, Wipe, vars
<1> QED
  BY <1>3, <1>4, <1>5, <1>6, <1>9, <1>10, <1>11, <1>12, <1>13, <1>14, <1>15, Zenon
     DEF Next, PassStep

LEMMA ListInvariance == Spec => [](TypeInv /\ ListResolved)
<1>1. Init => TypeInv /\ ListResolved
  <2>1. Init => ListResolved
    BY DEF Init, NoPass, ListResolved
  <2> QED
    BY <2>1, TypeInit
<1>2. (TypeInv /\ ListResolved) /\ [Next]_vars => (TypeInv /\ ListResolved)'
  BY TypeStep, ListResolvedStep
<1> QED
  BY <1>1, <1>2, PTL DEF Spec

\* GrantsAreWhole, as a property of one step.
WholeGrants ==
    \A f \in Folders : granted'[f] # granted[f] /\ ~wiped' => GrantsMatch(f)'

\* Once no entry is left to be resolved, what goes to Grafana is the whole list.
LEMMA ListComplete ==
    ASSUME TypeInv, ListResolved, pass.pc = "perms", pass.fps = <<>>
    PROVE  /\ pass.folder \in ConfiguredFolders /\ pass.folder # NoFolder
           /\ pass.newPerms \in Seq(Grant)
           /\ Len(pass.newPerms) = Len(folderPerms[pass.folder])
           /\ \A k \in DOMAIN pass.newPerms :
                Rightly(pass.newPerms[k], folderPerms[pass.folder][k])
<1>1. /\ pass.folder # NoFolder /\ pass.folder \in ConfiguredFolders
      /\ folderPerms[pass.folder] \in Seq(Range(FolderPermissions))
      /\ pass.newPerms \in Seq(Grant)
  BY FolderTypes DEF Control
<1>2. /\ Len(pass.newPerms) = Len(folderPerms[pass.folder])
      /\ \A k \in DOMAIN pass.newPerms :
           Rightly(pass.newPerms[k], folderPerms[pass.folder][k])
  BY <1>1 DEF ListResolved
<1> QED
  BY <1>1, <1>2

\* Only UpdateFolderPermissions grants, and it grants the complete list.
LEMMA GrantsStep ==
    ASSUME TypeInv, ListResolved, [Next]_vars
    PROVE  WholeGrants
<1>1. CASE UNCHANGED granted
  BY <1>1, Zenon DEF WholeGrants
<1>2. CASE Wipe
  BY <1>2, Zenon DEF Wipe, WholeGrants
<1>3. CASE UpdateFolderPermissions /\ ~UNCHANGED granted
  <2>1. /\ granted' = [granted EXCEPT ![pass.folder] = pass.newPerms]
        /\ pass.pc = "perms" /\ pass.fps = <<>>
        /\ teams' = teams /\ wiped' = wiped
    BY <1>3, Zenon DEF UpdateFolderPermissions, At, history
  <2>2. granted \in [Folders -> Seq(Grant)]
    BY DEF TypeInv, TypeOK
  <2>3. /\ pass.folder \in ConfiguredFolders
        /\ pass.newPerms \in Seq(Grant)
        /\ Len(pass.newPerms) = Len(folderPerms[pass.folder])
        /\ \A k \in DOMAIN pass.newPerms :
             Rightly(pass.newPerms[k], folderPerms[pass.folder][k])
    BY <2>1, ListComplete
  <2>4. ASSUME NEW f \in Folders, granted'[f] # granted[f], ~wiped'
        PROVE  f = pass.folder /\ granted'[f] = pass.newPerms
    BY <2>1, <2>2, <2>4
  <2> QED
    BY <2>1, <2>3, <2>4 DEF WholeGrants, GrantsMatch, Rightly, IdsNamed
<1> QED
  BY <1>1, <1>2, <1>3, OthersKept

\* However calls fail in between, a folder never gets a list with an entry left
\* out, a team of another name or another permission.
THEOREM FoldersKeepAccess == Spec => GrantsAreWhole
<1>1. TypeInv /\ ListResolved /\ [Next]_vars => [WholeGrants]_vars
  BY GrantsStep
<1>2. Spec => [][WholeGrants]_vars
  BY <1>1, ListInvariance, PTL DEF Spec
<1> QED
  BY <1>2, Zenon DEF GrantsAreWhole, WholeGrants

=============================================================================
