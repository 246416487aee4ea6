--------------------------- MODULE TeamSyncProofs ---------------------------
(***************************************************************************)
(* Type correctness of TeamSync, for any users, groups, team names,        *)
(* folders, mapping and list of permissions that TeamSyncAssumption        *)
(* allows. The ids in TypeOK are bounded by the number of users and of     *)
(* team names, so the proof needs what bounds them: Grafana never has two  *)
(* accounts of one login or two teams of one name. The lemmas about what   *)
(* each action does to the pass, to teams and to accounts serve the two    *)
(* modules that follow as well.                                            *)
(***************************************************************************)
EXTENDS TeamSync, FiniteSetTheorems, TLAPS

-----------------------------------------------------------------------------
\* A set of numbers up to n has a greatest element: of the sets that remain above
\* one of its elements, some are smallest.
LEMMA Greatest ==
    ASSUME NEW n \in Nat, NEW S \in SUBSET (1 .. n), S # {}
    PROVE  \E i \in S : \A j \in S : j <= i
<1> DEFINE Above(i) == {j \in S : j >= i}
           Sets     == {Above(i) : i \in S}
<1>1. IsFiniteSet(S)
  <2>1. IsFiniteSet(1 .. n)
    BY FS_Interval
  <2> QED
    BY <2>1, FS_Subset
<1>2. \A T \in SUBSET S : IsFiniteSet(T)
  BY <1>1, FS_Subset
<1>3. Sets \subseteq FiniteSubsetsOf(S) /\ Sets # {}
  BY <1>2 DEF FiniteSubsetsOf
<1>4. IsWellFoundedOn(StrictSubsetOrdering(S), FiniteSubsetsOf(S))
  BY FS_StrictSubsetOrderingWellFounded
<1>5. PICK T \in Sets : \A U \in Sets : <<U, T>> \notin StrictSubsetOrdering(S)
  BY <1>3, <1>4, WFMin
<1>6. PICK i \in S : T = Above(i)
  BY <1>5
<1>7. ASSUME NEW j \in S, j > i
      PROVE  FALSE
  <2>1. /\ i \in Int /\ j \in Int /\ \A k \in S : k \in Int
    OBVIOUS
  <2>2. \A k \in S : k >= j => k >= i
    BY <1>7, <2>1
  <2>3. i \in Above(i) /\ i \notin Above(j)
    BY <1>7, <2>1
  <2>4. Above(j) \subseteq Above(i)
    BY <2>2
  <2>5. <<Above(j), Above(i)>> \in StrictSubsetOrdering(S)
    BY <2>3, <2>4 DEF StrictSubsetOrdering
  <2> QED
    BY <2>5, <1>5, <1>6
<1> QED
  BY <1>7

\* adToGrafana gives every mapped group a team: its list of entries has a last one.
LEMMA Mapped ==
    /\ DOMAIN adToGrafana \subseteq Groups
    /\ adToGrafana \in [DOMAIN adToGrafana -> TeamNames]
<1> DEFINE Keys == {GroupsMapping[i].ADGroup : i \in DOMAIN GroupsMapping}
           Entries(g) == {i \in DOMAIN GroupsMapping : GroupsMapping[i].ADGroup = g}
           Last(g, i) ==  /\ GroupsMapping[i].ADGroup = g
                          /\ \A j \in DOMAIN GroupsMapping :
                                GroupsMapping[j].ADGroup = g => j <= i
<1>1. /\ Len(GroupsMapping) \in Nat /\ DOMAIN GroupsMapping = 1 .. Len(GroupsMapping)
      /\ \A i \in DOMAIN GroupsMapping : GroupsMapping[i].GrafanaTeam \in TeamNames
      /\ \A i \in DOMAIN GroupsMapping : GroupsMapping[i].ADGroup \in Groups
  <2> DEFINE Entry == [ADGroup : Groups, GrafanaTeam : TeamNames]
  <2>1. GroupsMapping \in Seq(Entry)
    BY TeamSyncAssumption
  <2>2. \A e \in Entry : e.GrafanaTeam \in TeamNames /\ e.ADGroup \in Groups
    OBVIOUS
  <2> HIDE DEF Entry
  <2> QED
    BY <2>1, <2>2
<1>2. ASSUME NEW g \in Keys
      PROVE  \E i \in DOMAIN GroupsMapping : Last(g, i)
  <2>1. Entries(g) # {} /\ Entries(g) \in SUBSET (1 .. Len(GroupsMapping))
    BY <1>1
  <2>2. \E i \in Entries(g) : \A j \in Entries(g) : j <= i
    BY <1>1, <2>1, Greatest
  <2> QED
    BY <2>2
<1>3. ASSUME NEW g \in Keys
      PROVE  adToGrafana[g] \in TeamNames
  <2>1. adToGrafana[g] = GroupsMapping[CHOOSE i \in DOMAIN GroupsMapping : Last(g, i)].GrafanaTeam
    BY Zenon DEF adToGrafana
  <2> QED
    BY <1>1, <1>2, <2>1
<1>4. DOMAIN adToGrafana = Keys
  BY Zenon DEF adToGrafana
<1>5. adToGrafana \in [Keys -> TeamNames]
  BY <1>3, Zenon DEF adToGrafana
<1>6. Keys \subseteq Groups
  BY <1>1
<1> QED
  BY <1>4, <1>5, <1>6, Zenon

\* An injective sequence is no longer than the set of what it may hold.
LEMMA InjectiveSeq ==
    ASSUME NEW S, IsFiniteSet(S), NEW s \in Seq(S), IsInjective(s)
    PROVE  /\ Cardinality(S) \in Nat
           /\ Len(s) <= Cardinality(S)
<1>1. Len(s) \in Nat /\ s \in [1 .. Len(s) -> S] /\ DOMAIN s = 1 .. Len(s)
  OBVIOUS
<1>2. s \in Injection(1 .. Len(s), S)
  BY <1>1 DEF Injection
<1>3. Cardinality(1 .. Len(s)) <= Cardinality(S)
  BY <1>2, FS_Injection
<1>4. Cardinality(1 .. Len(s)) = Len(s)
  <2>1. 0 \in Int /\ 1 \in Int /\ Len(s) \in Int
    BY <1>1
  <2>2. Cardinality(1 .. Len(s)) = IF 1 > Len(s) THEN 0 ELSE Len(s) - 1 + 1
    BY <2>1, FS_Interval, Zenon
  <2> QED
    BY <1>1, <2>2
<1> QED
  BY <1>3, <1>4, FS_CardinalityType

\* folderPerms lists the entries of each folder.  Counting those up to each of
\* them numbers them without gaps.
LEMMA Listed ==
    /\ ConfiguredFolders \subseteq Folders
    /\ folderPerms \in [ConfiguredFolders -> Seq(Range(FolderPermissions))]
    /\ \A fp \in Range(FolderPermissions) : fp.Team \in TeamNames
<1> DEFINE N == Len(FolderPermissions)
           Upto(f, i) == {j \in EntriesOf(f) : j <= i}
           Nth(f, n) == CHOOSE i \in EntriesOf(f) : Cardinality(Upto(f, i)) = n
<1>1. /\ N \in Nat /\ DOMAIN FolderPermissions = 1 .. N
      /\ \A i \in 1 .. N : /\ FolderPermissions[i].Folder \in Folders
                           /\ FolderPermissions[i].Team \in TeamNames
  <2> DEFINE Entry == [Folder : Folders, Team : TeamNames, Permission : STRING]
  <2>1. FolderPermissions \in Seq(Entry)
    BY TeamSyncAssumption
  <2>2. \A e \in Entry : e.Folder \in Folders /\ e.Team \in TeamNames
    OBVIOUS
  <2> HIDE DEF Entry
  <2> QED
    BY <2>1, <2>2
<1>2. ASSUME NEW f \in ConfiguredFolders
      PROVE  /\ EntriesOf(f) \subseteq 1 .. N
             /\ IsFiniteSet(EntriesOf(f)) /\ Cardinality(EntriesOf(f)) \in Nat
  <2>1. IsFiniteSet(1 .. N)
    BY <1>1, FS_Interval
  <2>2. EntriesOf(f) \subseteq 1 .. N
    BY <1>1 DEF EntriesOf
  <2> QED
    BY <2>1, <2>2, FS_Subset, FS_CardinalityType
<1>3. ASSUME NEW f \in ConfiguredFolders, NEW n \in 1 .. Cardinality(EntriesOf(f))
      PROVE  Nth(f, n) \in EntriesOf(f)
  <2> DEFINE C == Cardinality(EntriesOf(f))
             rank == [i \in EntriesOf(f) |-> Cardinality(Upto(f, i))]
  <2>1. ASSUME NEW i \in EntriesOf(f)
        PROVE  /\ IsFiniteSet(Upto(f, i))
               /\ rank[i] \in 1 .. C
    <3>1. IsFiniteSet(Upto(f, i)) /\ Cardinality(Upto(f, i)) <= C
      BY <1>2, FS_Subset
    <3>2. Cardinality(Upto(f, i)) \in Nat
      BY <3>1, FS_CardinalityType
    <3>3. i \in Upto(f, i)
      BY <1>2
    <3>4. Cardinality(Upto(f, i)) # 0
      BY <3>1, <3>3, FS_EmptySet
    <3>5. C \in Nat
      BY <1>2
    <3> HIDE DEF C, Upto
    <3> QED
      BY <3>1, <3>2, <3>4, <3>5
  <2>2. ASSUME NEW i \in EntriesOf(f), NEW j \in EntriesOf(f), i < j
        PROVE  rank[i] # rank[j]
    <3>1. \A k \in EntriesOf(f) : k <= i => k <= j
      BY <1>2, <2>2
    <3>2. Upto(f, i) \in SUBSET Upto(f, j)
      BY <3>1
    <3>3. j \in Upto(f, j) /\ j \notin Upto(f, i)
      BY <1>2, <2>2
    <3> QED
      BY <2>1, <3>2, <3>3, FS_Subset
  <2>3. rank \in [EntriesOf(f) -> 1 .. C]
    BY <2>1
  <2>4. ASSUME NEW i \in EntriesOf(f), NEW j \in EntriesOf(f), i # j
        PROVE  rank[i] # rank[j]
    <3>1. i < j \/ j < i
      BY <1>2, <2>4
    <3> QED
      BY <2>2, <3>1
  <2> HIDE DEF rank
  <2>5. rank \in Injection(EntriesOf(f), 1 .. C)
    BY <2>3, <2>4 DEF Injection, IsInjective
  <2>6. IsFiniteSet(1 .. C) /\ Cardinality(1 .. C) = C
    <3>1. C \in Nat
      BY <1>2
    <3> HIDE DEF C
    <3> QED
      BY <3>1, FS_Interval
  <2>7. rank \in Surjection(EntriesOf(f), 1 .. C)
    BY <2>5, <2>6, FS_Injection
  <2>8. \E i \in EntriesOf(f) : rank[i] = n
    BY <2>7 DEF Surjection
  <2>9. \E i \in EntriesOf(f) : Cardinality(Upto(f, i)) = n
    BY <2>8 DEF rank
  <2> QED
    BY <2>9
<1>4. ASSUME NEW f \in ConfiguredFolders
      PROVE  folderPerms[f] \in Seq(Range(FolderPermissions))
  <2> DEFINE C == Cardinality(EntriesOf(f))
  <2>1. folderPerms[f] = [n \in 1 .. C |-> FolderPermissions[Nth(f, n)]]
    BY Zenon DEF folderPerms
  <2>2. \A n \in 1 .. C : FolderPermissions[Nth(f, n)] \in Range(FolderPermissions)
    BY <1>1, <1>2, <1>3 DEF Range
  <2>3. C \in Nat
    BY <1>2
  <2> HIDE DEF C, Nth
  <2> QED
    BY <2>1, <2>2, <2>3
<1> QED
  <2>1. DOMAIN folderPerms = ConfiguredFolders /\ folderPerms = [f \in ConfiguredFolders |-> folderPerms[f]]
    BY Zenon DEF folderPerms
  <2>2. folderPerms \in [ConfiguredFolders -> Seq(Range(FolderPermissions))]
    BY <1>4, <2>1, Zenon
  <2>3. ConfiguredFolders \subseteq Folders
    BY <1>1 DEF ConfiguredFolders
  <2>4. \A fp \in Range(FolderPermissions) : fp.Team \in TeamNames
    BY <1>1 DEF Range
  <2> QED
    BY <2>2, <2>3, <2>4

-----------------------------------------------------------------------------
(***************************************************************************)
(* What each action does to the fields of pass.                            *)
(***************************************************************************)
\* The fields of pass, and that a step changes none but those in S.
Fields == {"pc", "entries", "groups", "group", "logins", "desired", "teamID",
           "toAdd", "toRemove", "adding", "attempt", "folders", "folder", "fps",
           "newPerms"}

Keeps(S) == \A f \in Fields \ S : pass'[f] = pass[f]

LEMMA BeginEffect ==
    ASSUME pass \in Pass, Begin
    PROVE  pass'.pc = "ldap" /\ Keeps({"pc"})
BY DEF Pass, Begin, Keeps, Fields

LEMMA SearchEffect ==
    ASSUME pass \in Pass, Search
    PROVE  /\ pass'.pc = "group" /\ pass'.entries = ad
           /\ pass'.groups = DOMAIN ad \cap DOMAIN adToGrafana
           /\ Keeps({"pc", "entries", "groups"})
BY DEF Pass, Search, Keeps, Fields

LEMMA SearchFailsEffect ==
    ASSUME pass \in Pass, SearchFails
    PROVE  pass'.pc = "idle" /\ Keeps({"pc"})
BY DEF Pass, SearchFails, Keeps, Fields

LEMMA NextGroupEffect ==
    ASSUME pass \in Pass, NEW g, NextGroup(g)
    PROVE  /\ pass'.pc = "lookup" /\ pass'.group = g
           /\ pass'.groups = pass.groups \ {g}
           /\ pass'.logins = pass.entries[g] /\ pass'.desired = {}
           /\ Keeps({"pc", "group", "groups", "logins", "desired"})
BY DEF Pass, NextGroup, Keeps, Fields

LEMMA LookupUserEffect ==
    ASSUME pass \in Pass, NEW u, LookupUser(u)
    PROVE  /\ pass'.logins = pass.logins \ {u}
           /\ Keeps({"logins", "desired"})
           /\ \/ u \in Range(accounts) /\ pass'.desired = pass.desired \cup {IdOf(u)}
              \/ /\ u \notin Range(accounts) \/ ~reliable
                 /\ pass'.desired = pass.desired
<1>1. CASE /\ u \in Range(accounts)
           /\ pass' = [pass EXCEPT !.logins = @ \ {u}, !.desired = @ \cup {IdOf(u)}]
  BY <1>1 DEF Pass, Keeps, Fields
<1>2. CASE /\ u \notin Range(accounts) \/ ~reliable
           /\ pass' = [pass EXCEPT !.logins = pass.logins \ {u}]
  BY <1>2 DEF Pass, Keeps, Fields
<1> QED
  BY <1>1, <1>2, Zenon DEF LookupUser, LookupUser_Then

LEMMA LookupsDoneEffect ==
    ASSUME pass \in Pass, LookupsDone
    PROVE  pass'.pc = "search" /\ Keeps({"pc"})
BY DEF Pass, LookupsDone, Keeps, Fields

LEMMA ResolvedEffect ==
    ASSUME pass \in Pass, NEW id, Resolved(id)
    PROVE  \/ /\ pass.folder = NoFolder
              /\ pass'.pc = "members" /\ pass'.teamID = id
              /\ Keeps({"pc", "teamID"})
           \/ /\ pass.folder # NoFolder
              /\ pass'.pc = "perms" /\ pass'.teamID = 0 /\ pass'.fps = Tail(pass.fps)
              /\ pass'.newPerms =
                   Append(pass.newPerms,
                          [TeamID |-> id, Permission |-> permMap(Head(pass.fps).Permission)])
              /\ Keeps({"pc", "teamID", "fps", "newPerms"})
<1>1. CASE /\ pass.folder = NoFolder
           /\ pass' = [pass EXCEPT !.pc = "members", !.teamID = id]
  BY <1>1 DEF Pass, Keeps, Fields
<1>2. ASSUME pass.folder # NoFolder,
             NEW perm, perm = [TeamID |-> id, Permission |-> permMap(Head(pass.fps).Permission)],
             pass' = [pass EXCEPT !.pc = "perms", !.teamID = 0, !.fps = Tail(@),
                                  !.newPerms = Append(@, perm)]
      PROVE  /\ pass'.pc = "perms" /\ pass'.teamID = 0 /\ pass'.fps = Tail(pass.fps)
             /\ pass'.newPerms = Append(pass.newPerms, perm)
             /\ Keeps({"pc", "teamID", "fps", "newPerms"})
  BY <1>2 DEF Pass, Keeps, Fields
<1> QED
  BY <1>1, <1>2, Zenon DEF Resolved

LEMMA GiveUpEffect ==
    ASSUME pass \in Pass, GiveUp
    PROVE  \/ /\ pass.folder = NoFolder
              /\ pass'.pc = "group" /\ pass'.group = NoGroup
              /\ Keeps({"pc", "group"})
           \/ /\ pass.folder # NoFolder
              /\ pass'.pc = "folder" /\ pass'.folder = NoFolder
              /\ pass'.fps = <<>> /\ pass'.newPerms = <<>>
              /\ Keeps({"pc", "folder", "fps", "newPerms"})
<1>1. CASE /\ pass.folder = NoFolder
           /\ pass' = [pass EXCEPT !.pc = "group", !.group = NoGroup]
  BY <1>1 DEF Pass, Keeps, Fields
<1>2. CASE /\ pass.folder # NoFolder
           /\ pass' = [pass EXCEPT !.pc = "folder", !.folder = NoFolder, !.fps = <<>>,
                                   !.newPerms = <<>>]
  BY <1>2 DEF Pass, Keeps, Fields
<1> QED
  BY <1>1, <1>2, Zenon DEF GiveUp

LEMMA GetTeamByNameEffect ==
    ASSUME pass \in Pass, GetTeamByName
    PROVE  \/ /\ pass'.pc = "verify" /\ Keeps({"pc", "teamID"})
              /\ pass'.teamID \in IF reliable THEN IdsNamed(Wanted) ELSE TeamIds
           \/ /\ IdsNamed(Wanted) = {} \/ ~reliable
              /\ pass'.pc = "create" /\ Keeps({"pc"})
           \/ ~reliable /\ GiveUp
<1>1. ASSUME NEW id, pass' = [pass EXCEPT !.pc = "verify", !.teamID = id]
      PROVE  pass'.pc = "verify" /\ Keeps({"pc", "teamID"}) /\ pass'.teamID = id
  BY <1>1 DEF Pass, Keeps, Fields
<1>2. ASSUME pass' = [pass EXCEPT !.pc = "create"]
      PROVE  pass'.pc = "create" /\ Keeps({"pc"})
  BY <1>2 DEF Pass, Keeps, Fields
<1> QED
  BY <1>1, <1>2, Zenon DEF GetTeamByName

LEMMA GetTeamEffect ==
    ASSUME pass \in Pass, GetTeam
    PROVE  \/ pass.teamID \in IdsNamed(Wanted) /\ Resolved(pass.teamID)
           \/ /\ pass.teamID \notin IdsNamed(Wanted) \/ ~reliable
              /\ pass'.pc = "create" /\ pass'.teamID = 0 /\ Keeps({"pc", "teamID"})
<1>1. ASSUME pass' = [pass EXCEPT !.pc = "create", !.teamID = 0]
      PROVE  pass'.pc = "create" /\ pass'.teamID = 0 /\ Keeps({"pc", "teamID"})
  BY <1>1 DEF Pass, Keeps, Fields
<1> QED
  BY <1>1, Zenon DEF GetTeam, GetTeam_Among

LEMMA GetTeamMembersEffect ==
    ASSUME pass \in Pass, GetTeamMembers
    PROVE  \/ /\ pass.teamID \in DOMAIN teams
              /\ pass'.pc = "apply"
              /\ pass'.toAdd = pass.desired \ teams[pass.teamID].members
              /\ pass'.toRemove = teams[pass.teamID].members \ pass.desired
              /\ Keeps({"pc", "toAdd", "toRemove"})
           \/ /\ pass.teamID \notin DOMAIN teams \/ ~reliable
              /\ pass'.pc = "group" /\ pass'.group = NoGroup /\ pass'.teamID = 0
              /\ Keeps({"pc", "group", "teamID"})
<1>1. ASSUME NEW A, NEW R,
             pass' = [pass EXCEPT !.pc = "apply", !.toAdd = A, !.toRemove = R]
      PROVE  /\ pass'.pc = "apply" /\ pass'.toAdd = A /\ pass'.toRemove = R
             /\ Keeps({"pc", "toAdd", "toRemove"})
  BY <1>1 DEF Pass, Keeps, Fields
<1>2. ASSUME pass' = [pass EXCEPT !.pc = "group", !.group = NoGroup, !.teamID = 0]
      PROVE  /\ pass'.pc = "group" /\ pass'.group = NoGroup /\ pass'.teamID = 0
             /\ Keeps({"pc", "group", "teamID"})
  BY <1>2 DEF Pass, Keeps, Fields
<1> QED
  BY <1>1, <1>2, Zenon DEF GetTeamMembers, GetTeamMembers_Then

LEMMA AddedOrGivenUpEffect ==
    ASSUME pass \in Pass, NEW id, AddedOrGivenUp(id)
    PROVE  /\ pass'.toAdd = pass.toAdd \ {id} /\ pass'.adding = 0 /\ pass'.attempt = 0
           /\ Keeps({"toAdd", "adding", "attempt"})
BY DEF Pass, AddedOrGivenUp, Keeps, Fields

LEMMA TriesAgainEffect ==
    ASSUME pass \in Pass, NEW id, TriesAgain(id)
    PROVE  /\ pass'.adding = id /\ pass'.attempt = pass.attempt + 1
           /\ Keeps({"adding", "attempt"})
BY DEF Pass, TriesAgain, Keeps, Fields

LEMMA RemoveTeamMemberEffect ==
    ASSUME pass \in Pass, NEW id, RemoveTeamMember(id)
    PROVE  pass'.toRemove = pass.toRemove \ {id} /\ Keeps({"toRemove"})
BY DEF Pass, RemoveTeamMember, Keeps, Fields

LEMMA GroupDoneEffect ==
    ASSUME pass \in Pass, GroupDone
    PROVE  /\ pass'.pc = "group" /\ pass'.group = NoGroup
           /\ pass'.teamID = 0 /\ pass'.desired = {}
           /\ Keeps({"pc", "group", "teamID", "desired"})
BY DEF Pass, GroupDone, Keeps, Fields

LEMMA GroupsDoneEffect ==
    ASSUME pass \in Pass, GroupsDone
    PROVE  /\ pass'.pc = "folder" /\ pass'.folders = ConfiguredFolders
           /\ Keeps({"pc", "folders"})
BY DEF Pass, GroupsDone, Keeps, Fields

LEMMA NextFolderEffect ==
    ASSUME pass \in Pass, NEW f, NextFolder(f)
    PROVE  /\ pass'.folders = pass.folders \ {f}
           /\ \/ /\ f \in titles
                 /\ pass'.pc = "perms" /\ pass'.folder = f
                 /\ pass'.fps = folderPerms[f]
                 /\ Keeps({"pc", "folders", "folder", "fps"})
              \/ (f \notin titles \/ ~reliable) /\ Keeps({"folders"})
<1>1. ASSUME NEW list,
             pass' = [pass EXCEPT !.pc = "perms", !.folders = @ \ {f}, !.folder = f,
                                  !.fps = list]
      PROVE  /\ pass'.folders = pass.folders \ {f}
             /\ pass'.pc = "perms" /\ pass'.folder = f /\ pass'.fps = list
             /\ Keeps({"pc", "folders", "folder", "fps"})
  BY <1>1 DEF Pass, Keeps, Fields
<1>2. ASSUME pass' = [pass EXCEPT !.folders = @ \ {f}]
      PROVE  pass'.folders = pass.folders \ {f} /\ Keeps({"folders"})
  BY <1>2 DEF Pass, Keeps, Fields
<1> QED
  BY <1>1, <1>2, Zenon DEF NextFolder

LEMMA NextPermEffect ==
    ASSUME pass \in Pass, NextPerm
    PROVE  pass'.pc = "search" /\ Keeps({"pc"})
BY DEF Pass, NextPerm, Keeps, Fields

LEMMA UpdateFolderPermissionsEffect ==
    ASSUME pass \in Pass, UpdateFolderPermissions
    PROVE  /\ pass'.pc = "folder" /\ pass'.folder = NoFolder /\ pass'.newPerms = <<>>
           /\ Keeps({"pc", "folder", "newPerms"})
<1>1. pass' = [pass EXCEPT !.pc = "folder", !.folder = NoFolder, !.newPerms = <<>>]
  BY Zenon DEF UpdateFolderPermissions
<1> QED
  BY <1>1 DEF Pass, Keeps, Fields

LEMMA PassDoneEffect ==
    ASSUME pass \in Pass, PassDone
    PROVE  pass'.pc = "done" /\ Keeps({"pc"})
BY DEF Pass, PassDone, Keeps, Fields

-----------------------------------------------------------------------------
(***************************************************************************)
(* The invariant of type correctness.                                      *)
(***************************************************************************)
\* Grafana never has two accounts of one login or two teams of one name, and the
\* members of its teams have accounts.
Databases ==
    /\ IsInjective(accounts)
    /\ \A i, j \in DOMAIN teams : teams[i].name = teams[j].name => i = j
    /\ \A id \in DOMAIN teams : teams[id].members \subseteq DOMAIN accounts

\* The places inside resolveTeam, which groups and folders share.
Resolving == {"search", "verify", "create"}

\* Where the pass is, and what it has in hand there.
Control ==
    /\ pass.pc \in {"idle", "ldap", "group", "folder", "done"}
         => pass.group = NoGroup /\ pass.folder = NoFolder
    /\ pass.pc \in {"lookup", "members", "apply"}
         => pass.group # NoGroup /\ pass.folder = NoFolder
    /\ pass.pc \in Resolving => (pass.group = NoGroup <=> pass.folder # NoFolder)
    /\ pass.pc = "perms" => pass.group = NoGroup /\ pass.folder # NoFolder
    /\ pass.pc \in Resolving /\ pass.folder # NoFolder => pass.fps # <<>>
    /\ pass.folder = NoFolder => pass.newPerms = <<>>
    /\ pass.groups \cup ({pass.group} \ {NoGroup}) \subseteq DOMAIN pass.entries
    /\ pass.group # NoGroup /\ pass.pc # "lookup" => pass.logins = {}
    /\ pass.folder # NoFolder \/ pass.pc \in {"folder", "done"} => pass.groups = {}
    /\ pass.pc = "done" => pass.folders = {}

\* Inductive: the ids of TypeOK exist because of the other two.
TypeInv == TypeOK /\ Databases /\ Control

-----------------------------------------------------------------------------
\* No pass has nothing in hand.
LEMMA ControlInit == Init => Control
BY DEF Init, NoPass, Control, Resolving

LEMMA ControlStep ==
    ASSUME TypeOK, Control, [Next]_vars
    PROVE  Control'
<1>1. pass \in Pass
  BY DEF TypeOK
<1>2. \A g \in Groups : g # NoGroup
  BY TeamSyncAssumption
<1>3. \A f \in Folders : f # NoFolder
  BY TeamSyncAssumption
<1> USE <1>1, <1>2, <1>3 DEF Control, Resolving, Keeps, Fields, At
<1>4. CASE Begin
  BY <1>4, BeginEffect DEF Begin
<1>5. CASE Search
  BY <1>5, SearchEffect DEF Search
<1>6. CASE SearchFails
  BY <1>6, SearchFailsEffect DEF SearchFails
<1>7. ASSUME NEW g \in Groups, NextGroup(g)
      PROVE  Control'
  <2>1. pass.pc = "group" /\ g \in pass.groups
    BY <1>7, Zenon DEF NextGroup
  <2>2. /\ pass'.pc = "lookup" /\ pass'.group = g
        /\ pass'.groups = pass.groups \ {g}
        /\ Keeps({"pc", "group", "groups", "logins", "desired"})
    BY <1>7, NextGroupEffect
  <2> QED
    BY <2>1, <2>2
<1>8. ASSUME NEW u \in Users, LookupUser(u)
      PROVE  Control'
  BY <1>8, LookupUserEffect DEF LookupUser, LookupUser_Then
<1>9. CASE LookupsDone
  BY <1>9, LookupsDoneEffect DEF LookupsDone
<1>10. ASSUME GiveUp, pass.pc \in Resolving
       PROVE  Control'
  BY <1>10, GiveUpEffect
<1>11. ASSUME NEW id, Resolved(id), pass.pc \in Resolving
       PROVE  Control'
  BY <1>11, ResolvedEffect
<1>12. CASE GetTeamByName
  BY <1>10, <1>12, GetTeamByNameEffect DEF GetTeamByName
<1>13. CASE GetTeam
  BY <1>11, <1>13, GetTeamEffect DEF GetTeam, GetTeam_Among
<1>14. CASE CreateTeam
  BY <1>10, <1>11, <1>14 DEF CreateTeam
<1>15. CASE GetTeamMembers
  BY <1>15, GetTeamMembersEffect DEF GetTeamMembers, GetTeamMembers_Then
<1>16. ASSUME NEW id \in UserIds, AddTeamMember(id) \/ AddTeamMemberFails(id)
       PROVE  Control'
  BY <1>16, AddedOrGivenUpEffect, TriesAgainEffect
     DEF AddTeamMember, AddTeamMemberFails, Adding
<1>17. ASSUME NEW id \in UserIds, RemoveTeamMember(id)
       PROVE  Control'
  BY <1>17, RemoveTeamMemberEffect
<1>18. CASE GroupDone
  BY <1>18, GroupDoneEffect DEF GroupDone
<1>19. CASE GroupsDone
  BY <1>19, GroupsDoneEffect DEF GroupsDone
<1>20. ASSUME NEW f \in Folders, NextFolder(f)
       PROVE  Control'
  BY <1>20, NextFolderEffect DEF NextFolder
<1>21. CASE NextPerm
  BY <1>21, NextPermEffect DEF NextPerm
<1>22. CASE UpdateFolderPermissions
  BY <1>22, UpdateFolderPermissionsEffect DEF UpdateFolderPermissions
<1>23. CASE PassDone
  BY <1>23, PassDoneEffect DEF PassDone
<1>24. CASE Exits
  BY <1>24 DEF Exits, NoPass
<1>25. CASE UNCHANGED pass
  BY <1>25
<1>26. ASSUME AdChanges \/ (\E u \in Users : FirstVisit(u)) \/ (\E f \in Folders : FolderAppears(f))
                \/ ReliabilityChanges \/ Wipe \/ UNCHANGED vars
       PROVE  UNCHANGED pass
  BY <1>26, Zenon DEF AdChanges, FirstVisit, FolderAppears, ReliabilityChanges, Wipe, vars
<1> QED
  BY <1>4, <1>5, <1>6, <1>7, <1>8, <1>9, <1>12, <1>13, <1>14, <1>15, <1>16, <1>17, <1>18,
     <1>19, <1>20, <1>21, <1>22, <1>23, <1>24, <1>25, <1>26, Zenon DEF Next, PassStep

-----------------------------------------------------------------------------
\* Ids stay within bounds, since a login has one account, and a name one team.
LEMMA IdsBounded ==
    ASSUME TypeOK, Databases
    PROVE  /\ Len(accounts) \in Nat /\ DOMAIN accounts = 1 .. Len(accounts)
           /\ DOMAIN accounts \subseteq UserIds
           /\ Len(teams) \in Nat /\ DOMAIN teams = 1 .. Len(teams)
           /\ DOMAIN teams \subseteq TeamIds
           /\ \A id \in DOMAIN teams : teams[id] \in Team
           /\ \A i \in DOMAIN accounts : accounts[i] \in Users
<1>1. accounts \in Seq(Users) /\ teams \in Seq(Team)
  BY DEF TypeOK
<1>2. /\ Len(accounts) \in Nat /\ DOMAIN accounts = 1 .. Len(accounts)
      /\ Len(teams) \in Nat /\ DOMAIN teams = 1 .. Len(teams)
      /\ \A id \in DOMAIN teams : teams[id] \in Team
      /\ \A i \in DOMAIN accounts : accounts[i] \in Users
  BY <1>1
<1>3. Len(accounts) <= Cardinality(Users) /\ Cardinality(Users) \in Nat
  BY <1>1, InjectiveSeq, TeamSyncAssumption DEF Databases
<1> DEFINE names == [id \in 1 .. Len(teams) |-> teams[id].name]
<1>4. names \in Seq(TeamNames) /\ Len(names) = Len(teams)
  <2>1. \A id \in 1 .. Len(teams) : teams[id].name \in TeamNames
    BY <1>2 DEF Team
  <2> QED
    BY <1>2, <2>1
<1>5. IsInjective(names)
  BY <1>2 DEF Databases, IsInjective
<1>6. Len(teams) <= Cardinality(TeamNames) /\ Cardinality(TeamNames) \in Nat
  <2> HIDE DEF names
  <2> QED
    BY <1>4, <1>5, InjectiveSeq, TeamSyncAssumption
<1>7. DOMAIN accounts \subseteq UserIds
  BY <1>2, <1>3 DEF UserIds
<1>8. DOMAIN teams \subseteq TeamIds
  BY <1>2, <1>6 DEF TeamIds
<1> QED
  BY <1>2, <1>7, <1>8

\* While a name is free, so is an id.
LEMMA RoomForATeam ==
    ASSUME TypeOK, Databases, NEW name \in TeamNames, IdsNamed(name) = {}
    PROVE  Len(teams) + 1 \in TeamIds
<1> DEFINE names == [id \in 1 .. Len(teams) |-> teams[id].name]
<1>1. /\ Len(teams) \in Nat /\ DOMAIN teams = 1 .. Len(teams)
      /\ \A id \in DOMAIN teams : teams[id] \in Team
  BY IdsBounded
<1>2. names \in Seq(TeamNames \ {name}) /\ Len(names) = Len(teams)
  <2>1. \A id \in 1 .. Len(teams) : teams[id].name \in TeamNames \ {name}
    BY <1>1 DEF Team, IdsNamed
  <2> QED
    BY <1>1, <2>1
<1>3. IsInjective(names)
  BY <1>1 DEF Databases, IsInjective
<1>4. /\ IsFiniteSet(TeamNames \ {name})
      /\ Cardinality(TeamNames \ {name}) = Cardinality(TeamNames) - 1
  BY TeamSyncAssumption, FS_RemoveElement
<1>5. Cardinality(TeamNames) \in Nat
  BY TeamSyncAssumption, FS_CardinalityType
<1>6. Len(teams) <= Cardinality(TeamNames) - 1
  <2> HIDE DEF names
  <2> QED
    BY <1>2, <1>3, <1>4, InjectiveSeq
<1> QED
  BY <1>1, <1>5, <1>6 DEF TeamIds

\* What resolveTeam is called for: the team of the group in hand, or of the next
\* entry of the folder's list, which has one.
LEMMA WantedTypes ==
    ASSUME TypeOK, Control, pass.pc \in Resolving
    PROVE  /\ Wanted \in TeamNames
           /\ pass.folder = NoFolder => pass.group \in DOMAIN adToGrafana
           /\ pass.folder # NoFolder => /\ Head(pass.fps) \in Range(FolderPermissions)
                                        /\ Tail(pass.fps) \in Seq(Range(FolderPermissions))
<1>1. /\ pass.fps \in Seq(Range(FolderPermissions))
      /\ pass.group \in DOMAIN adToGrafana \cup {NoGroup}
  BY DEF TypeOK, Pass
<1>2. CASE pass.folder = NoFolder
  <2>1. pass.group \in DOMAIN adToGrafana
    BY <1>1, <1>2 DEF Control
  <2> QED
    BY <1>2, <2>1, Mapped DEF Wanted
<1>3. CASE pass.folder # NoFolder
  <2>1. pass.fps # <<>>
    BY <1>3 DEF Control
  <2>2. /\ Head(pass.fps) \in Range(FolderPermissions)
        /\ Tail(pass.fps) \in Seq(Range(FolderPermissions))
    BY <1>1, <2>1
  <2> QED
    BY <1>3, <2>2, Listed DEF Wanted
<1> QED
  BY <1>2, <1>3

\* Coming back from resolveTeam with an id, for a group or for a folder.
LEMMA ResolvedTypes ==
    ASSUME TypeOK, Control, pass.pc \in Resolving, NEW id \in TeamIds, Resolved(id)
    PROVE  pass' \in Pass
<1>1. CASE /\ pass.folder = NoFolder
           /\ pass' = [pass EXCEPT !.pc = "members", !.teamID = id]
  BY <1>1, Zenon DEF TypeOK, Pass
<1>2. ASSUME pass.folder # NoFolder,
             NEW perm, perm = [TeamID |-> id, Permission |-> permMap(Head(pass.fps).Permission)],
             pass' = [pass EXCEPT !.pc = "perms", !.teamID = 0, !.fps = Tail(@),
                                  !.newPerms = Append(@, perm)]
      PROVE  pass' \in Pass
  <2>1. perm \in Grant
    BY <1>2 DEF Grant, permMap
  <2>2. pass.newPerms \in Seq(Grant)
    BY DEF TypeOK, Pass
  <2>3. Append(pass.newPerms, perm) \in Seq(Grant)
    BY <2>1, <2>2
  <2>4. Tail(pass.fps) \in Seq(Range(FolderPermissions))
    BY <1>2, WantedTypes
  <2> QED
    BY <1>2, <2>3, <2>4, Zenon DEF TypeOK, Pass
<1> QED
  BY <1>1, <1>2, Zenon DEF Resolved

\* Coming back from resolveTeam with an error.
LEMMA GiveUpTypes ==
    ASSUME TypeOK, GiveUp
    PROVE  pass' \in Pass
<1>1. <<>> \in Seq(Range(FolderPermissions)) /\ <<>> \in Seq(Grant)
  OBVIOUS
<1>2. CASE pass' = [pass EXCEPT !.pc = "group", !.group = NoGroup]
  BY <1>2, Zenon DEF TypeOK, Pass
<1>3. CASE pass' = [pass EXCEPT !.pc = "folder", !.folder = NoFolder, !.fps = <<>>,
                                !.newPerms = <<>>]
  BY <1>1, <1>3, Zenon DEF TypeOK, Pass
<1> QED
  BY <1>2, <1>3, Zenon DEF GiveUp

LEMMA NoPassTypes == NoPass \in Pass
<1>1. <<>> \in Seq(Range(FolderPermissions)) /\ <<>> \in Seq(Grant)
  OBVIOUS
<1>2. [g \in {} |-> {}] \in Directory
  <2>1. [g \in {} |-> {}] \in [{} -> SUBSET Users]
    OBVIOUS
  <2> QED
    BY <2>1, Zenon DEF Directory
<1>3. 0 \in 0 .. Retries
  BY DEF Retries
<1> QED
  BY <1>1, <1>2, <1>3, Zenon DEF NoPass, Pass

\* The pass keeps its type, action by action.
LEMMA PassTypes ==
    ASSUME TypeInv, [Next]_vars
    PROVE  pass' \in Pass
<1> USE DEF TypeInv
<1>1. /\ pass \in Pass /\ ad \in Directory /\ accounts \in Seq(Users)
      /\ 0 \in 0 .. Retries
  BY DEF TypeOK, Retries
<1>2. CASE Begin
  BY <1>1, <1>2, Zenon DEF Begin, Pass
<1>3. CASE Search
  <2>1. DOMAIN ad \cap DOMAIN adToGrafana \in SUBSET DOMAIN adToGrafana
    OBVIOUS
  <2> QED
    BY <1>1, <1>3, <2>1, Zenon DEF Search, Pass
<1>4. CASE SearchFails
  BY <1>1, <1>4, Zenon DEF SearchFails, Pass
<1>5. ASSUME NEW g \in Groups, NextGroup(g)
      PROVE  pass' \in Pass
  <2>1. g \in pass.groups
    BY <1>5, Zenon DEF NextGroup
  <2>2. /\ pass.groups \in SUBSET DOMAIN adToGrafana /\ pass.entries \in Directory
        /\ g \in DOMAIN pass.entries
    BY <1>1, <2>1 DEF Pass, Control
  <2>3. pass.entries[g] \in SUBSET Users
    BY <2>2 DEF Directory
  <2>4. pass.groups \ {g} \in SUBSET DOMAIN adToGrafana /\ g \in DOMAIN adToGrafana
    BY <2>1, <2>2
  <2> QED
    BY <1>1, <1>5, <2>3, <2>4, Zenon DEF NextGroup, Pass
<1>6. ASSUME NEW u \in Users, LookupUser(u)
      PROVE  pass' \in Pass
  <2>1. pass.logins \ {u} \in SUBSET Users
    BY <1>1 DEF Pass
  <2>2. ASSUME u \in Range(accounts)
        PROVE  pass.desired \cup {IdOf(u)} \in SUBSET UserIds
    <3>1. IdOf(u) \in DOMAIN accounts
      BY <2>2 DEF IdOf, Range
    <3>2. pass.desired \in SUBSET UserIds
      BY <1>1 DEF Pass
    <3> QED
      BY <3>1, <3>2, IdsBounded
  <2>3. CASE /\ u \in Range(accounts)
             /\ pass' = [pass EXCEPT !.logins = @ \ {u}, !.desired = @ \cup {IdOf(u)}]
    BY <1>1, <2>1, <2>2, <2>3, Zenon DEF Pass
  <2>4. CASE pass' = [pass EXCEPT !.logins = pass.logins \ {u}]
    BY <1>1, <2>1, <2>4, Zenon DEF Pass
  <2> QED
    BY <1>6, <2>3, <2>4, Zenon DEF LookupUser, LookupUser_Then
<1>7. CASE LookupsDone
  BY <1>1, <1>7, Zenon DEF LookupsDone, Pass
<1>8. CASE GetTeamByName
  <2>1. pass.pc \in Resolving
    BY <1>8, Zenon DEF GetTeamByName, At, Resolving
  <2>2. IdsNamed(Wanted) \subseteq TeamIds
    BY IdsBounded DEF IdsNamed
  <2>3. ASSUME NEW id \in TeamIds, pass' = [pass EXCEPT !.pc = "verify", !.teamID = id]
        PROVE  pass' \in Pass
    BY <1>1, <2>3, Zenon DEF Pass
  <2>4. CASE pass' = [pass EXCEPT !.pc = "create"]
    BY <1>1, <2>4, Zenon DEF Pass
  <2>5. \/ \E id \in TeamIds : pass' = [pass EXCEPT !.pc = "verify", !.teamID = id]
        \/ pass' = [pass EXCEPT !.pc = "create"]
        \/ GiveUp
    BY <1>8, <2>2, Zenon DEF GetTeamByName
  <2> QED
    BY <2>3, <2>4, <2>5, GiveUpTypes, Zenon
<1>9. CASE GetTeam
  <2>1. pass.pc \in Resolving
    BY <1>9, Zenon DEF GetTeam, GetTeam_Among, At, Resolving
  <2>2. pass.teamID \in IdsNamed(Wanted) => pass.teamID \in TeamIds
    BY IdsBounded DEF IdsNamed
  <2>3. CASE pass' = [pass EXCEPT !.pc = "create", !.teamID = 0]
    BY <1>1, <2>3, Zenon DEF Pass
  <2>4. CASE pass.teamID \in IdsNamed(Wanted) /\ Resolved(pass.teamID)
    BY <2>1, <2>2, <2>4, ResolvedTypes
  <2> QED
    BY <1>9, <2>3, <2>4, Zenon DEF GetTeam, GetTeam_Among
<1>10. CASE CreateTeam
  <2>1. pass.pc \in Resolving
    BY <1>10, Zenon DEF CreateTeam, At, Resolving
  <2>2. CASE IdsNamed(Wanted) = {} /\ Resolved(Len(teams) + 1)
    <3>1. Len(teams) + 1 \in TeamIds
      BY <2>1, <2>2, WantedTypes, RoomForATeam
    <3> QED
      BY <2>1, <2>2, <3>1, ResolvedTypes
  <2> QED
    BY <1>10, <2>2, GiveUpTypes, Zenon DEF CreateTeam
<1>11. CASE GetTeamMembers
  <2>1. pass.teamID \in DOMAIN teams => teams[pass.teamID].members \in SUBSET UserIds
    BY IdsBounded DEF Team
  <2>2. pass.desired \in SUBSET UserIds
    BY <1>1 DEF Pass
  <2>3. ASSUME NEW A \in SUBSET UserIds, NEW R \in SUBSET UserIds,
               pass' = [pass EXCEPT !.pc = "apply", !.toAdd = A, !.toRemove = R]
        PROVE  pass' \in Pass
    BY <1>1, <2>3, Zenon DEF Pass
  <2>4. CASE pass' = [pass EXCEPT !.pc = "group", !.group = NoGroup, !.teamID = 0]
    BY <1>1, <2>4, Zenon DEF Pass
  <2>5. CASE /\ pass.teamID \in DOMAIN teams
             /\ pass' = [pass EXCEPT !.pc = "apply",
                                     !.toAdd = pass.desired \ teams[pass.teamID].members,
                                     !.toRemove = teams[pass.teamID].members \ pass.desired]
    <3>1. /\ pass.desired \ teams[pass.teamID].members \in SUBSET UserIds
          /\ teams[pass.teamID].members \ pass.desired \in SUBSET UserIds
      BY <2>1, <2>2, <2>5
    <3> QED
      BY <2>3, <2>5, <3>1, Zenon
  <2> QED
    BY <1>11, <2>4, <2>5, Zenon DEF GetTeamMembers, GetTeamMembers_Then
<1>12. ASSUME NEW id \in UserIds, AddTeamMember(id) \/ AddTeamMemberFails(id)
       PROVE  pass' \in Pass
  <2>1. pass.toAdd \ {id} \in SUBSET UserIds
    BY <1>1 DEF Pass
  <2>2. pass.attempt < Retries => pass.attempt + 1 \in 0 .. Retries
    BY <1>1 DEF Pass, Retries
  <2>3. CASE AddedOrGivenUp(id)
    BY <1>1, <2>1, <2>3, Zenon DEF AddedOrGivenUp, Pass
  <2>4. CASE pass.attempt < Retries /\ TriesAgain(id)
    BY <1>1, <1>12, <2>2, <2>4, Zenon DEF TriesAgain, Pass
  <2> QED
    BY <1>12, <2>3, <2>4, Zenon DEF AddTeamMember, AddTeamMemberFails
<1>13. ASSUME NEW id \in UserIds, RemoveTeamMember(id)
       PROVE  pass' \in Pass
  <2>1. pass.toRemove \ {id} \in SUBSET UserIds
    BY <1>1 DEF Pass
  <2> QED
    BY <1>1, <1>13, <2>1, Zenon DEF RemoveTeamMember, Pass
<1>14. CASE GroupDone
  BY <1>1, <1>14, Zenon DEF GroupDone, Pass
<1>15. CASE GroupsDone
  BY <1>1, <1>15, Zenon DEF GroupsDone, Pass
<1>16. ASSUME NEW f \in Folders, NextFolder(f)
       PROVE  pass' \in Pass
  <2>1. f \in pass.folders
    BY <1>16, Zenon DEF NextFolder
  <2>2. pass.folders \ {f} \in SUBSET ConfiguredFolders /\ f \in ConfiguredFolders
    BY <1>1, <2>1 DEF Pass
  <2>3. folderPerms[f] \in Seq(Range(FolderPermissions))
    BY <2>2, Listed
  <2>4. CASE pass' = [pass EXCEPT !.pc = "perms", !.folders = @ \ {f}, !.folder = f,
                                  !.fps = folderPerms[f]]
    BY <1>1, <2>2, <2>3, <2>4, Zenon DEF Pass
  <2>5. CASE pass' = [pass EXCEPT !.folders = @ \ {f}]
    BY <1>1, <2>2, <2>5, Zenon DEF Pass
  <2> QED
    BY <1>16, <2>4, <2>5, Zenon DEF NextFolder
<1>17. CASE NextPerm
  BY <1>1, <1>17, Zenon DEF NextPerm, Pass
<1>18. CASE UpdateFolderPermissions
  <2>1. <<>> \in Seq(Grant)
    OBVIOUS
  <2>2. pass' = [pass EXCEPT !.pc = "folder", !.folder = NoFolder, !.newPerms = <<>>]
    BY <1>18, Zenon DEF UpdateFolderPermissions
  <2> QED
    BY <1>1, <2>1, <2>2, Zenon DEF Pass
<1>19. CASE PassDone
  BY <1>1, <1>19, Zenon DEF PassDone, Pass
<1>20. CASE Exits
  BY <1>20, NoPassTypes, Zenon DEF Exits
<1>21. CASE UNCHANGED pass
  BY <1>1, <1>21
<1>22. ASSUME \/ AdChanges \/ (\E u \in Users : FirstVisit(u))
              \/ (\E f \in Folders : FolderAppears(f))
              \/ ReliabilityChanges \/ Wipe \/ UNCHANGED vars
       PROVE  UNCHANGED pass
  BY <1>22, Zenon DEF AdChanges, FirstVisit, FolderAppears, ReliabilityChanges, Wipe, vars
<1> QED
  BY <1>2, <1>3, <1>4, <1>5, <1>6, <1>7, <1>8, <1>9, <1>10, <1>11, <1>12, <1>13, <1>14,
     <1>15, <1>16, <1>17, <1>18, <1>19, <1>20, <1>21, <1>22, Zenon DEF Next, PassStep

-----------------------------------------------------------------------------
(***************************************************************************)
(* What a step may do to Grafana's teams and accounts.                     *)
(***************************************************************************)
\* Team t has the members M now.
SetsMembers(t, M) ==
    /\ t \in DOMAIN teams
    /\ teams' = [teams EXCEPT ![t].members = M]

\* The call that creates a team, whether or not its answer arrives.
TeamMade ==
    /\ At("create") /\ IdsNamed(Wanted) = {}
    /\ teams' = WithNewTeam
    /\ UNCHANGED <<accounts, wiped, disturbed>>

\* The calls that take somebody in and out, whether or not their answers arrive.
MemberJoins(id) ==
    /\ At("apply") /\ id \in pass.toAdd /\ CanJoin(id)
    /\ SetsMembers(pass.teamID, teams[pass.teamID].members \cup {id})
    /\ UNCHANGED <<accounts, wiped, disturbed>>

MemberLeaves(id) ==
    /\ At("apply") /\ id \in pass.toRemove
    /\ SetsMembers(pass.teamID, teams[pass.teamID].members \ {id})
    /\ UNCHANGED <<accounts, wiped, disturbed>>

\* Grafana's teams change by these calls, or with its database.
LEMMA TeamsChange ==
    ASSUME [Next]_vars
    PROVE  \/ UNCHANGED teams
           \/ Wipe
           \/ CreateTeam /\ TeamMade
           \/ \E id \in UserIds : \/ (AddTeamMember(id) \/ AddTeamMemberFails(id)) /\ MemberJoins(id)
                                  \/ RemoveTeamMember(id) /\ MemberLeaves(id)
<1>1. CASE CreateTeam
  BY <1>1, Zenon DEF CreateTeam, TeamMade, env, history
<1>2. ASSUME NEW id \in UserIds, AddTeamMember(id) \/ AddTeamMemberFails(id)
      PROVE  UNCHANGED teams \/ MemberJoins(id)
  <2>1. teams' = WithMember(id) => SetsMembers(pass.teamID, teams[pass.teamID].members \cup {id})
                                    \/ ~CanJoin(id)
    BY Zenon DEF WithMember, SetsMembers, CanJoin
  <2> QED
    BY <1>2, <2>1, Zenon
       DEF AddTeamMember, AddTeamMemberFails, AttemptFails, Adding, MemberJoins, env, history
<1>3. ASSUME NEW id \in UserIds, RemoveTeamMember(id)
      PROVE  UNCHANGED teams \/ MemberLeaves(id)
  BY <1>3, Zenon DEF RemoveTeamMember, MemberLeaves, SetsMembers, env, history
<1>4. ASSUME \/ Begin \/ Search \/ SearchFails \/ (\E g \in Groups : NextGroup(g))
             \/ (\E u \in Users : LookupUser(u)) \/ LookupsDone \/ GetTeamByName \/ GetTeam
             \/ GetTeamMembers \/ GroupDone \/ GroupsDone \/ (\E f \in Folders : NextFolder(f))
             \/ NextPerm \/ UpdateFolderPermissions \/ PassDone \/ AdChanges
             \/ (\E u \in Users : FirstVisit(u)) \/ (\E f \in Folders : FolderAppears(f))
             \/ ReliabilityChanges \/ Exits \/ UNCHANGED vars
      PROVE  UNCHANGED teams
  BY <1>4, Zenon DEF Begin, Search, SearchFails, NextGroup, LookupUser, LookupUser_Then,
     LookupsDone, GetTeamByName, GetTeam, GetTeam_Among, GetTeamMembers,
     GetTeamMembers_Then, GroupDone, GroupsDone, NextFolder, NextPerm,
     UpdateFolderPermissions, PassDone, AdChanges, FirstVisit, FolderAppears,
     ReliabilityChanges, Exits, grafanaDB, vars
<1> QED
  BY <1>1, <1>2, <1>3, <1>4, Zenon DEF Next, PassStep

\* Accounts appear with a first visit, and go with the database.
LEMMA AccountsChange ==
    ASSUME [Next]_vars
    PROVE  UNCHANGED accounts \/ Wipe \/ \E u \in Users : FirstVisit(u)
BY Zenon DEF Next, PassStep, Begin, Search, SearchFails, NextGroup, LookupUser,
   LookupUser_Then, LookupsDone, GetTeamByName, GetTeam, GetTeam_Among, CreateTeam,
   GetTeamMembers, GetTeamMembers_Then, AddTeamMember, AddTeamMemberFails,
   RemoveTeamMember, GroupDone, GroupsDone, NextFolder, NextPerm,
   UpdateFolderPermissions, PassDone, AdChanges, FolderAppears,
   ReliabilityChanges, Exits, env, vars

LEMMA MembersSet ==
    ASSUME teams \in Seq(Team), NEW t, NEW M \in SUBSET UserIds, SetsMembers(t, M)
    PROVE  /\ teams' \in Seq(Team) /\ DOMAIN teams' = DOMAIN teams
           /\ teams'[t].members = M
           /\ \A id \in DOMAIN teams : /\ teams'[id].name = teams[id].name
                                       /\ id # t => teams'[id] = teams[id]
<1>1. /\ Len(teams) \in Nat /\ DOMAIN teams = 1 .. Len(teams)
      /\ \A id \in DOMAIN teams : teams[id] \in Team
      /\ t \in DOMAIN teams
  BY DEF SetsMembers
<1> DEFINE T == [teams[t] EXCEPT !.members = M]
<1>2. T \in Team /\ T.name = teams[t].name /\ T.members = M
  BY <1>1 DEF Team
<1>3. teams' = [teams EXCEPT ![t] = T]
  BY Zenon DEF SetsMembers
<1> HIDE DEF T
<1>4. DOMAIN teams' = DOMAIN teams
  BY <1>3
<1>5. \A id \in DOMAIN teams : teams'[id] = IF id = t THEN T ELSE teams[id]
  BY <1>3
<1>6. teams' \in Seq(Team)
  BY <1>1, <1>2, <1>3
<1> QED
  BY <1>1, <1>2, <1>4, <1>5, <1>6

LEMMA TeamAdded ==
    ASSUME teams \in Seq(Team), NEW name \in TeamNames,
           teams' = Append(teams, [name |-> name, members |-> {}])
    PROVE  /\ teams' \in Seq(Team) /\ DOMAIN teams' = DOMAIN teams \cup {Len(teams) + 1}
           /\ Len(teams) + 1 \notin DOMAIN teams
           /\ \A id \in DOMAIN teams : teams'[id] = teams[id]
           /\ teams'[Len(teams) + 1] = [name |-> name, members |-> {}]
<1> DEFINE T == [name |-> name, members |-> {}]
<1>1. T \in Team
  BY DEF Team
<1>2. Len(teams) \in Nat /\ DOMAIN teams = 1 .. Len(teams)
  OBVIOUS
<1> HIDE DEF T
<1>3. /\ teams' \in Seq(Team) /\ Len(teams') = Len(teams) + 1
      /\ DOMAIN teams' = 1 .. Len(teams')
      /\ \A id \in 1 .. Len(teams) : teams'[id] = teams[id]
      /\ teams'[Len(teams) + 1] = T
  <2>1. teams' = Append(teams, T)
    BY DEF T
  <2> QED
    BY <1>1, <1>2, <2>1
<1> QED
  BY <1>2, <1>3 DEF T

LEMMA MembershipChange ==
    ASSUME TypeInv, NEW id \in UserIds, MemberJoins(id) \/ MemberLeaves(id)
    PROVE  /\ pass.teamID \in DOMAIN teams /\ UNCHANGED <<accounts, wiped, disturbed>>
           /\ teams' \in Seq(Team) /\ DOMAIN teams' = DOMAIN teams
           /\ \A t \in DOMAIN teams : /\ teams'[t].name = teams[t].name
                                      /\ t # pass.teamID => teams'[t] = teams[t]
           /\ teams'[pass.teamID].members \subseteq DOMAIN accounts
           /\ MemberJoins(id) =>
                teams'[pass.teamID].members = teams[pass.teamID].members \cup {id}
           /\ MemberLeaves(id) =>
                teams'[pass.teamID].members = teams[pass.teamID].members \ {id}
<1> USE DEF TypeInv
<1>1. teams \in Seq(Team)
  BY DEF TypeOK
<1>2. /\ pass.teamID \in DOMAIN teams /\ UNCHANGED <<accounts, wiped, disturbed>>
      /\ teams[pass.teamID].members \in SUBSET UserIds
      /\ teams[pass.teamID].members \subseteq DOMAIN accounts
  BY IdsBounded DEF MemberJoins, MemberLeaves, SetsMembers, Team, Databases
<1>3. ASSUME MemberJoins(id)
      PROVE  /\ SetsMembers(pass.teamID, teams[pass.teamID].members \cup {id})
             /\ id \in DOMAIN accounts
  BY <1>3, Zenon DEF MemberJoins, CanJoin
<1>4. ASSUME MemberLeaves(id)
      PROVE  SetsMembers(pass.teamID, teams[pass.teamID].members \ {id})
  BY <1>4, Zenon DEF MemberLeaves
<1>5. PICK M \in SUBSET UserIds :
        /\ M \subseteq DOMAIN accounts /\ SetsMembers(pass.teamID, M)
        /\ \/ MemberJoins(id) /\ M = teams[pass.teamID].members \cup {id}
           \/ MemberLeaves(id) /\ M = teams[pass.teamID].members \ {id}
  BY <1>2, <1>3, <1>4
<1>6. /\ teams' \in Seq(Team) /\ DOMAIN teams' = DOMAIN teams
      /\ teams'[pass.teamID].members = M
      /\ \A t \in DOMAIN teams : /\ teams'[t].name = teams[t].name
                                 /\ t # pass.teamID => teams'[t] = teams[t]
  BY <1>1, <1>5, MembersSet
<1>7. ASSUME MemberJoins(id)
      PROVE  teams'[pass.teamID].members = teams[pass.teamID].members \cup {id}
  BY <1>1, <1>2, <1>3, <1>7, MembersSet
<1>8. ASSUME MemberLeaves(id)
      PROVE  teams'[pass.teamID].members = teams[pass.teamID].members \ {id}
  BY <1>1, <1>2, <1>4, <1>8, MembersSet
<1> QED
  BY <1>2, <1>5, <1>6, <1>7, <1>8

\* Until Grafana loses its database, accounts and teams stay where they are.
LEMMA DataKept ==
    ASSUME TypeInv, [Next]_vars, ~Wipe
    PROVE  /\ DOMAIN accounts \subseteq DOMAIN accounts'
           /\ \A i \in DOMAIN accounts : accounts'[i] = accounts[i]
           /\ DOMAIN teams \subseteq DOMAIN teams'
           /\ \A id \in DOMAIN teams : teams'[id].name = teams[id].name
           /\ \A name : IdsNamed(name) \subseteq IdsNamed(name)'
<1>1. /\ DOMAIN accounts \subseteq DOMAIN accounts'
      /\ \A i \in DOMAIN accounts : accounts'[i] = accounts[i]
  <2>1. ASSUME NEW u \in Users, FirstVisit(u)
        PROVE  /\ DOMAIN accounts \subseteq DOMAIN accounts'
               /\ \A i \in DOMAIN accounts : accounts'[i] = accounts[i]
    <3>1. accounts' = Append(accounts, u)
      BY <2>1, Zenon DEF FirstVisit
    <3>2. accounts \in Seq(Users)
      BY DEF TypeInv, TypeOK
    <3> QED
      BY <3>1, <3>2
  <2> QED
    BY <2>1, AccountsChange, Zenon
<1>2. /\ DOMAIN teams \subseteq DOMAIN teams'
      /\ \A id \in DOMAIN teams : teams'[id].name = teams[id].name
  <2>1. teams \in Seq(Team)
    BY DEF TypeInv, TypeOK
  <2>2. CASE TeamMade
    <3>1. Wanted \in TeamNames
      BY <2>2, WantedTypes DEF TeamMade, At, Resolving, TypeInv
    <3> QED
      BY <2>1, <2>2, <3>1, TeamAdded DEF TeamMade, WithNewTeam
  <2>3. ASSUME NEW id \in UserIds, MemberJoins(id) \/ MemberLeaves(id)
        PROVE  /\ DOMAIN teams \subseteq DOMAIN teams'
               /\ \A t \in DOMAIN teams : teams'[t].name = teams[t].name
    BY <2>3, MembershipChange
  <2> QED
    BY <2>2, <2>3, TeamsChange, Zenon
<1> QED
  BY <1>1, <1>2 DEF IdsNamed

LEMMA DatabasesStep ==
    ASSUME TypeInv, [Next]_vars
    PROVE  /\ accounts' \in Seq(Users) /\ teams' \in Seq(Team)
           /\ Databases'
<1> USE DEF TypeInv
<1>1. accounts \in Seq(Users) /\ teams \in Seq(Team)
  BY DEF TypeOK
<1>2. accounts' \in Seq(Users) /\ IsInjective(accounts')
  <2>1. CASE UNCHANGED accounts
    BY <1>1, <2>1, Zenon DEF Databases
  <2>2. CASE Wipe
    <3>1. accounts' = <<>>
      BY <2>2, Zenon DEF Wipe
    <3> QED
      BY <3>1 DEF IsInjective
  <2>3. ASSUME NEW u \in Users, FirstVisit(u)
        PROVE  accounts' \in Seq(Users) /\ IsInjective(accounts')
    <3>1. accounts' = Append(accounts, u) /\ u \notin Range(accounts)
      BY <2>3, Zenon DEF FirstVisit
    <3>2. IsInjective(accounts) /\ DOMAIN accounts = 1 .. Len(accounts) /\ Len(accounts) \in Nat
      BY <1>1 DEF Databases
    <3>3. /\ accounts' \in Seq(Users) /\ DOMAIN accounts' = 1 .. (Len(accounts) + 1)
          /\ \A i \in 1 .. Len(accounts) : accounts'[i] = accounts[i] /\ accounts'[i] # u
          /\ accounts'[Len(accounts) + 1] = u
      BY <1>1, <3>1, <3>2 DEF Range
    <3> QED
      BY <3>2, <3>3 DEF IsInjective
  <2> QED
    BY <2>1, <2>2, <2>3, AccountsChange, Zenon
<1>3. CASE UNCHANGED teams
  <2>1. CASE Wipe
    BY <2>1, <1>2 DEF Wipe, Databases
  <2>2. CASE ~Wipe
    BY <1>1, <1>2, <1>3, <2>2, DataKept DEF Databases
  <2> QED
    BY <2>1, <2>2
<1>4. CASE Wipe
  <2>1. teams' = <<>>
    BY <1>4, Zenon DEF Wipe
  <2> QED
    BY <1>2, <2>1 DEF Databases
<1>5. CASE TeamMade
  <2>1. Wanted \in TeamNames
    BY <1>5, WantedTypes DEF TeamMade, At, Resolving
  <2>2. teams' = Append(teams, [name |-> Wanted, members |-> {}])
    BY <1>5, Zenon DEF TeamMade, WithNewTeam
  <2> DEFINE new == Len(teams) + 1
  <2>3. /\ teams' \in Seq(Team) /\ DOMAIN teams' = DOMAIN teams \cup {new}
        /\ new \notin DOMAIN teams
        /\ \A id \in DOMAIN teams : teams'[id] = teams[id]
        /\ teams'[new] = [name |-> Wanted, members |-> {}]
    BY <1>1, <2>1, <2>2, TeamAdded
  <2>4. \A id \in DOMAIN teams : teams[id].name # Wanted
    BY <1>5 DEF TeamMade, IdsNamed
  <2>5. accounts' = accounts
    BY <1>5, Zenon DEF TeamMade
  <2> HIDE DEF new
  <2>6. teams'[new].name = Wanted /\ teams'[new].members = {}
    BY <2>3
  <2> QED
    BY <1>2, <2>3, <2>4, <2>5, <2>6 DEF Databases
<1>6. ASSUME NEW id \in UserIds, MemberJoins(id) \/ MemberLeaves(id)
      PROVE  teams' \in Seq(Team) /\ Databases'
  <2>1. /\ accounts' = accounts
        /\ teams' \in Seq(Team) /\ DOMAIN teams' = DOMAIN teams
        /\ teams'[pass.teamID].members \subseteq DOMAIN accounts
        /\ \A t \in DOMAIN teams : /\ teams'[t].name = teams[t].name
                                   /\ t # pass.teamID => teams'[t] = teams[t]
    BY <1>6, MembershipChange
  <2>2. \A t \in DOMAIN teams : teams'[t].members \subseteq DOMAIN accounts
    BY <2>1 DEF Databases
  <2> QED
    BY <1>2, <2>1, <2>2 DEF Databases
<1> QED
  BY <1>2, <1>3, <1>4, <1>5, <1>6, TeamsChange, Zenon

\* Who changes the other variables.
LEMMA OthersKept ==
    ASSUME [Next]_vars
    PROVE  /\ UNCHANGED reliable \/ ReliabilityChanges \/ Wipe
           /\ UNCHANGED ad \/ AdChanges
           /\ UNCHANGED titles \/ Wipe \/ \E f \in Folders : FolderAppears(f)
           /\ UNCHANGED granted \/ UpdateFolderPermissions \/ Wipe
           /\ UNCHANGED wiped \/ Begin \/ Exits \/ Wipe
           /\ UNCHANGED atStart \/ Begin \/ Exits
           /\ \/ UNCHANGED disturbed \/ Begin \/ Exits \/ ReliabilityChanges \/ Wipe
              \/ (\E g \in Groups : NextGroup(g)) \/ (\E f \in Folders : NextFolder(f))
<1> USE DEF env, grafanaDB, history, vars
<1>1. CASE Search \/ SearchFails \/ LookupsDone \/ GetTeamByName \/ GetTeam \/ GetTeamMembers
             \/ GroupDone \/ GroupsDone \/ NextPerm \/ PassDone
             \/ \E u \in Users : LookupUser(u)
  BY <1>1, Zenon DEF Search, SearchFails, LookupsDone, GetTeamByName, GetTeam,
     GetTeam_Among, GetTeamMembers, GetTeamMembers_Then, GroupDone, GroupsDone,
     NextPerm, PassDone, LookupUser, LookupUser_Then
<1>2. CASE CreateTeam \/ \E id \in UserIds :
             AddTeamMember(id) \/ AddTeamMemberFails(id) \/ RemoveTeamMember(id)
  BY <1>2, Zenon DEF CreateTeam, AddTeamMember, AddTeamMemberFails, RemoveTeamMember
<1>3. CASE Begin \/ Exits \/ Wipe \/ ReliabilityChanges
  BY <1>3, Zenon DEF Begin, Exits, Wipe, ReliabilityChanges
<1>4. CASE \/ AdChanges \/ (\E u \in Users : FirstVisit(u))
           \/ (\E f \in Folders : FolderAppears(f)) \/ UNCHANGED vars
  BY <1>4, Zenon DEF AdChanges, FirstVisit, FolderAppears
<1>5. CASE UpdateFolderPermissions \/ (\E g \in Groups : NextGroup(g))
             \/ (\E f \in Folders : NextFolder(f))
  BY <1>5, Zenon DEF UpdateFolderPermissions, NextGroup, NextFolder
<1> QED
  BY <1>1, <1>2, <1>3, <1>4, <1>5, Zenon DEF Next, PassStep

LEMMA TypeInit == Init => TypeInv
<1> SUFFICES ASSUME Init
             PROVE  TypeInv
  OBVIOUS
<1>1. pass = NoPass /\ pass \in Pass
  BY NoPassTypes, Zenon DEF Init
<1>2. accounts \in Seq(Users) /\ IsInjective(accounts)
  <2>1. PICK n \in 0 .. Cardinality(Users) : accounts \in Injection(1 .. n, Users)
    BY Zenon DEF Init
  <2>2. n \in Nat
    OBVIOUS
  <2> QED
    BY <2>1, <2>2 DEF Injection
<1>3. DOMAIN accounts \subseteq UserIds
  BY <1>2, InjectiveSeq, TeamSyncAssumption DEF UserIds
<1>4. teams = <<>> \/ \E t \in [name : TeamNames, members : SUBSET DOMAIN accounts] : teams = <<t>>
  BY Zenon DEF Init
<1>5. /\ teams \in Seq(Team)
      /\ \A i, j \in DOMAIN teams : i = j
      /\ \A id \in DOMAIN teams : teams[id].members \subseteq DOMAIN accounts
  <2>1. CASE teams = <<>>
    BY <2>1
  <2>2. ASSUME NEW t \in [name : TeamNames, members : SUBSET DOMAIN accounts], teams = <<t>>
        PROVE  /\ teams \in Seq(Team)
               /\ \A i, j \in DOMAIN teams : i = j
               /\ \A id \in DOMAIN teams : teams[id].members \subseteq DOMAIN accounts
    <3>1. t \in Team /\ t.members \subseteq DOMAIN accounts
      BY <1>3 DEF Team
    <3> HIDE DEF Team
    <3> QED
      BY <2>2, <3>1
  <2> QED
    BY <1>4, <2>1, <2>2
<1>6. Databases
  BY <1>2, <1>5 DEF Databases
<1>7. /\ reliable \in BOOLEAN /\ ad \in Directory /\ titles \in SUBSET Folders
      /\ disturbed \in SUBSET (Groups \cup Folders) /\ wiped \in BOOLEAN
      /\ atStart \in [users : SUBSET Users, folders : SUBSET Folders]
  BY DEF Init, NobodyYet
<1>8. granted \in [Folders -> Seq(Grant)]
  <2>1. <<>> \in Seq(Grant)
    OBVIOUS
  <2> QED
    BY <2>1, Zenon DEF Init
<1> QED
  BY <1>1, <1>2, <1>5, <1>6, <1>7, <1>8, ControlInit, Zenon DEF TypeInv, TypeOK

LEMMA InHandType ==
    ASSUME TypeOK
    PROVE  InHand \subseteq Groups \cup Folders
<1>1. /\ pass.group \in DOMAIN adToGrafana \cup {NoGroup}
      /\ pass.folder \in ConfiguredFolders \cup {NoFolder}
  BY DEF TypeOK, Pass
<1> QED
  BY <1>1, Mapped, Listed DEF InHand

LEMMA TypeStep ==
    ASSUME TypeInv, [Next]_vars
    PROVE  TypeInv'
<1> USE DEF TypeInv
<1>1. Databases' /\ Control' /\ pass' \in Pass /\ accounts' \in Seq(Users) /\ teams' \in Seq(Team)
  BY DatabasesStep, ControlStep, PassTypes
<1>2. reliable' \in BOOLEAN
  BY OthersKept DEF TypeOK, ReliabilityChanges, Wipe
<1>3. ad' \in Directory
  BY OthersKept, Zenon DEF TypeOK, AdChanges
<1>4. titles' \in SUBSET Folders
  <2>1. titles \in SUBSET Folders
    BY DEF TypeOK
  <2>2. UNCHANGED titles \/ titles' = {} \/ \E f \in Folders : titles' = titles \cup {f}
    BY OthersKept, Zenon DEF Wipe, FolderAppears
  <2> QED
    BY <2>1, <2>2
<1>5. granted' \in [Folders -> Seq(Grant)]
  <2>1. granted \in [Folders -> Seq(Grant)]
    BY DEF TypeOK
  <2>2. ASSUME UpdateFolderPermissions, ~UNCHANGED granted
        PROVE  granted' \in [Folders -> Seq(Grant)]
    <3>1. granted' = [granted EXCEPT ![pass.folder] = pass.newPerms]
      BY <2>2, Zenon DEF UpdateFolderPermissions
    <3>2. pass.newPerms \in Seq(Grant)
      BY DEF TypeOK, Pass
    <3> QED
      BY <2>1, <3>1, <3>2
  <2>3. ASSUME Wipe
        PROVE  granted' \in [Folders -> Seq(Grant)]
    <3>1. granted' = [f \in Folders |-> <<>>] /\ <<>> \in Seq(Grant)
      BY <2>3 DEF Wipe
    <3> QED
      BY <3>1, Zenon
  <2> QED
    BY <2>1, <2>2, <2>3, OthersKept
<1>6. disturbed' \in SUBSET (Groups \cup Folders)
  <2>1. disturbed \in SUBSET (Groups \cup Folders)
    BY DEF TypeOK
  <2>2. \/ UNCHANGED disturbed \/ disturbed' = {} \/ disturbed' = disturbed \cup InHand
        \/ \E x \in Groups \cup Folders : disturbed' = disturbed \cup IfUnreliable({x})
    BY OthersKept, Zenon DEF Begin, Exits, ReliabilityChanges, Wipe, NextGroup, NextFolder
  <2> QED
    BY <2>1, <2>2, InHandType DEF IfUnreliable
<1>7. wiped' \in BOOLEAN
  BY OthersKept DEF TypeOK, Begin, Exits, Wipe
<1>8. atStart' \in [users : SUBSET Users, folders : SUBSET Folders]
  <2>1. CASE Begin
    <3>1. atStart' = [users |-> Range(accounts), folders |-> titles]
      BY <2>1, Zenon DEF Begin
    <3>2. Range(accounts) \in SUBSET Users /\ titles \in SUBSET Folders
      BY IdsBounded DEF Range, TypeOK
    <3> QED
      BY <3>1, <3>2
  <2>2. CASE Exits
    BY <2>2 DEF Exits, NobodyYet
  <2> QED
    BY <2>1, <2>2, OthersKept DEF TypeOK
<1> QED
  BY <1>1, <1>2, <1>3, <1>4, <1>5, <1>6, <1>7, <1>8, Zenon DEF TypeOK

\* Types, databases and control, at every moment of every pass.
LEMMA TypeInvariance == Spec => []TypeInv
<1>1. Init => TypeInv
  BY TypeInit
<1>2. TypeInv /\ [Next]_vars => TypeInv'
  BY TypeStep
<1> QED
  BY <1>1, <1>2, PTL DEF Spec

\* The ids a pass works with are those of a team or of an account, it has a team
\* to resolve whenever it resolves one, and it makes a fourth attempt at nothing.
THEOREM TypeCorrect == Spec => []TypeOK
<1>1. TypeInv => TypeOK
  BY DEF TypeInv
<1> QED
  BY <1>1, TypeInvariance, PTL

====
