------------------------------ MODULE TeamSync ------------------------------
(***************************************************************************)
(* One sync pass, syncOnce in internal/sync/sync.go, with the Grafana API  *)
(* calls of internal/grafana/client.go: one action per call, so that the   *)
(* directory, Grafana and its users can change between any two of them.    *)
(*                                                                         *)
(* Passes exclude each other (runMu).  Any call may fail, or succeed and   *)
(* lose its answer; Savras may exit in the middle of a pass, since nobody  *)
(* waits for it; Grafana may restart with an empty database and hand out   *)
(* the same ids again.  Go's map iteration order, and the order of LDAP    *)
(* entries, are arbitrary.                                                 *)
(***************************************************************************)
EXTENDS Integers, Sequences, FiniteSets, Functions

CONSTANTS
    Users,              \* logins, as AD and Grafana know them
    Groups,             \* AD groups the search may return
    TeamNames,          \* names of Grafana teams
    Folders,            \* titles of Grafana folders
    GroupsMapping,      \* cfg.Sync.GroupsMapping, records ADGroup, GrafanaTeam
    FolderPermissions,  \* cfg.Sync.FolderPermissions, records Folder, Team, Permission
    NoGroup,            \* no AD group is being synced
    NoFolder            \* no folder is being synced

ASSUME TeamSyncAssumption ==
    /\ IsFiniteSet(Users) /\ IsFiniteSet(TeamNames)
    /\ GroupsMapping \in Seq([ADGroup : Groups, GrafanaTeam : TeamNames])
    /\ FolderPermissions \in
         Seq([Folder : Folders, Team : TeamNames, Permission : STRING])
    /\ {NoGroup, NoFolder} \cap (Groups \cup Folders) = {}

VARIABLES
    \* The surroundings.
    reliable,           \* every call is answered, correctly
    ad,                 \* the directory: the groups there are, with their members
    accounts,           \* Grafana's users; a user's id is its place here
    titles,             \* the folders somebody has made in Grafana
    teams,              \* Grafana's teams; a team's id is its place here
    granted,            \* the permissions on each folder
    \* The local variables of syncOnce and of the functions it calls.
    pass,
    \* History of the pass.
    disturbed,          \* groups and folders whose turn met unreliable calls
    wiped,              \* Grafana has lost its database since it began
    atStart             \* users with an account, and folders, when it began

env       == <<reliable, ad, accounts, titles>>
grafanaDB == <<teams, granted>>
history   == <<disturbed, wiped, atStart>>
vars      == <<env, grafanaDB, pass, history>>

-----------------------------------------------------------------------------
(***************************************************************************)
(* Configuration.                                                          *)
(***************************************************************************)
\* The map adToGrafana: a later entry for the same group overwrites.
adToGrafana ==
    [g \in {GroupsMapping[i].ADGroup : i \in DOMAIN GroupsMapping} |->
        LET last == CHOOSE i \in DOMAIN GroupsMapping :
                      /\ GroupsMapping[i].ADGroup = g
                      /\ \A j \in DOMAIN GroupsMapping :
                           GroupsMapping[j].ADGroup = g => j <= i
        IN  GroupsMapping[last].GrafanaTeam]

ConfiguredFolders ==
    {FolderPermissions[i].Folder : i \in DOMAIN FolderPermissions}

EntriesOf(f) == {i \in DOMAIN FolderPermissions : FolderPermissions[i].Folder = f}

\* The map folderPerms: the entries of each folder, in the order of the list.
folderPerms ==
    [f \in ConfiguredFolders |->
        [n \in 1 .. Cardinality(EntriesOf(f)) |->
            LET nth == CHOOSE i \in EntriesOf(f) :
                         Cardinality({j \in EntriesOf(f) : j <= i}) = n
            IN  FolderPermissions[nth]]]

\* permMap of UpdateFolderPermissions; what it does not know becomes View.
permMap(p) == IF p = "Edit" THEN 2 ELSE IF p = "Admin" THEN 4 ELSE 1

Retries == 2            \* len(backoff) in addTeamMemberWithRetry

-----------------------------------------------------------------------------
(***************************************************************************)
(* Grafana's data, and the pass.                                           *)
(***************************************************************************)
UserIds == 1 .. Cardinality(Users)
TeamIds == 1 .. Cardinality(TeamNames)

IdOf(u) == CHOOSE i \in DOMAIN accounts : accounts[i] = u

IdsNamed(name) == {i \in DOMAIN teams : teams[i].name = name}

Directory == UNION {[gs -> SUBSET Users] : gs \in SUBSET Groups}

Team  == [name : TeamNames, members : SUBSET UserIds]
Grant == [TeamID : TeamIds, Permission : {1, 2, 4}]

Pass ==
    [pc       : {"idle", "ldap", "group", "lookup", "search", "verify", "create",
                 "members", "apply", "folder", "perms", "done"},
     entries  : Directory,                              \* sr.Entries
     groups   : SUBSET DOMAIN adToGrafana,              \* entries still to visit
     group    : DOMAIN adToGrafana \cup {NoGroup},      \* adGroup
     logins   : SUBSET Users,                           \* still to be looked up
     desired  : SUBSET UserIds,
     teamID   : TeamIds \cup {0},                       \* as far as resolved
     toAdd    : SUBSET UserIds,                         \* desired - current
     toRemove : SUBSET UserIds,                         \* current - desired
     adding   : UserIds \cup {0},                       \* addTeamMemberWithRetry
     attempt  : 0 .. Retries,
     folders  : SUBSET ConfiguredFolders,               \* still to visit
     folder   : ConfiguredFolders \cup {NoFolder},      \* folderName
     fps      : Seq(Range(FolderPermissions)),          \* still to be resolved
     newPerms : Seq(Grant)]

At(pc) == pass.pc = pc

\* The team resolveTeam is asked for: a group's, or the next of a folder's list.
Wanted == IF pass.folder = NoFolder THEN adToGrafana[pass.group]
                                    ELSE Head(pass.fps).Team

TypeOK ==
    /\ reliable \in BOOLEAN
    /\ ad \in Directory
    /\ accounts \in Seq(Users)
    /\ titles \in SUBSET Folders
    /\ teams \in Seq(Team)
    /\ granted \in [Folders -> Seq(Grant)]
    /\ pass \in Pass
    /\ disturbed \in SUBSET (Groups \cup Folders)
    /\ wiped \in BOOLEAN
    /\ atStart \in [users : SUBSET Users, folders : SUBSET Folders]

NoPass ==
    [pc |-> "idle", entries |-> [g \in {} |-> {}], groups |-> {}, group |-> NoGroup,
     logins |-> {}, desired |-> {}, teamID |-> 0, toAdd |-> {}, toRemove |-> {},
     adding |-> 0, attempt |-> 0, folders |-> {}, folder |-> NoFolder, fps |-> <<>>,
     newPerms |-> <<>>]

NobodyYet == [users |-> {}, folders |-> {}]

\* Savras starts beside a Grafana that may hold accounts, folders, and a team
\* somebody has put members into.
Init ==
    /\ reliable = TRUE
    /\ ad \in Directory
    /\ accounts \in UNION {Injection(1 .. n, Users) : n \in 0 .. Cardinality(Users)}
    /\ teams \in {<<>>} \cup
         {<<t>> : t \in [name : TeamNames, members : SUBSET DOMAIN accounts]}
    /\ titles \in SUBSET Folders
    /\ granted = [f \in Folders |-> <<>>]
    /\ pass = NoPass
    /\ disturbed = {} /\ wiped = FALSE /\ atStart = NobodyYet

-----------------------------------------------------------------------------
(***************************************************************************)
(* The pass: LDAP, and the loop over the groups.                           *)
(***************************************************************************)
\* syncOnce gets runMu: from Start, the ticker, SyncNow or the queue.
Begin ==
    /\ pass.pc \in {"idle", "done"}
    /\ pass' = [pass EXCEPT !.pc = "ldap"]
    /\ disturbed' = {}
    /\ wiped' = FALSE
    /\ atStart' = [users |-> Range(accounts), folders |-> titles]
    /\ UNCHANGED <<env, grafanaDB>>

\* Dial, Bind and Search: one reply with all groups, mapped or not.
Search ==
    /\ At("ldap")
    /\ pass' = [pass EXCEPT !.pc = "group", !.entries = ad,
                            !.groups = DOMAIN ad \cap DOMAIN adToGrafana]
    /\ UNCHANGED <<env, grafanaDB, history>>

\* Any of the three fails: the pass is over before it has changed anything.
SearchFails ==
    /\ At("ldap")
    /\ ~reliable
    /\ pass' = [pass EXCEPT !.pc = "idle"]
    /\ UNCHANGED <<env, grafanaDB, history>>

\* For the history: the groups and folders an unreliable call may concern.
IfUnreliable(S) == IF reliable THEN {} ELSE S

InHand == {pass.group, pass.folder} \ {NoGroup, NoFolder}

NextGroup(g) ==
    /\ At("group")
    /\ g \in pass.groups
    /\ pass' = [pass EXCEPT !.pc = "lookup", !.group = g, !.groups = @ \ {g},
                            !.logins = pass.entries[g], !.desired = {}]
    /\ disturbed' = disturbed \cup IfUnreliable({g})
    /\ UNCHANGED <<env, grafanaDB, wiped, atStart>>

\* LookupUser: an account, "not found", or an error, which is taken as the same
\* and leaves the logins that remain to be looked up, missed, as they are.
LookupUser_Then(u, missed) ==
    /\ At("lookup")
    /\ u \in pass.logins
    /\ \/ /\ u \in Range(accounts)
          /\ pass' = [pass EXCEPT !.logins = @ \ {u}, !.desired = @ \cup {IdOf(u)}]
       \/ /\ u \notin Range(accounts) \/ ~reliable
          /\ pass' = [pass EXCEPT !.logins = missed]
    /\ UNCHANGED <<env, grafanaDB, history>>

LookupUser_StopsAtFirstMiss(u) == LookupUser_Then(u, {})

LookupUser(u) == LookupUser_Then(u, pass.logins \ {u})

LookupsDone ==
    /\ At("lookup")
    /\ pass.logins = {}
    /\ pass' = [pass EXCEPT !.pc = "search"]
    /\ UNCHANGED <<env, grafanaDB, history>>

-----------------------------------------------------------------------------
(***************************************************************************)
(* resolveTeam.                                                            *)
(***************************************************************************)
\* It returns id to its caller, syncOnce or syncFolderPermissions.
Resolved(id) ==
    \/ /\ pass.folder = NoFolder
       /\ pass' = [pass EXCEPT !.pc = "members", !.teamID = id]
    \/ /\ pass.folder # NoFolder
       /\ LET perm == [TeamID |-> id, Permission |-> permMap(Head(pass.fps).Permission)]
          IN  pass' = [pass EXCEPT !.pc = "perms", !.teamID = 0, !.fps = Tail(@),
                                   !.newPerms = Append(@, perm)]

GiveUp_EndsThePass ==
    pass' = [pass EXCEPT !.pc = "folder", !.group = NoGroup, !.folder = NoFolder,
                         !.fps = <<>>, !.newPerms = <<>>]

\* It returns an error: the caller logs it and goes on with the next group, or
\* leaves the whole folder alone and goes on with the next folder.
GiveUp ==
    \/ /\ pass.folder = NoFolder
       /\ pass' = [pass EXCEPT !.pc = "group", !.group = NoGroup]
    \/ /\ pass.folder # NoFolder
       /\ pass' = [pass EXCEPT !.pc = "folder", !.folder = NoFolder, !.fps = <<>>,
                               !.newPerms = <<>>]

\* GetTeamByName asks the search index, which may be out of date: it may miss a
\* team, and may name an id that is gone or by now belongs to another team.
GetTeamByName ==
    /\ At("search")
    /\ \/ \E id \in IF reliable THEN IdsNamed(Wanted) ELSE TeamIds :
            pass' = [pass EXCEPT !.pc = "verify", !.teamID = id]
       \/ /\ IdsNamed(Wanted) = {} \/ ~reliable
          /\ pass' = [pass EXCEPT !.pc = "create"]
       \/ ~reliable /\ GiveUp
    /\ UNCHANGED <<env, grafanaDB, history>>

\* GetTeam, the detail API: the id is used only if it is among the right ones;
\* an error is taken for a team that does not exist.
GetTeam_Among(right) ==
    /\ At("verify")
    /\ \/ pass.teamID \in right /\ Resolved(pass.teamID)
       \/ /\ pass.teamID \notin right \/ ~reliable
          /\ pass' = [pass EXCEPT !.pc = "create", !.teamID = 0]
    /\ UNCHANGED <<env, grafanaDB, history>>

GetTeam_NameNotCompared == GetTeam_Among(DOMAIN teams)

GetTeam == GetTeam_Among(IdsNamed(Wanted))

\* Grafana takes a new team unless the name is taken.
WithNewTeam == Append(teams, [name |-> Wanted, members |-> {}])

\* An error does not mean that there is no new team.
CreateTeam ==
    /\ At("create")
    /\ \/ /\ IdsNamed(Wanted) = {}
          /\ teams' = WithNewTeam
          /\ Resolved(Len(teams) + 1)
       \/ /\ IdsNamed(Wanted) = {}
          /\ ~reliable
          /\ teams' \in {teams, WithNewTeam}
          /\ GiveUp
       \/ /\ IdsNamed(Wanted) # {}
          /\ GiveUp
          /\ UNCHANGED teams
    /\ UNCHANGED <<env, granted, history>>

-----------------------------------------------------------------------------
(***************************************************************************)
(* The members of one team.                                                *)
(***************************************************************************)
\* The current members, of whom those in kept are not to be removed.
GetTeamMembers_Then(kept) ==
    /\ At("members")
    /\ \/ /\ pass.teamID \in DOMAIN teams
          /\ LET current == teams[pass.teamID].members
             IN  pass' = [pass EXCEPT !.pc = "apply", !.toAdd = pass.desired \ current,
                                      !.toRemove = current \ kept]
       \/ /\ pass.teamID \notin DOMAIN teams \/ ~reliable
          /\ pass' = [pass EXCEPT !.pc = "group", !.group = NoGroup, !.teamID = 0]
    /\ UNCHANGED <<env, grafanaDB, history>>

GetTeamMembers_NoRemovals == GetTeamMembers_Then(UserIds)

GetTeamMembers == GetTeamMembers_Then(pass.desired)

\* Grafana takes a member if team and user exist and it is not one already.
CanJoin(id) ==
    /\ pass.teamID \in DOMAIN teams
    /\ id \in DOMAIN accounts
    /\ id \notin teams[pass.teamID].members

WithMember(id) == [teams EXCEPT ![pass.teamID].members = @ \cup {id}]

\* addTeamMemberWithRetry stays with one user until it gives up.
Adding(id) ==
    /\ At("apply")
    /\ id \in pass.toAdd
    /\ pass.adding \in {0, id}

\* An attempt fails, perhaps after it has had its effect.
AttemptFails(id) ==
    \/ /\ ~CanJoin(id)
       /\ UNCHANGED teams
    \/ /\ CanJoin(id)
       /\ ~reliable
       /\ teams' \in {teams, WithMember(id)}

AddedOrGivenUp(id) ==
    pass' = [pass EXCEPT !.toAdd = @ \ {id}, !.adding = 0, !.attempt = 0]

TriesAgain(id) ==
    pass' = [pass EXCEPT !.adding = id, !.attempt = @ + 1]

AddTeamMember(id) ==
    /\ Adding(id)
    /\ CanJoin(id)
    /\ teams' = WithMember(id)
    /\ AddedOrGivenUp(id)
    /\ UNCHANGED <<env, granted, history>>

AddTeamMemberFails_OneTooMany(id) ==
    /\ Adding(id)
    /\ AttemptFails(id)
    /\ IF pass.attempt <= Retries THEN TriesAgain(id) ELSE AddedOrGivenUp(id)
    /\ UNCHANGED <<env, granted, history>>

AddTeamMemberFails_KeepsTrying(id) ==
    /\ Adding(id)
    /\ AttemptFails(id)
    /\ IF pass.attempt < Retries THEN TriesAgain(id) ELSE UNCHANGED pass
    /\ UNCHANGED <<env, granted, history>>

\* Three attempts in all; the error of the last one is logged.
AddTeamMemberFails(id) ==
    /\ Adding(id)
    /\ AttemptFails(id)
    /\ IF pass.attempt < Retries THEN TriesAgain(id) ELSE AddedOrGivenUp(id)
    /\ UNCHANGED <<env, granted, history>>

\* One attempt, after all the adds; its error is only logged.
RemoveTeamMember(id) ==
    /\ At("apply")
    /\ pass.toAdd = {}
    /\ id \in pass.toRemove
    /\ pass' = [pass EXCEPT !.toRemove = @ \ {id}]
    /\ \/ /\ pass.teamID \in DOMAIN teams
          /\ teams' = [teams EXCEPT ![pass.teamID].members = @ \ {id}]
       \/ /\ pass.teamID \notin DOMAIN teams \/ ~reliable
          /\ UNCHANGED teams
    /\ UNCHANGED <<env, granted, history>>

GroupDone ==
    /\ At("apply")
    /\ pass.toAdd = {} /\ pass.toRemove = {}
    /\ pass' = [pass EXCEPT !.pc = "group", !.group = NoGroup, !.teamID = 0,
                            !.desired = {}]
    /\ UNCHANGED <<env, grafanaDB, history>>

GroupsDone ==
    /\ At("group")
    /\ pass.groups = {}
    /\ pass' = [pass EXCEPT !.pc = "folder", !.folders = ConfiguredFolders]
    /\ UNCHANGED <<env, grafanaDB, history>>

-----------------------------------------------------------------------------
(***************************************************************************)
(* syncFolderPermissions.                                                  *)
(***************************************************************************)
\* GetFolderByTitle: a folder that is not among those listed is left alone, and
\* so is one whose list could not be fetched.
NextFolder(f) ==
    /\ At("folder")
    /\ f \in pass.folders
    /\ \/ /\ f \in titles
          /\ pass' = [pass EXCEPT !.pc = "perms", !.folders = @ \ {f}, !.folder = f,
                                  !.fps = folderPerms[f]]
       \/ /\ f \notin titles \/ ~reliable
          /\ pass' = [pass EXCEPT !.folders = @ \ {f}]
    /\ disturbed' = disturbed \cup IfUnreliable({f})
    /\ UNCHANGED <<env, grafanaDB, wiped, atStart>>

NextPerm_OneCallPerEntry ==
    /\ At("perms")
    /\ pass.fps # <<>>
    /\ pass' = [pass EXCEPT !.pc = "search", !.newPerms = <<>>]
    /\ granted' = IF pass.newPerms = <<>> THEN granted
                  ELSE [granted EXCEPT ![pass.folder] = pass.newPerms]
    /\ UNCHANGED <<env, teams, history>>

NextPerm ==
    /\ At("perms")
    /\ pass.fps # <<>>
    /\ pass' = [pass EXCEPT !.pc = "search"]
    /\ UNCHANGED <<env, grafanaDB, history>>

\* One call replaces all permissions of the folder, by its UID: one made anew
\* since a wipe may have another.
UpdateFolderPermissions ==
    /\ At("perms")
    /\ pass.fps = <<>>
    /\ \/ /\ pass.folder \in titles
          /\ granted' = [granted EXCEPT ![pass.folder] = pass.newPerms]
       \/ /\ pass.folder \notin titles \/ wiped \/ ~reliable
          /\ UNCHANGED granted
    /\ pass' = [pass EXCEPT !.pc = "folder", !.folder = NoFolder, !.newPerms = <<>>]
    /\ UNCHANGED <<env, teams, history>>

\* syncOnce returns nil and releases runMu.
PassDone ==
    /\ At("folder")
    /\ pass.folders = {}
    /\ pass' = [pass EXCEPT !.pc = "done"]
    /\ UNCHANGED <<env, grafanaDB, history>>

-----------------------------------------------------------------------------
(***************************************************************************)
(* The surroundings.                                                       *)
(***************************************************************************)
AdChanges ==
    /\ ad' \in Directory \ {ad}
    /\ UNCHANGED <<reliable, accounts, titles, grafanaDB, pass, history>>

\* Grafana makes an account on the first proxied request of a user.
FirstVisit(u) ==
    /\ u \notin Range(accounts)
    /\ accounts' = Append(accounts, u)
    /\ UNCHANGED <<reliable, ad, titles, grafanaDB, pass, history>>

\* Folders are made by hand or provisioned; Savras makes none.
FolderAppears(f) ==
    /\ f \notin titles
    /\ titles' = titles \cup {f}
    /\ UNCHANGED <<reliable, ad, accounts, grafanaDB, pass, history>>

ReliabilityChanges ==
    /\ reliable' = ~reliable
    /\ disturbed' = disturbed \cup InHand
    /\ UNCHANGED <<ad, accounts, titles, grafanaDB, pass, wiped, atStart>>

\* A restart that loses the database: ids start again from 1.
Wipe ==
    /\ accounts' = <<>>
    /\ titles' = {}
    /\ teams' = <<>>
    /\ granted' = [f \in Folders |-> <<>>]
    /\ reliable' = FALSE
    /\ disturbed' = disturbed \cup InHand
    /\ wiped' = TRUE
    /\ UNCHANGED <<ad, pass, atStart>>

\* Savras crashes, or main returns: worker.Stop does not wait for the pass.  What
\* the pass knew is gone, what it has done in Grafana stays.
Exits ==
    /\ pass.pc \notin {"idle", "done"}
    /\ pass' = NoPass
    /\ disturbed' = {} /\ wiped' = FALSE /\ atStart' = NobodyYet
    /\ UNCHANGED <<env, grafanaDB>>

PassStep ==
    \/ Search \/ SearchFails
    \/ \E g \in Groups : NextGroup(g)
    \/ \E u \in Users : LookupUser(u)
    \/ LookupsDone
    \/ GetTeamByName
    \/ GetTeam
    \/ CreateTeam
    \/ GetTeamMembers
    \/ \E id \in UserIds :
         AddTeamMember(id) \/ AddTeamMemberFails(id) \/ RemoveTeamMember(id)
    \/ GroupDone \/ GroupsDone
    \/ \E f \in Folders : NextFolder(f)
    \/ NextPerm \/ UpdateFolderPermissions
    \/ PassDone

Next ==
    \/ Begin
    \/ PassStep
    \/ AdChanges
    \/ \E u \in Users : FirstVisit(u)
    \/ \E f \in Folders : FolderAppears(f)
    \/ ReliabilityChanges
    \/ Wipe
    \/ Exits

(***************************************************************************)
(* The ticker starts passes for ever; every Grafana call has a timeout, and *)
(* those to LDAP, which have none, are taken to return.                    *)
(***************************************************************************)
Spec == Init /\ [][Next]_vars /\ WF_vars(Begin) /\ WF_vars(PassStep)

-----------------------------------------------------------------------------
(***************************************************************************)
(* Safety.                                                                 *)
(***************************************************************************)
MemberNames(id) == {accounts[i] : i \in teams[id].members}

\* AD groups in the directory d whose team no other group of d is mapped to;
\* when two groups share a team, the one visited last decides.
SoleGroups(d) ==
    LET mapped == DOMAIN d \cap DOMAIN adToGrafana
    IN  {g \in mapped :
            \A h \in mapped \ {g} : adToGrafana[h] # adToGrafana[g]}

\* The folder carries the configured list: right teams, right permissions.
GrantsMatch(f) ==
    /\ Len(granted[f]) = Len(folderPerms[f])
    /\ \A i \in DOMAIN granted[f] :
         /\ granted[f][i].TeamID \in IdsNamed(folderPerms[f][i].Team)
         /\ granted[f][i].Permission = permMap(folderPerms[f][i].Permission)

\* When a pass ends, every team whose turn met no failure has all members of
\* its AD group that had an account when the pass began, and nobody else, and
\* every such folder that was there has the configured permissions: whatever the
\* pass found, an earlier one that was cut off in the middle included, whatever AD
\* and the users did meanwhile, and whatever failed in the turn of another group
\* or folder.
UndisturbedAreSynced ==
    At("done") /\ ~wiped =>
        /\ \A g \in SoleGroups(pass.entries) \ disturbed :
             \E id \in IdsNamed(adToGrafana[g]) :
                /\ pass.entries[g] \cap atStart.users \subseteq MemberNames(id)
                /\ MemberNames(id) \subseteq pass.entries[g]
        /\ \A f \in (ConfiguredFolders \cap atStart.folders) \ disturbed : GrantsMatch(f)

\* However calls fail and whatever the search index says, nobody joins a team
\* unless the directory has them in a group mapped to that very team.  Only a
\* restart that reassigns ids in mid-pass can break this.
NoOutsiderJoins ==
    [][\A id \in DOMAIN teams \cap DOMAIN teams' :
         \A i \in teams'[id].members \ teams[id].members :
            ~wiped =>
                \E g \in DOMAIN pass.entries \cap DOMAIN adToGrafana :
                    /\ adToGrafana[g] = teams[id].name
                    /\ accounts[i] \in pass.entries[g]]_vars

Leavers(id) ==
    {accounts[i] : i \in IF id \in DOMAIN teams'
                         THEN teams[id].members \ teams'[id].members ELSE {}}

\* A turn that met no failure never takes a user out of a team while the
\* directory has them in its group, even for a moment.
NoMemberDropped ==
    [][pass.group # NoGroup /\ pass.group \notin disturbed' =>
         \A id \in DOMAIN teams : Leavers(id) \cap pass.entries[pass.group] = {}]_vars

\* A folder's permissions are only ever replaced by the complete configured
\* list, with every team resolved to a team of that name, however calls fail
\* in between: no team loses its access because another could not be resolved.
GrantsAreWhole ==
    [][\A f \in Folders :
         granted'[f] # granted[f] /\ ~wiped' => GrantsMatch(f)']_vars

(***************************************************************************)
(* Liveness.                                                               *)
(***************************************************************************)
\* Every pass ends, and runMu is released, even if no call ever succeeds.
PassEnds == At("ldap") ~> (At("idle") \/ At("done"))

InSync ==
    /\ \A g \in SoleGroups(ad) :
         \E id \in IdsNamed(adToGrafana[g]) :
            MemberNames(id) = ad[g] \cap Range(accounts)
    /\ \A f \in ConfiguredFolders \cap titles : GrantsMatch(f)

\* Once calls succeed, AD stays as it is and Savras stays up, Grafana comes to
\* agree with the directory and the configuration, and later passes leave it so:
\* whatever passes that failed, lost answers, met a wipe or were cut off by an
\* exit have left behind, and however late users and folders appear.
Converges ==
    (<>[]reliable /\ ~[]<><<AdChanges>>_vars /\ ~[]<><<Exits>>_vars) => <>[]InSync

(***************************************************************************)
(* What a comment of syncOnce says, and the code does not do.              *)
(***************************************************************************)
\* "Remove members not in AD group": only those.
RemovesOnlyOutsiders ==
    [][pass.group # NoGroup /\ ~wiped' =>
         \A id \in DOMAIN teams : Leavers(id) \cap pass.entries[pass.group] = {}]_vars

=============================================================================
