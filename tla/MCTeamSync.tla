----------------------------- MODULE MCTeamSync -----------------------------
(***************************************************************************)
(* TeamSync for TLC.  The configurations have the shapes of                *)
(* config.example.yaml: one group per team, and a folder shared by teams.  *)
(***************************************************************************)
EXTENDS TeamSync, TLC

CONSTANTS g1, g2, devops, developer, shared

\* One mapped group; its folder lists two teams, one of them without a group,
\* with a permission UpdateFolderPermissions does not know.
OneGroup == <<[ADGroup |-> g1, GrafanaTeam |-> devops]>>

SharedFolder ==
    <<[Folder |-> shared, Team |-> devops,    Permission |-> "Edit"],
      [Folder |-> shared, Team |-> developer, Permission |-> "view"]>>

\* Two groups with a team each; an earlier entry of the list is overridden.
TwoGroups ==
    <<[ADGroup |-> g1, GrafanaTeam |-> developer],
      [ADGroup |-> g1, GrafanaTeam |-> devops],
      [ADGroup |-> g2, GrafanaTeam |-> developer]>>

\* Nothing tells one user from another.
UserSymmetry == Permutations(Users)

OwnFolder == <<[Folder |-> shared, Team |-> developer, Permission |-> "Admin"]>>

=============================================================================
