---------------------------- MODULE MCLifecycle ----------------------------
(***************************************************************************)
(* Lifecycle for TLC.  The unit of lifetimes is a day; intervals           *)
(* have eight bits, and a minute is two, so that 64 of them wrap.          *)
(***************************************************************************)
EXTENDS Lifecycle, TLC

ParseDuration == ("24h" :> 1) @@ ("0s" :> 0)

\* The example's settings: HMAC, sync on, a local admin whose password is a
\* secret of the environment; but no interval.
Example ==
    [wellFormed |-> TRUE,
     file |-> [jwt_secret |-> "secret", jwt_expiry |-> "24h", enabled |-> TRUE,
               interval_minutes |-> 0, local_admin_username |-> "admin"],
     env  |-> [local_admin_password |-> "adminpw"]]

\* An RSA key from the environment, which the file does not mention; an expiry
\* from the environment that does not count for the same reason.
RSAFromEnv ==
    [wellFormed |-> TRUE,
     file |-> [jwt_secret |-> "secret"],
     env  |-> [jwt_private_key |-> "pem", jwt_expiry |-> "0s"]]

\* A key that is none, with a good one in JWT_PRIVATE_KEY that is not consulted;
\* an expiry that is no use.  Sync is off.
BadKey ==
    [wellFormed |-> TRUE,
     file |-> [jwt_secret |-> "secret", jwt_private_key |-> "garbage",
               jwt_expiry |-> "one day", enabled |-> FALSE],
     env  |-> [JWT_PRIVATE_KEY |-> "pem"]]

\* No key at all, and an admin without a password.
Keyless ==
    [wellFormed |-> TRUE,
     file |-> [local_admin_username |-> "admin", jwt_expiry |-> "24h"],
     env  |-> [k \in {} |-> ""]]

\* JWT_PRIVATE_KEY alone; sessions that are over before they begin; an interval
\* that wraps to a negative one.
Momentary ==
    [wellFormed |-> TRUE,
     file |-> [jwt_expiry |-> "24h", enabled |-> TRUE],
     env  |-> [JWT_PRIVATE_KEY |-> "pem", jwt_expiry |-> "0s", interval_minutes |-> 64]]

Broken ==
    [wellFormed |-> FALSE, file |-> [k \in {} |-> ""], env |-> [k \in {} |-> ""]]

AllSources == {Example, RSAFromEnv, BadKey, Keyless, Momentary, Broken}

\* Alice's password changes, and changes back.
Admin       == [username |-> "admin", password |-> "adminpw"]
Alice       == [username |-> "alice", password |-> "alicepw"]
Renewed     == [Alice EXCEPT !.password = "newpw"]
Typed       == {Admin, Alice}
AliceInEach == {{Alice}, {Renewed}}

=============================================================================
