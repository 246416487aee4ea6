------------------------------- MODULE Config -------------------------------
(***************************************************************************)
(* What LoadConfig of internal/config/config.go makes of the configuration *)
(* file, the environment and the defaults, and which key internal/auth/    *)
(* auth.go then signs with.  Only the settings some behaviour depends on.  *)
(*                                                                         *)
(* A source is what one process finds at its start: a record of file and   *)
(* env, functions from the names that are set to their values, and of      *)
(* wellFormed: the file is YAML and all values have the right types.       *)
(* In env the name of a setting stands for SAVRAS_ with the setting's path *)
(* in capitals; JWT_PRIVATE_KEY is a variable of its own.  Variables that  *)
(* are set to nothing count as not set, for viper and for the code.        *)
(***************************************************************************)
EXTENDS Integers

CONSTANTS
    Durations,          \* what ParseDuration makes of the texts it accepts
    DefaultLifetime,    \* 24 hours, in the same unit
    Minute,             \* time.Minute
    MaxDuration,        \* the largest time.Duration, 2^63 - 1 in the unit of Minute
    RSAKeys             \* the texts that are PEM blocks with an RSA key

ASSUME ConfigAssumption ==
    /\ \A text \in DOMAIN Durations : Durations[text] \in Int
    /\ "" \notin DOMAIN Durations
    /\ DefaultLifetime \in Nat \ {0}
    /\ Minute \in Nat \ {0}
    /\ MaxDuration \in Nat /\ 15 * Minute <= MaxDuration
    /\ "" \notin RSAKeys

Defaults == [enabled |-> FALSE, interval_minutes |-> 15]

\* A setting viper has never heard of, from the file or a default, is not
\* unmarshalled, whatever the environment says.
Unmarshal(src) ==
    [k \in DOMAIN src.file \cup DOMAIN Defaults |->
        IF k \in DOMAIN src.env THEN src.env[k]
        ELSE IF k \in DOMAIN src.file THEN src.file[k] ELSE Defaults[k]]

\* The sensitive fields: their variables are read once more, and always count.
\* (The LDAP password and the API token, on which nothing here depends, are two
\* more of them.)
Sensitive == {"jwt_secret", "jwt_private_key", "local_admin_password"}

Field(src, k) ==
    IF k \in Sensitive \cap DOMAIN src.env THEN src.env[k]
    ELSE IF k \in DOMAIN Unmarshal(src) THEN Unmarshal(src)[k] ELSE ""

Lifetime(src) ==
    LET text == Field(src, "jwt_expiry")
    IN  IF text \in DOMAIN Durations THEN Durations[text] ELSE DefaultLifetime

\* A product of Durations, in their width and sign.
Wrapped(n) == ((n + MaxDuration + 1) % (2 * (MaxDuration + 1))) - (MaxDuration + 1)

Interval_AsConfigured(src) == Wrapped(Field(src, "interval_minutes") * Minute)

\* Zero and less are replaced.  What is too large wraps, perhaps to zero or less.
Interval(src) ==
    IF Field(src, "interval_minutes") > 0
    THEN Wrapped(Field(src, "interval_minutes") * Minute)
    ELSE 15 * Minute

LoadConfig(src) ==
    [JwtSecret          |-> Field(src, "jwt_secret"),
     JwtPrivateKey      |-> Field(src, "jwt_private_key"),
     JwtExpiryDuration  |-> Lifetime(src),
     LocalAdminUsername |-> Field(src, "local_admin_username"),
     LocalAdminPassword |-> Field(src, "local_admin_password"),
     SyncEnabled        |-> Field(src, "enabled"),
     Interval           |-> Interval(src)]

\* "" is an error.  A text that is no key is one: JWT_PRIVATE_KEY is asked for
\* only if no key is configured at all.
getPrivateKey(src) ==
    LET configured == LoadConfig(src).JwtPrivateKey
        keyPEM == IF configured = "" /\ "JWT_PRIVATE_KEY" \in DOMAIN src.env
                  THEN src.env["JWT_PRIVATE_KEY"] ELSE configured
    IN  IF keyPEM \in RSAKeys THEN keyPEM ELSE ""

NoKey == [method |-> "none", text |-> ""]

\* RSA if there is a key, else HMAC if there is a secret.
SigningKey(src) ==
    IF getPrivateKey(src) # "" THEN [method |-> "RS256", text |-> getPrivateKey(src)]
    ELSE IF LoadConfig(src).JwtSecret # ""
         THEN [method |-> "HS256", text |-> LoadConfig(src).JwtSecret]
         ELSE NoKey

\* The local admin: both settings, and the login's credentials equal to them.
IsLocalAdmin(src, username, password) ==
    LET cfg == LoadConfig(src)
    IN  /\ cfg.LocalAdminUsername # "" /\ cfg.LocalAdminPassword # ""
        /\ cfg.LocalAdminUsername = username
        /\ cfg.LocalAdminPassword = password

=============================================================================
