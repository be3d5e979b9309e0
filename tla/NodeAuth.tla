------------------------------ MODULE NodeAuth ------------------------------
(***************************************************************************)
(* API-key authentication in the LTP Rust node (nodes/ltp-rust-node/src/   *)
(* main.rs): AuthConfig at startup, the task that reloads AUTH_KEYS_FILE,  *)
(* the header check during the WebSocket upgrade and the key check of      *)
(* hello, interleaved with edits of the file.                              *)
(*                                                                         *)
(* A key stands for its `id: key` pair and a file for the set of its keys; *)
(* the hash of a file's content is taken to be collision free.             *)
(***************************************************************************)
EXTENDS Integers, FiniteSets

CONSTANTS
    Peers,       \* connections
    Keys,        \* api keys that clients present
    NoKey,       \* no key in the request headers
    Modes,       \* the AUTH_MODEs the node may be started in
    EnvKeys,     \* the keys in AUTH_KEYS
    Unreadable,  \* content of a file that cannot be read or parsed
    MaxEdits     \* bound: edits of the file

ASSUME AuthAssumption ==
    /\ Modes \subseteq {"none", "api_key", "jwt"}
    /\ EnvKeys \subseteq Keys
    /\ NoKey \notin Keys
    /\ \A S \in SUBSET Keys : Unreadable # S
    /\ MaxEdits \in Nat

Files == {Unreadable} \cup SUBSET Keys

VARIABLES
    mode,         \* AUTH_MODE
    file,         \* AUTH_KEYS_FILE as it is on disk
    keys,         \* AuthConfig.keys
    last_loaded,  \* AuthConfig.last_loaded_hash; Unreadable for none
    fail_closed,  \* AuthConfig.fail_closed
    keys_active,  \* the gauge auth_keys_active
    reload,       \* the reload task: [pc, map it has read]
    conn,         \* each connection: [pc, header key, key of hello]
    auth_failures,\* auth_failures_total
    edits,        \* edits of the file so far
    everListed    \* history: keys the file has listed while it was loadable

configVars == <<keys, last_loaded, fail_closed>>
authVars == <<mode, file, configVars, keys_active, reload, conn, auth_failures,
              edits, everListed>>

Resting == [pc |-> "sleep", map |-> {}]
NewConn == [pc |-> "accepted", header |-> NoKey, hello |-> NoKey]
ConnStates == {"accepted", "checked", "validating", "upgraded", "refused",
               "admitted", "unauthorized"}

\* The state is well formed.
AuthTypeOK ==
    /\ mode \in Modes
    /\ file \in Files
    /\ keys \subseteq Keys
    /\ last_loaded \in Files
    /\ fail_closed \in BOOLEAN
    /\ keys_active \in 0 .. Cardinality(Keys)
    /\ reload \in [pc : {"sleep", "loaded", "stored"}, map : SUBSET Keys]
    /\ conn \in [Peers -> [pc : ConnStates, header : Keys \cup {NoKey},
                           hello : Keys \cup {NoKey}]]
    /\ auth_failures \in 0 .. Cardinality(Peers)
    /\ edits \in 0 .. MaxEdits
    /\ everListed \subseteq Keys

\* AuthConfig::from_env with file content f: the file takes precedence, and
\* AUTH_KEYS is used, with fail_closed set, when it cannot be loaded.
FromEnv(f) ==
    IF f # Unreadable
    THEN [keys |-> f, last |-> f, closed |-> FALSE]
    ELSE [keys |-> EnvKeys, last |-> Unreadable, closed |-> TRUE]

AuthInit ==
    /\ mode \in Modes
    /\ file \in Files
    /\ keys = FromEnv(file).keys
    /\ last_loaded = FromEnv(file).last
    /\ fail_closed = FromEnv(file).closed
    /\ keys_active = Cardinality(keys)
    /\ reload = Resting
    /\ conn = [c \in Peers |-> NewConn]
    /\ auth_failures = 0
    /\ edits = 0
    /\ everListed = IF file = Unreadable THEN {} ELSE file

-----------------------------------------------------------------------------
(* The operator edits the file *)

EditFile(f) ==
    /\ edits < MaxEdits
    /\ f # file
    /\ file' = f
    /\ edits' = edits + 1
    /\ everListed' = everListed \cup (IF f = Unreadable THEN {} ELSE f)
    /\ UNCHANGED <<mode, configVars, keys_active, reload, conn, auth_failures>>

-----------------------------------------------------------------------------
(* The reload task *)

\* load_keys_file; a failure is counted and leaves the keys as they are.
LoadFile ==
    /\ reload.pc = "sleep"
    /\ file # Unreadable
    /\ reload' = [pc |-> "loaded", map |-> file]
    /\ UNCHANGED <<mode, file, configVars, keys_active, conn, auth_failures,
                   edits, everListed>>

\* Mutant: the hash is remembered, the map is not installed.
StoreKeysForgotten ==
    /\ reload.pc = "loaded"
    /\ IF reload.map # last_loaded
       THEN /\ last_loaded' = reload.map
            /\ reload' = [reload EXCEPT !.pc = "stored"]
            /\ UNCHANGED <<keys, keys_active>>
       ELSE /\ reload' = Resting
            /\ UNCHANGED <<keys, keys_active, last_loaded>>
    /\ UNCHANGED <<mode, file, fail_closed, conn, auth_failures, edits, everListed>>

\* A changed file replaces the keys, under the write lock.
StoreKeys ==
    /\ reload.pc = "loaded"
    /\ IF reload.map # last_loaded
       THEN /\ keys' = reload.map
            /\ keys_active' = Cardinality(reload.map)
            /\ last_loaded' = reload.map
            /\ reload' = [reload EXCEPT !.pc = "stored"]
       ELSE /\ reload' = Resting
            /\ UNCHANGED <<keys, keys_active, last_loaded>>
    /\ UNCHANGED <<mode, file, fail_closed, conn, auth_failures, edits, everListed>>

\* Only then is authentication opened.
OpenAuth ==
    /\ reload.pc = "stored"
    /\ fail_closed' = FALSE
    /\ reload' = Resting
    /\ UNCHANGED <<mode, file, keys, last_loaded, keys_active, conn,
                   auth_failures, edits, everListed>>

-----------------------------------------------------------------------------
(* A connection: the upgrade, then hello *)

Move(c, pc) == conn' = [conn EXCEPT ![c].pc = pc]
NodeUnchanged ==
    UNCHANGED <<mode, file, configVars, keys_active, reload, edits, everListed>>

\* The upgrade callback without authentication.
UpgradeOpen(c) ==
    /\ conn[c].pc = "accepted"
    /\ mode = "none"
    /\ Move(c, "upgraded")
    /\ NodeUnchanged
    /\ UNCHANGED auth_failures

\* authenticate_header, AuthMode::Jwt.
RefuseJwt(c) ==
    /\ conn[c].pc = "accepted"
    /\ mode = "jwt"
    /\ Move(c, "refused")
    /\ auth_failures' = auth_failures + 1
    /\ NodeUnchanged

\* authenticate_header, AuthMode::ApiKey: whether there are keys at all is
\* read first, fail_closed after it and the keys once more after that.
CheckEmpty(c, k) ==
    /\ conn[c].pc = "accepted"
    /\ mode = "api_key"
    /\ keys # {}
    /\ conn' = [conn EXCEPT ![c].pc = "checked", ![c].header = k]
    /\ NodeUnchanged
    /\ UNCHANGED auth_failures

RefuseEmpty(c, k) ==
    /\ conn[c].pc = "accepted"
    /\ mode = "api_key"
    /\ keys = {}
    /\ conn' = [conn EXCEPT ![c].pc = "refused", ![c].header = k]
    /\ auth_failures' = auth_failures + 1
    /\ NodeUnchanged

\* Mutant: fail_closed is not consulted.
CheckClosedNever(c) ==
    /\ conn[c].pc = "checked"
    /\ IF conn[c].header = NoKey
       THEN Move(c, "refused") /\ auth_failures' = auth_failures + 1
       ELSE Move(c, "validating") /\ UNCHANGED auth_failures
    /\ NodeUnchanged

CheckClosed(c) ==
    /\ conn[c].pc = "checked"
    /\ IF fail_closed \/ conn[c].header = NoKey
       THEN Move(c, "refused") /\ auth_failures' = auth_failures + 1
       ELSE Move(c, "validating") /\ UNCHANGED auth_failures
    /\ NodeUnchanged

\* validate_api_key answers Ok for every key, Ok(None) for an unknown one:
\* the upgrade goes through, and the identity found is not used again.
ValidateHeader(c) ==
    /\ conn[c].pc = "validating"
    /\ Move(c, "upgraded")
    /\ NodeUnchanged
    /\ UNCHANGED auth_failures

\* perform_handshake: the key in hello decides. A wrong one is rejected
\* without counting an authentication failure.
AuthHello(c, k) ==
    /\ conn[c].pc = "upgraded"
    /\ conn' = [conn EXCEPT ![c].pc = IF k \in keys THEN "admitted" ELSE "unauthorized",
                            ![c].hello = k]
    /\ NodeUnchanged
    /\ UNCHANGED auth_failures

-----------------------------------------------------------------------------
Reload == LoadFile \/ StoreKeys \/ OpenAuth

AuthNext ==
    \/ \E f \in Files : EditFile(f)
    \/ Reload
    \/ \E c \in Peers :
          \/ UpgradeOpen(c) \/ RefuseJwt(c) \/ CheckClosed(c) \/ ValidateHeader(c)
          \/ \E k \in Keys \cup {NoKey} : CheckEmpty(c, k) \/ RefuseEmpty(c, k)
          \/ \E k \in Keys : AuthHello(c, k)

AuthSpec == AuthInit /\ [][AuthNext]_authVars

\* The reload task runs at its interval for as long as the node is up.
AuthFairSpec == AuthSpec /\ WF_authVars(Reload)

-----------------------------------------------------------------------------
(* Properties *)

Admitted == {c \in Peers : conn[c].pc = "admitted"}

\* A key file that could not be read closes api_key authentication: however
\* startup, reloads and handshakes interleave, only keys that the file has
\* listed are ever admitted, never those of AUTH_KEYS in its place.
OnlyListedKeysAdmitted ==
    mode = "api_key" => \A c \in Admitted : conn[c].hello \in everListed

\* Rotation takes effect: once the file stays as it is and can be read, the
\* node comes to accept exactly its keys, with authentication open.
RotationTakesEffect ==
    \A f \in SUBSET Keys :
        <>[](file = f) => <>[](keys = f /\ ~fail_closed /\ keys_active = Cardinality(f))
=============================================================================
