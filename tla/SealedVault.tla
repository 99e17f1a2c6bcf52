---- MODULE SealedVault ----
(***************************************************************************)
(* vault/encrypted_state.ts over the sealed payloads of vault/codec.ts.  A *)
(* state has a version, and an update must name the one that is stored;    *)
(* clients read, change what they have decrypted, and write it back some   *)
(* time later.                                                             *)
(***************************************************************************)
EXTENDS Integers, FiniteSets

CONSTANTS
  Clients,               \* of one state; what a client adds to it is its own name
  Keys,                  \* that seal and open payloads
  MaxVersion, MaxEncrypts \* bounds: versions, calls of encryptState

ASSUME VaultBoundsAssumption == MaxVersion \in Nat \ {0} /\ MaxEncrypts \in Nat
ASSUME KeysAssumption == Keys # {}

VARIABLES
  store,     \* the entry of the state: found, version, content, key
  copy,      \* per client the plaintext it has decrypted, and whether it has one
  querying,  \* per client a query that awaits the decryption: the entry it has read
  added,     \* history: clients whose update succeeded since the last encryptState
  encrypts   \* history: number of calls of encryptState

vaultVars == <<store, copy, querying, added, encrypts>>

NoPlaintext == [held |-> FALSE, version |-> 0, content |-> {}, era |-> 0]
NoQuery == [open |-> FALSE, version |-> 0, content |-> {}, era |-> 0, fits |-> FALSE]

VaultInit ==
  /\ store = [found |-> FALSE, version |-> 0, content |-> {}, key |-> CHOOSE k \in Keys : TRUE]
  /\ copy = [c \in Clients |-> NoPlaintext] /\ querying = [c \in Clients |-> NoQuery]
  /\ added = {} /\ encrypts = 0

\* encryptState called by itself: whatever is stored is replaced, its version too.
EncryptState(version, k) ==
  /\ encrypts < MaxEncrypts /\ encrypts' = encrypts + 1
  /\ store' = [found |-> TRUE, version |-> version, content |-> {}, key |-> k]
  /\ added' = {}
  /\ UNCHANGED <<copy, querying>>

\* queryState reads the entry at once and decrypts it with the key given; without a fitting key it tells only the version.
QueryState(c, k) ==
  /\ store.found /\ ~querying[c].open
  /\ querying' = [querying EXCEPT ![c] = [open |-> TRUE, version |-> store.version, content |-> store.content,
                                          era |-> encrypts, fits |-> k = store.key]]
  /\ UNCHANGED <<store, copy, added, encrypts>>

Decrypted(c) ==
  /\ querying[c].open
  /\ querying' = [querying EXCEPT ![c] = NoQuery]
  /\ copy' = IF ~querying[c].fits THEN copy
             ELSE [copy EXCEPT ![c] = [held |-> TRUE, version |-> querying[c].version,
                                       content |-> querying[c].content, era |-> querying[c].era]]
  /\ UNCHANGED <<store, added, encrypts>>

\* Defective: the version is not tested.
UpdateUntested(c, k) ==
  /\ copy[c].held /\ store.found /\ store.version < MaxVersion
  /\ store' = [found |-> TRUE, version |-> store.version + 1, content |-> copy[c].content \cup {c}, key |-> k]
  /\ added' = added \cup {c}
  /\ copy' = [copy EXCEPT ![c] = NoPlaintext]
  /\ UNCHANGED <<querying, encrypts>>

\* updateEncryptedState: from the test of the version to the new entry nothing is awaited.
UpdateEncryptedState(c, k) ==
  /\ copy[c].held /\ store.found
  /\ store.version = copy[c].version /\ store.version < MaxVersion
  /\ store' = [found |-> TRUE, version |-> copy[c].version + 1, content |-> copy[c].content \cup {c}, key |-> k]
  /\ added' = added \cup {c}
  /\ copy' = [copy EXCEPT ![c] = NoPlaintext]
  /\ UNCHANGED <<querying, encrypts>>

VaultNext ==
  \/ \E k \in Keys : \/ \E v \in {0, 1} : EncryptState(v, k)
                     \/ \E c \in Clients : QueryState(c, k) \/ UpdateEncryptedState(c, k)
  \/ \E c \in Clients : Decrypted(c)

VaultSpec == VaultInit /\ [][VaultNext]_vaultVars

-----------------------------------------------------------------------------
\* Entries, copies and queries.
VaultTypeOK ==
  /\ store \in [found : BOOLEAN, version : 0..MaxVersion, content : SUBSET Clients, key : Keys]
  /\ copy \in [Clients -> [held : BOOLEAN, version : 0..MaxVersion, content : SUBSET Clients, era : 0..MaxEncrypts]]
  /\ querying \in [Clients -> [open : BOOLEAN, version : 0..MaxVersion, content : SUBSET Clients, era : 0..MaxEncrypts,
                               fits : BOOLEAN]]
  /\ added \subseteq Clients /\ encrypts \in 0..MaxEncrypts

\* No update is lost: what a successful update added is still there, and nothing else, however old the copies were that
\* others wrote back, as long as nobody calls encryptState twice (encrypted_state.ts:70-77).
NoUpdateLost == encrypts <= 1 => store.content = added

\* A copy of the stored version is a copy of the stored content: an update never works on anything else.
VersionNamesContent ==
  \A c \in Clients : copy[c].held /\ copy[c].era = encrypts /\ copy[c].version = store.version =>
    copy[c].content = store.content

=============================================================================
