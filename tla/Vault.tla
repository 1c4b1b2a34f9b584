------------------------------- MODULE Vault -------------------------------
(***************************************************************************)
(* The background worker of the wallet extension: the encrypted vault in   *)
(* the extension's storage, the session password, the decrypted vault in   *)
(* the worker's memory, and the requests of the views, each a handler that *)
(* yields at every await (apps/wallet-extension/entrypoints/background.ts, *)
(* utils/crypto.ts, utils/storage.ts).                                     *)
(*                                                                         *)
(* A handler step is what runs between two awaits.  Storage serves calls   *)
(* in the order they are made, so a call takes effect, and a read gets its *)
(* value, when it is made; the handler goes on any time later.  Handlers   *)
(* share the vault object they find in memory and hold on to it when       *)
(* memory moves on: objects have identities here.                          *)
(***************************************************************************)
EXTENDS FiniteSets, Naturals

CONSTANTS
  Accounts,     \* addresses of the accounts users generate or import
  Passwords,    \* passwords users may type,
  Earlier,      \* and those an earlier vault may have
  None,         \* null
  Slots         \* bound: requests under way at a time, one per slot

ASSUME VaultAssumption ==
  /\ Earlier \subseteq Passwords
  /\ IsFiniteSet(Slots)
  /\ None \notin Accounts \cup Passwords \cup Nat

Ids == 0 .. Cardinality(Slots)
VaultData == [accounts : SUBSET Accounts, active : Accounts \cup {None}]
Empty == [accounts |-> {}, active |-> None]

\* An encrypted vault is the data and the password that opens it.
EncryptedVault == [data : VaultData, password : Passwords \cup {None}]
NoVault == [data |-> Empty, password |-> None]

VARIABLES
  stored,           \* the encrypted vault in local storage, NoVault before the first save
  session,          \* the password in session storage
  unlockedVault,    \* the vault object in the worker's memory
  sessionPassword,  \* the password in the worker's memory
  objects,          \* the decrypted vaults by identity, Empty where unused
  requests,         \* the requests of the views, by slot
  restarts,         \* how often the worker was restarted
  raced,            \* history: a save overlapped another save or a load
  sealed            \* history: locked with no other handler under way, no unlock since

storage == <<stored, session>>
memory == <<unlockedVault, sessionPassword, objects>>
vaultVars == <<storage, memory, requests, restarts, raced, sealed>>

Types == {"exists", "unlock", "lock", "status", "list", "add", "setActive"}
Stages == {"idle", "exists", "session", "load", "derive", "encrypt", "answered", "broken"}

Request == [type : Types, stage : Stages,
            arg : Accounts \cup Passwords \cup {None},   \* what the message carries
            password : Passwords \cup {None},            \* the password to decrypt and save with
            vault : Ids \cup {None},                     \* the object the handler holds
            copy : EncryptedVault,                       \* what it read or is about to write
            changed : BOOLEAN,                           \* the save is for a change, not a new vault
            ok : BOOLEAN, active : Accounts \cup {None}] \* the response

Message(type, arg) ==
  [type |-> type, stage |-> "idle", arg |-> arg, password |-> None, vault |-> None,
   copy |-> NoVault, changed |-> FALSE, ok |-> FALSE, active |-> None]
Idle == Message("exists", None)

VaultTypeOK ==
  /\ stored \in EncryptedVault
  /\ session \in Passwords \cup {None}
  /\ unlockedVault \in Ids \cup {None}
  /\ sessionPassword \in Passwords \cup {None}
  /\ objects \in [Ids -> VaultData]
  /\ requests \in [Slots -> Request]
  /\ restarts \in Nat
  /\ raced \in BOOLEAN /\ sealed \in BOOLEAN

\* There is no vault yet, or one from earlier, locked or with its session on.
VaultInit ==
  /\ \/ stored = NoVault /\ session = None
     \/ \E p \in Earlier :
          stored = [data |-> Empty, password |-> p] /\ session \in {None, p}
  /\ unlockedVault = None /\ sessionPassword = None
  /\ objects = [i \in Ids |-> Empty]
  /\ requests = [s \in Slots |-> Idle]
  /\ restarts = 0 /\ raced = FALSE /\ sealed = FALSE

-----------------------------------------------------------------------------
(* Steps of a handler.  Each leaves its request in a new form; Becomes     *)
(* also drops the objects nobody holds any more.                           *)

Running(s) == requests[s].stage \notin {"idle", "answered", "broken"}
Saving(s) == requests[s].stage \in {"derive", "encrypt"}
Loading(s) == requests[s].stage = "load"

Overlap == \E s, t \in Slots : s # t /\ Saving(s) /\ (Saving(t) \/ Loading(t))

Held(i) == unlockedVault = i \/ \E s \in Slots : requests[s].vault = i
Fresh == CHOOSE i \in Ids : ~Held(i)

\* Slot s goes on as r; memory holds the object id; the object i now is data.
Becomes(s, r, id, i, data) ==
  /\ requests' = [requests EXCEPT ![s] = r]
  /\ unlockedVault' = id
  /\ objects' = [j \in Ids |-> IF ~Held(j)' THEN Empty ELSE IF j = i THEN data ELSE objects[j]]
  /\ raced' = (raced \/ Overlap')

GoesOn(s, r) == Becomes(s, r, unlockedVault, None, Empty)

Answer(r, ok, active) ==
  [Message(r.type, r.arg) EXCEPT !.stage = "answered", !.ok = ok, !.active = active]
Refuse(r) == Answer(r, FALSE, None)

\* getOrInitVault asks storage for the vault, to be opened with password p.
AskForVault(r, p) == [r EXCEPT !.stage = "load", !.password = p, !.copy = stored]

\* Mutant: the record of the vault's accounts is replaced.
ChangeReplaces(r, data) ==
  [accounts |-> IF r.type = "add" THEN {r.arg} ELSE data.accounts, active |-> r.arg]

\* What accounts:generate, accounts:import and accounts:setActive make of a vault.
Change(r, data) ==
  [accounts |-> IF r.type = "add" THEN data.accounts \cup {r.arg} ELSE data.accounts,
   active |-> r.arg]

\* The vault i is in memory and is data: the rest of each handler.  A change
\* starts saveVault.  Only a lock leaves a vault without a password in memory,
\* and then session storage has none either (LockForgets).
WithVault(s, r, i, data) ==
  CASE r.type = "unlock" ->
         /\ Becomes(s, Answer(r, TRUE, None), i, i, data)
         /\ sessionPassword' = r.arg /\ session' = r.arg
    [] r.type \in {"status", "list"} ->
         Becomes(s, Answer(r, TRUE, data.active), i, i, data) /\ UNCHANGED <<session, sessionPassword>>
    [] r.type \in {"add", "setActive"} ->
         /\ IF sessionPassword = None \/ (r.type = "setActive" /\ r.arg \notin data.accounts)
            THEN Becomes(s, Refuse(r), i, i, data)
            ELSE Becomes(s, [r EXCEPT !.stage = "derive", !.vault = i, !.changed = TRUE,
                                      !.password = sessionPassword, !.copy = NoVault],
                         i, i, Change(r, data))
         /\ UNCHANGED <<session, sessionPassword>>

\* Mutant: the session's password outlives the lock.
LockKeepsSession(s, r) ==
  /\ Becomes(s, Answer(r, TRUE, None), None, None, Empty)
  /\ sessionPassword' = None /\ UNCHANGED session
  /\ sealed' = \A t \in Slots \ {s} : ~Running(t)

\* vault:lock
Lock(s, r) ==
  /\ Becomes(s, Answer(r, TRUE, None), None, None, Empty)
  /\ sessionPassword' = None /\ session' = None
  /\ sealed' = \A t \in Slots \ {s} : ~Running(t)

\* Mutant: the password is remembered before it has opened the vault.
UnlockRemembersFirst(s, r) ==
  /\ GoesOn(s, AskForVault(r, r.arg))
  /\ sessionPassword' = r.arg /\ session' = r.arg
  /\ sealed' = FALSE

\* vault:unlock always loads the vault.
Unlock(s, r) ==
  /\ GoesOn(s, AskForVault(r, r.arg))
  /\ sealed' = FALSE
  /\ UNCHANGED <<session, sessionPassword>>

\* Message r arrives in slot s.
Handle(s, r) ==
  /\ \/ r.type = "lock" /\ Lock(s, r)
     \/ /\ r.type = "exists"
        /\ GoesOn(s, [r EXCEPT !.stage = "exists", !.ok = stored # NoVault])
        /\ UNCHANGED <<session, sessionPassword, sealed>>
     \/ r.type = "unlock" /\ Unlock(s, r)
     \/ /\ r.type \in {"status", "list", "add", "setActive"}
        /\ unlockedVault # None
        /\ WithVault(s, r, unlockedVault, objects[unlockedVault])
        /\ UNCHANGED sealed
     \/ /\ r.type \in {"status", "list", "add", "setActive"}
        /\ unlockedVault = None
        /\ GoesOn(s, [r EXCEPT !.stage = "session", !.password = session])
        /\ UNCHANGED <<session, sessionPassword, sealed>>
  /\ UNCHANGED <<stored, restarts>>

\* vault:exists has looked.
Looked(s) ==
  /\ requests[s].stage = "exists"
  /\ GoesOn(s, Answer(requests[s], requests[s].ok, None))
  /\ UNCHANGED <<storage, sessionPassword, restarts, sealed>>

\* ensureUnlocked has the answer of session storage.
SessionRead(s) ==
  LET r == requests[s] IN
  /\ r.stage = "session"
  /\ IF r.password = None
     THEN GoesOn(s, Refuse(r)) /\ UNCHANGED sessionPassword
     ELSE GoesOn(s, AskForVault(r, r.password)) /\ sessionPassword' = r.password
  /\ UNCHANGED <<storage, restarts, sealed>>

\* getOrInitVault has the vault, which replaces the one in memory; or there is
\* none, and an empty one is saved first.
Loaded(s) ==
  LET r == requests[s] IN
  /\ r.stage = "load"
  /\ \/ /\ r.copy = NoVault
        /\ Becomes(s, [r EXCEPT !.stage = "derive", !.vault = Fresh], unlockedVault, Fresh, Empty)
        /\ UNCHANGED <<session, sessionPassword>>
     \/ /\ r.copy # NoVault /\ r.copy.password = r.password
        /\ WithVault(s, r, Fresh, r.copy.data)
     \/ /\ r.copy # NoVault /\ r.copy.password # r.password
        /\ GoesOn(s, Refuse(r))
        /\ UNCHANGED <<session, sessionPassword>>
  /\ UNCHANGED <<stored, restarts, sealed>>

\* encryptVault has derived the key: it encrypts the vault as it is now.
Derived(s) ==
  LET r == requests[s] IN
  /\ r.stage = "derive"
  /\ GoesOn(s, [r EXCEPT !.stage = "encrypt",
                         !.copy = [data |-> objects[r.vault], password |-> r.password]])
  /\ UNCHANGED <<storage, sessionPassword, restarts, sealed>>

\* saveVault writes the vault and puts its object into memory.
Encrypted(s) ==
  LET r == requests[s] IN
  /\ r.stage = "encrypt"
  /\ stored' = r.copy
  /\ IF r.changed
     THEN /\ Becomes(s, Answer(r, TRUE, r.arg), r.vault, None, Empty)
          /\ UNCHANGED <<session, sessionPassword>>
     ELSE WithVault(s, r, r.vault, objects[r.vault])
  /\ UNCHANGED <<restarts, sealed>>

\* The worker is stopped and starts again: its memory and its handlers are
\* lost.  Storage keeps what it has.
Restart ==
  /\ restarts' = restarts + 1
  /\ unlockedVault' = None /\ sessionPassword' = None
  /\ objects' = [i \in Ids |-> Empty]
  /\ requests' = [s \in Slots |->
       IF Running(s) THEN [Message(requests[s].type, requests[s].arg) EXCEPT !.stage = "broken"]
       ELSE requests[s]]
  /\ UNCHANGED <<storage, raced, sealed>>

HandlerStep(s) == Looked(s) \/ SessionRead(s) \/ Loaded(s) \/ Derived(s) \/ Encrypted(s)
=============================================================================
