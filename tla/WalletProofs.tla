---------------------------- MODULE WalletProofs ----------------------------
(***************************************************************************)
(* What is proved of the wallet extension, for any number of views, slots, *)
(* actions and restarts: the types, and the three invariants of Wallet.    *)
(***************************************************************************)
EXTENDS Wallet, FiniteSetTheorems, TLAPS

-----------------------------------------------------------------------------
(* Types.  What a request carries depends on its type, and only a handler   *)
(* that saves holds on to a vault object, so that there is always a free    *)
(* identity for the next one.                                               *)

Lists == {"status", "list", "add", "setActive"}
Changes == {"add", "setActive"}
Saves == {"derive", "encrypt"}

Fits(r) ==
  /\ r.type \in Changes => r.arg \in Accounts
  /\ r.type = "unlock" => r.arg \in Passwords
  /\ r.changed => r.type \in Changes
  /\ r.stage = "exists" => r.type = "exists"
  /\ r.stage = "session" => r.type \in Lists
  /\ r.stage = "broken" => ~r.ok
  /\ r.stage \in {"load"} \cup Saves => r.type \in {"unlock"} \cup Lists
  /\ IF r.stage \in Saves THEN r.vault \in Ids ELSE r.vault = None

Sound(r) == r \in Request /\ Fits(r)

FlowFits(f, r) ==
  /\ f.kind \in Changes => f.arg \in Accounts
  /\ f.view # None /\ r.type = "status" => f.kind \in {"boot", "tick"} \cup Changes
  /\ f.view # None /\ r.type = "exists" => f.kind = "boot"

TypeInv ==
  /\ TypeOK
  /\ closes \in Nat
  /\ \A s \in Slots : Fits(requests[s]) /\ FlowFits(flows[s], requests[s])

-----------------------------------------------------------------------------
(* Locks.  Under a seal no handler has a password; and a worker that has    *)
(* not read the session's password yet has no vault, and opens none but by  *)
(* an unlock.                                                               *)

Quiet(r) == r.stage \notin {"load"} \cup Saves /\ (r.stage = "session" => r.password = None)
OpensByUnlock(r) == r.stage \in {"load"} \cup Saves => r.type = "unlock"

LockInv ==
  /\ sealed =>
       /\ unlockedVault = None /\ sessionPassword = None /\ session = None
       /\ \A s \in Slots : Quiet(requests[s])
  /\ sessionPassword = None /\ session # None =>
       /\ unlockedVault = None
       /\ \A s \in Slots : OpensByUnlock(requests[s])

-----------------------------------------------------------------------------
(* Saves.  As long as none overlapped, every copy of the vault, in storage, *)
(* in memory and in handlers, has all accounts that a view was or is being  *)
(* told of, and every password that may be used opens the stored vault.     *)

Acks(r) == r.stage = "answered" /\ r.ok /\ r.type = "add"
Told == acked \cup {requests[s].arg : s \in {t \in Slots : Acks(requests[t])}}

LoadFits(r) ==
  r.stage = "load" =>
    /\ r.copy = stored
    /\ r.password # None
    /\ r.password = IF r.type = "unlock" THEN r.arg ELSE stored.password

\* A save of a vault that has these accounts now.
SaveFits(r, accounts) ==
  r.stage \in Saves =>
    /\ Told \subseteq accounts
    /\ r.password # None
    /\ IF r.changed THEN /\ r.password = stored.password
                         /\ r.type = "add" => r.arg \in accounts
                    ELSE stored = NoVault /\ r.type = "unlock" /\ r.password = r.arg
    /\ r.stage = "encrypt" =>
         /\ Told \subseteq r.copy.data.accounts
         /\ r.changed /\ r.type = "add" => r.arg \in r.copy.data.accounts
         /\ r.copy.password = r.password

Kept ==
  /\ Told \subseteq stored.data.accounts
  /\ unlockedVault # None => Told \subseteq objects[unlockedVault].accounts
  /\ stored = NoVault \/ stored.password # None
  /\ session \in {None, stored.password}
  /\ sessionPassword \in {None, stored.password}
  /\ \A s \in Slots :
       /\ requests[s].stage = "session" => requests[s].password \in {None, stored.password}
       /\ LoadFits(requests[s])
       /\ SaveFits(requests[s], objects[requests[s].vault].accounts)

SaveInv == (Overlap => raced) /\ (raced \/ Kept)

-----------------------------------------------------------------------------
(* The identities of vault objects.                                         *)

\* None is no identity of a vault object.
LEMMA NoneIsNoId == None \notin Ids
BY VaultAssumption, FS_CardinalityType DEF Ids

\* While a handler holds no object, one is free: there is one more identity
\* than slots, and memory takes one (getOrInitVault makes a new object).
LEMMA FreshIsFree ==
  ASSUME NEW s \in Slots, requests[s].vault = None
  PROVE  Fresh \in Ids /\ ~Held(Fresh)
<1>1. \E i \in Ids : ~Held(i)
  <2>1. SUFFICES ASSUME \A i \in Ids : Held(i) PROVE FALSE
    OBVIOUS
  <2> DEFINE Others == Slots \ {s}
             Taken == Ids \ {unlockedVault}
             f == [i \in Taken |-> CHOOSE t \in Others : requests[t].vault = i]
  <2>2. \A i \in Taken : f[i] \in Others /\ requests[f[i]].vault = i
    <3>1. TAKE i \in Taken
    <3>2. \E t \in Others : requests[t].vault = i
      BY <2>1, NoneIsNoId DEF Held
    <3>3. f[i] = CHOOSE t \in Others : requests[t].vault = i
      OBVIOUS
    <3>4. QED
      BY <3>2, <3>3
  <2>3. IsFiniteSet(Others) /\ Cardinality(Others) = Cardinality(Slots) - 1
    BY VaultAssumption, FS_RemoveElement
  <2>4. IsFiniteSet(Ids) /\ Cardinality(Ids) = Cardinality(Slots) + 1
    BY VaultAssumption, FS_CardinalityType, FS_Interval DEF Ids
  <2>5. IsFiniteSet(Taken) /\ Cardinality(Taken) >= Cardinality(Slots)
    <3>1. /\ IsFiniteSet(Taken)
          /\ Cardinality(Taken) = IF unlockedVault \in Ids THEN Cardinality(Ids) - 1 ELSE Cardinality(Ids)
      BY <2>4, FS_RemoveElement
    <3>2. Cardinality(Slots) \in Nat
      BY VaultAssumption, FS_CardinalityType
    <3>3. QED
      BY <2>4, <3>1, <3>2
  <2>6. Cardinality(Others) < Cardinality(Taken)
    BY <2>3, <2>5, FS_CardinalityType, VaultAssumption
  <2>7. f \in [Taken -> Others]
    BY <2>2
  <2>8. \E x, y \in Taken : x # y /\ f[x] = f[y]
    <3> HIDE DEF f, Taken, Others
    <3>1. QED
      BY <2>3, <2>5, <2>6, <2>7, FS_PigeonHole
  <2>9. QED
    BY <2>2, <2>8
<1>2. QED
  BY <1>1 DEF Fresh

-----------------------------------------------------------------------------
(* What a step of a handler does to the types.                              *)

\* A message that fits its type is a sound request.
LEMMA MessageSound ==
  ASSUME NEW type \in Types, NEW arg \in Accounts \cup Passwords \cup {None},
         type \in Changes => arg \in Accounts, type = "unlock" => arg \in Passwords
  PROVE  Sound(Message(type, arg))
BY DEF Sound, Fits, Message, Request, Stages, EncryptedVault, NoVault, VaultData, Empty,
       Changes, Saves, Lists

\* So is an answer.
LEMMA AnswerSound ==
  ASSUME NEW r, Sound(r), NEW ok \in BOOLEAN, NEW active \in Accounts \cup {None}
  PROVE  /\ Sound(Answer(r, ok, active))
         /\ Answer(r, ok, active).type = r.type /\ Answer(r, ok, active).arg = r.arg
         /\ Answer(r, ok, active).stage = "answered" /\ Answer(r, ok, active).ok = ok
<1> DEFINE m == Message(r.type, r.arg)
<1>1. /\ m \in Request
      /\ m.type = r.type /\ m.arg = r.arg /\ m.vault = None /\ m.changed = FALSE
  <2>1. Sound(m)
    BY MessageSound DEF Sound, Fits, Request
  <2>2. QED
    BY <2>1 DEF Sound, Message
<1>2. Answer(r, ok, active) = [m EXCEPT !.stage = "answered", !.ok = ok, !.active = active]
  BY DEF Answer
<1> HIDE DEF m
<1>3. /\ Answer(r, ok, active) \in Request
      /\ Answer(r, ok, active).type = r.type /\ Answer(r, ok, active).arg = r.arg
      /\ Answer(r, ok, active).vault = None /\ Answer(r, ok, active).changed = FALSE
      /\ Answer(r, ok, active).stage = "answered" /\ Answer(r, ok, active).ok = ok
  BY <1>1, <1>2 DEF Request, Stages
<1>4. QED
  BY <1>3 DEF Sound, Fits, Changes, Saves, Lists

\* accounts:generate, accounts:import and accounts:setActive make a vault of a vault.
LEMMA ChangeTyped ==
  ASSUME NEW r, Sound(r), r.type \in Changes, NEW data \in VaultData
  PROVE  Change(r, data) \in VaultData
BY DEF Change, Sound, Fits, VaultData, Changes

WorkerTyped ==
  /\ requests \in [Slots -> Request]
  /\ unlockedVault \in Ids \cup {None}
  /\ objects \in [Ids -> VaultData]
  /\ raced \in BOOLEAN
  /\ session \in Passwords \cup {None}
  /\ sessionPassword \in Passwords \cup {None}

\* The step of slot s leaves a sound request there that answers the message in r.
Answers(s, r) ==
  /\ \A t \in Slots \ {s} : requests'[t] = requests[t]
  /\ Fits(requests'[s])
  /\ requests'[s].type = r.type /\ requests'[s].arg = r.arg

\* Becomes keeps the types.
LEMMA BecomesTyped ==
  ASSUME WorkerTyped, NEW s \in Slots, NEW r, NEW q, Sound(q), q.type = r.type, q.arg = r.arg,
         NEW id \in Ids \cup {None}, NEW i, NEW data \in VaultData, Becomes(s, q, id, i, data),
         session' \in Passwords \cup {None}, sessionPassword' \in Passwords \cup {None}
  PROVE  WorkerTyped' /\ Answers(s, r)
<1>1. Empty \in VaultData
  BY DEF Empty, VaultData
<1>2. requests' \in [Slots -> Request]
  BY DEF Becomes, WorkerTyped, Sound
<1>3. objects' \in [Ids -> VaultData]
  BY <1>1 DEF Becomes, WorkerTyped
<1>4. raced' \in BOOLEAN /\ unlockedVault' \in Ids \cup {None}
  BY DEF Becomes, WorkerTyped
<1>5. Answers(s, r)
  BY DEF Becomes, WorkerTyped, Answers, Sound
<1>6. QED
  BY <1>2, <1>3, <1>4, <1>5 DEF WorkerTyped

\* The rest of a handler that has its vault keeps them.
LEMMA WithVaultTyped ==
  ASSUME WorkerTyped, NEW s \in Slots, NEW r, Sound(r), r.type \in {"unlock"} \cup Lists,
         NEW i \in Ids, NEW data \in VaultData, WithVault(s, r, i, data)
  PROVE  WorkerTyped' /\ Answers(s, r)
<1>1. CASE r.type = "unlock"
  <2>1. /\ Becomes(s, Answer(r, TRUE, None), i, i, data)
        /\ sessionPassword' = r.arg /\ session' = r.arg
    BY <1>1 DEF WithVault
  <2>2. r.arg \in Passwords
    BY <1>1 DEF Sound, Fits
  <2>3. QED
    BY <2>1, <2>2, AnswerSound, BecomesTyped
<1>2. CASE r.type \in {"status", "list"}
  <2>1. Becomes(s, Answer(r, TRUE, data.active), i, i, data) /\ UNCHANGED <<session, sessionPassword>>
    BY <1>2 DEF WithVault
  <2>2. data.active \in Accounts \cup {None}
    BY DEF VaultData
  <2>3. Sound(Answer(r, TRUE, data.active)) /\ Answer(r, TRUE, data.active).type = r.type
        /\ Answer(r, TRUE, data.active).arg = r.arg
    BY <2>2, AnswerSound
  <2>4. QED
    BY <2>1, <2>3, BecomesTyped DEF WorkerTyped
<1>3. CASE r.type \in Changes
  <2> DEFINE q == [r EXCEPT !.stage = "derive", !.vault = i, !.changed = TRUE,
                            !.password = sessionPassword, !.copy = NoVault]
  <2>1. /\ IF sessionPassword = None \/ (r.type = "setActive" /\ r.arg \notin data.accounts)
           THEN Becomes(s, Refuse(r), i, i, data)
           ELSE Becomes(s, q, i, i, Change(r, data))
        /\ UNCHANGED <<session, sessionPassword>>
    BY <1>3 DEF WithVault, Changes
  <2>2. Sound(Refuse(r)) /\ Refuse(r).type = r.type /\ Refuse(r).arg = r.arg
    BY AnswerSound DEF Refuse
  <2>3. Sound(q) /\ q.type = r.type /\ q.arg = r.arg
    <3>1. NoVault \in EncryptedVault
      BY DEF NoVault, Empty, EncryptedVault, VaultData
    <3>2. q \in Request
      BY <3>1 DEF Sound, Request, Stages, WorkerTyped
    <3>3. q.type = r.type /\ q.arg = r.arg /\ q.stage = "derive" /\ q.vault = i
      BY DEF Sound, Request
    <3>4. QED
      BY <1>3, <3>2, <3>3 DEF Sound, Fits, Saves, Lists, Changes
  <2>4. Change(r, data) \in VaultData
    BY <1>3, ChangeTyped
  <2> HIDE DEF q
  <2>5. CASE Becomes(s, Refuse(r), i, i, data)
    BY <2>1, <2>2, <2>5, BecomesTyped DEF WorkerTyped
  <2>6. CASE Becomes(s, q, i, i, Change(r, data))
    BY <2>1, <2>3, <2>4, <2>6, BecomesTyped DEF WorkerTyped
  <2>7. QED
    BY <2>1, <2>5, <2>6
<1>4. QED
  BY <1>1, <1>2, <1>3 DEF Lists, Changes

\* Handle keeps the types.
LEMMA HandleTyped ==
  ASSUME VaultTypeOK, NEW s \in Slots, Fits(requests[s]), NEW r, Sound(r), r.stage = "idle", Handle(s, r)
  PROVE  VaultTypeOK' /\ Answers(s, r)
<1>1. WorkerTyped
  BY DEF VaultTypeOK, WorkerTyped
<1>2. stored' \in EncryptedVault /\ restarts' \in Nat
  BY DEF Handle, VaultTypeOK
<1>3. r.vault = None
  BY DEF Sound, Fits, Saves
<1>4. WorkerTyped' /\ sealed' \in BOOLEAN /\ Answers(s, r)
  <2>1. CASE r.type = "lock" /\ Lock(s, r)
    <3>1. Sound(Answer(r, TRUE, None)) /\ Answer(r, TRUE, None).type = r.type /\ Answer(r, TRUE, None).arg = r.arg
      BY AnswerSound
    <3>2. Empty \in VaultData
      BY DEF Empty, VaultData
    <3>3. QED
      BY <1>1, <2>1, <3>1, <3>2, BecomesTyped DEF Lock
  <2>2. CASE /\ r.type = "exists"
             /\ GoesOn(s, [r EXCEPT !.stage = "exists", !.ok = stored # NoVault])
             /\ UNCHANGED <<session, sessionPassword, sealed>>
    <3> DEFINE q == [r EXCEPT !.stage = "exists", !.ok = stored # NoVault]
    <3>1. Sound(q) /\ q.type = r.type /\ q.arg = r.arg
      <4>1. (stored # NoVault) \in BOOLEAN
        OBVIOUS
      <4>2. /\ q \in Request
            /\ q.type = r.type /\ q.arg = r.arg /\ q.stage = "exists" /\ q.vault = r.vault /\ q.changed = r.changed
        BY <4>1 DEF Sound, Request, Stages
      <4>3. QED
        BY <1>3, <2>2, <4>2 DEF Sound, Fits, Saves
    <3>2. Empty \in VaultData
      BY DEF Empty, VaultData
    <3> HIDE DEF q
    <3>3. Becomes(s, q, unlockedVault, None, Empty)
      BY <2>2 DEF q, GoesOn
    <3>4. QED
      BY <1>1, <2>2, <3>1, <3>2, <3>3, BecomesTyped DEF WorkerTyped, VaultTypeOK
  <2>3. CASE r.type = "unlock" /\ Unlock(s, r)
    <3> DEFINE q == AskForVault(r, r.arg)
    <3>1. Sound(q) /\ q.type = r.type /\ q.arg = r.arg
      <4>1. r.arg \in Passwords
        BY <2>3 DEF Sound, Fits
      <4>2. /\ q \in Request
            /\ q.type = r.type /\ q.arg = r.arg /\ q.stage = "load" /\ q.vault = r.vault /\ q.changed = r.changed
        BY <4>1 DEF Sound, Request, Stages, AskForVault, VaultTypeOK
      <4>3. QED
        BY <1>3, <2>3, <4>2 DEF Sound, Fits, Saves
    <3>2. Empty \in VaultData
      BY DEF Empty, VaultData
    <3> HIDE DEF q
    <3>3. Becomes(s, q, unlockedVault, None, Empty)
      BY <2>3 DEF q, GoesOn, Unlock
    <3>4. UNCHANGED <<session, sessionPassword>> /\ sealed' = FALSE
      BY <2>3 DEF Unlock
    <3>5. QED
      BY <1>1, <3>1, <3>2, <3>3, <3>4, BecomesTyped DEF WorkerTyped, VaultTypeOK
  <2>4. CASE /\ r.type \in {"status", "list", "add", "setActive"}
             /\ unlockedVault # None
             /\ WithVault(s, r, unlockedVault, objects[unlockedVault])
             /\ UNCHANGED sealed
    <3>1. unlockedVault \in Ids /\ objects[unlockedVault] \in VaultData
      BY <1>1, <2>4 DEF WorkerTyped
    <3>2. QED
      BY <1>1, <2>4, <3>1, WithVaultTyped DEF Lists, VaultTypeOK
  <2>5. CASE /\ r.type \in {"status", "list", "add", "setActive"}
             /\ unlockedVault = None
             /\ GoesOn(s, [r EXCEPT !.stage = "session", !.password = session])
             /\ UNCHANGED <<session, sessionPassword, sealed>>
    <3> DEFINE q == [r EXCEPT !.stage = "session", !.password = session]
    <3>1. Sound(q) /\ q.type = r.type /\ q.arg = r.arg
      <4>1. /\ q \in Request
            /\ q.type = r.type /\ q.arg = r.arg /\ q.stage = "session" /\ q.vault = r.vault /\ q.changed = r.changed
        BY <1>1 DEF Sound, Request, Stages, WorkerTyped
      <4>2. QED
        BY <1>3, <2>5, <4>1 DEF Sound, Fits, Saves, Lists
    <3>2. Empty \in VaultData
      BY DEF Empty, VaultData
    <3> HIDE DEF q
    <3>3. Becomes(s, q, unlockedVault, None, Empty)
      BY <2>5 DEF q, GoesOn
    <3>4. QED
      BY <1>1, <2>5, <3>1, <3>2, <3>3, BecomesTyped DEF WorkerTyped, VaultTypeOK
  <2>6. QED
    BY <2>1, <2>2, <2>3, <2>4, <2>5 DEF Handle
<1>5. QED
  BY <1>2, <1>4 DEF VaultTypeOK, WorkerTyped

\* So does every other step of a handler.
LEMMA HandlerStepTyped ==
  ASSUME VaultTypeOK, NEW s \in Slots, Fits(requests[s]), HandlerStep(s)
  PROVE  VaultTypeOK' /\ Answers(s, requests[s])
<1> DEFINE r == requests[s]
<1>1. WorkerTyped /\ Sound(r)
  BY DEF VaultTypeOK, WorkerTyped, Sound
<1>2. Empty \in VaultData
  BY DEF Empty, VaultData
<1>3. ASSUME NEW q, Sound(q), q.type = r.type, q.arg = r.arg, GoesOn(s, q), UNCHANGED <<storage, restarts, sealed>>,
             sessionPassword' \in Passwords \cup {None}
      PROVE  VaultTypeOK' /\ Answers(s, r)
  <2>1. WorkerTyped' /\ Answers(s, r)
    BY <1>1, <1>2, <1>3, BecomesTyped DEF GoesOn, WorkerTyped, storage
  <2>2. QED
    BY <1>3, <2>1 DEF VaultTypeOK, WorkerTyped, storage
<1>4. ASSUME NEW i \in Ids, NEW data \in VaultData, WithVault(s, r, i, data), r.type \in {"unlock"} \cup Lists,
             stored' \in EncryptedVault, UNCHANGED <<restarts, sealed>>
      PROVE  VaultTypeOK' /\ Answers(s, r)
  <2>1. WorkerTyped' /\ Answers(s, r)
    BY <1>1, <1>4, WithVaultTyped
  <2>2. QED
    BY <1>4, <2>1 DEF VaultTypeOK, WorkerTyped
<1>5. CASE Looked(s)
  <2>1. r.ok \in BOOLEAN
    BY <1>1 DEF Sound, Request
  <2>2. Sound(Answer(r, r.ok, None)) /\ Answer(r, r.ok, None).type = r.type /\ Answer(r, r.ok, None).arg = r.arg
    BY <1>1, <2>1, AnswerSound
  <2>3. QED
    BY <1>1, <1>3, <1>5, <2>2 DEF Looked, WorkerTyped
<1>6. CASE SessionRead(s)
  <2>1. CASE r.password = None
    <3>1. Sound(Refuse(r)) /\ Refuse(r).type = r.type /\ Refuse(r).arg = r.arg
      BY <1>1, AnswerSound DEF Refuse
    <3>2. QED
      BY <1>1, <1>3, <1>6, <2>1, <3>1 DEF SessionRead, WorkerTyped
  <2>2. CASE r.password # None
    <3> DEFINE q == AskForVault(r, r.password)
    <3>1. r.stage = "session" /\ r.password \in Passwords
      BY <1>1, <1>6, <2>2 DEF SessionRead, Sound, Request
    <3>2. /\ q \in Request
          /\ q.type = r.type /\ q.arg = r.arg /\ q.stage = "load" /\ q.vault = r.vault /\ q.changed = r.changed
      BY <1>1, <3>1 DEF Sound, Request, Stages, AskForVault, VaultTypeOK
    <3>3. Sound(q)
      BY <1>1, <3>1, <3>2 DEF Sound, Fits, Saves
    <3>4. QED
      BY <1>3, <1>6, <2>2, <3>1, <3>2, <3>3 DEF SessionRead
  <2>3. QED
    BY <2>1, <2>2
<1>7. CASE Loaded(s)
  <2>1. r.stage = "load" /\ r.vault = None /\ r.type \in {"unlock"} \cup Lists /\ UNCHANGED <<stored, restarts, sealed>>
    BY <1>1, <1>7 DEF Loaded, Sound, Fits, Saves
  <2>2. Fresh \in Ids
    BY <2>1, FreshIsFree
  <2>3. CASE /\ r.copy = NoVault
             /\ Becomes(s, [r EXCEPT !.stage = "derive", !.vault = Fresh], unlockedVault, Fresh, Empty)
             /\ UNCHANGED <<session, sessionPassword>>
    <3> DEFINE q == [r EXCEPT !.stage = "derive", !.vault = Fresh]
    <3>1. /\ q \in Request
          /\ q.type = r.type /\ q.arg = r.arg /\ q.stage = "derive" /\ q.vault = Fresh /\ q.changed = r.changed
      BY <1>1, <2>2 DEF Sound, Request, Stages
    <3>2. Sound(q)
      BY <1>1, <2>1, <2>2, <3>1 DEF Sound, Fits, Saves
    <3> HIDE DEF q
    <3>3. Becomes(s, q, unlockedVault, Fresh, Empty)
      BY <2>3 DEF q
    <3>4. WorkerTyped' /\ Answers(s, r)
      BY <1>1, <1>2, <2>3, <3>1, <3>2, <3>3, BecomesTyped DEF WorkerTyped
    <3>5. QED
      BY <2>1, <3>4 DEF VaultTypeOK, WorkerTyped
  <2>4. CASE r.copy # NoVault /\ r.copy.password = r.password /\ WithVault(s, r, Fresh, r.copy.data)
    <3>1. r.copy.data \in VaultData
      BY <1>1 DEF Sound, Request, EncryptedVault
    <3>2. QED
      BY <1>4, <2>1, <2>2, <2>4, <3>1 DEF VaultTypeOK
  <2>5. CASE /\ r.copy # NoVault /\ r.copy.password # r.password
             /\ GoesOn(s, Refuse(r))
             /\ UNCHANGED <<session, sessionPassword>>
    <3>1. Sound(Refuse(r)) /\ Refuse(r).type = r.type /\ Refuse(r).arg = r.arg
      BY <1>1, AnswerSound DEF Refuse
    <3>2. QED
      BY <1>1, <1>3, <2>1, <2>5, <3>1 DEF WorkerTyped, storage
  <2>6. QED
    BY <1>7, <2>3, <2>4, <2>5 DEF Loaded
<1>8. CASE Derived(s)
  <2> DEFINE q == [r EXCEPT !.stage = "encrypt", !.copy = [data |-> objects[r.vault], password |-> r.password]]
  <2>1. r.stage = "derive" /\ r.vault \in Ids /\ r.type \in {"unlock"} \cup Lists
    BY <1>1, <1>8 DEF Derived, Sound, Fits, Saves
  <2>2. [data |-> objects[r.vault], password |-> r.password] \in EncryptedVault
    BY <1>1, <2>1 DEF Sound, Request, EncryptedVault, WorkerTyped
  <2>3. /\ q \in Request
        /\ q.type = r.type /\ q.arg = r.arg /\ q.stage = "encrypt" /\ q.vault = r.vault /\ q.changed = r.changed
    BY <1>1, <2>2 DEF Sound, Request, Stages
  <2>4. Sound(q)
    BY <1>1, <2>1, <2>3 DEF Sound, Fits, Saves
  <2>5. QED
    BY <1>1, <1>3, <1>8, <2>3, <2>4 DEF Derived, WorkerTyped
<1>9. CASE Encrypted(s)
  <2>1. r.stage = "encrypt" /\ r.vault \in Ids /\ r.type \in {"unlock"} \cup Lists
    BY <1>1, <1>9 DEF Encrypted, Sound, Fits, Saves
  <2>2. stored' \in EncryptedVault /\ UNCHANGED <<restarts, sealed>>
    BY <1>1, <1>9 DEF Encrypted, Sound, Request
  <2>3. CASE r.changed
    <3>1. r.arg \in Accounts
      BY <1>1, <2>3 DEF Sound, Fits
    <3>2. Sound(Answer(r, TRUE, r.arg)) /\ Answer(r, TRUE, r.arg).type = r.type /\ Answer(r, TRUE, r.arg).arg = r.arg
      BY <1>1, <3>1, AnswerSound
    <3>3. /\ Becomes(s, Answer(r, TRUE, r.arg), r.vault, None, Empty)
          /\ UNCHANGED <<session, sessionPassword>>
      BY <1>9, <2>3 DEF Encrypted
    <3>4. WorkerTyped' /\ Answers(s, r)
      BY <1>1, <1>2, <2>1, <3>2, <3>3, BecomesTyped DEF WorkerTyped
    <3>5. QED
      BY <2>2, <3>4 DEF VaultTypeOK, WorkerTyped
  <2>4. CASE ~r.changed
    <3>1. WithVault(s, r, r.vault, objects[r.vault])
      BY <1>9, <2>4 DEF Encrypted
    <3>2. objects[r.vault] \in VaultData
      BY <1>1, <2>1 DEF WorkerTyped
    <3>3. QED
      BY <1>4, <2>1, <2>2, <3>1, <3>2
  <2>5. QED
    BY <2>3, <2>4
<1>10. QED
  BY <1>5, <1>6, <1>7, <1>8, <1>9 DEF HandlerStep

-----------------------------------------------------------------------------
(* Type correctness of worker and views.                                    *)

\* The types of worker and flows, without the views.
SlotsFit ==
  /\ VaultTypeOK /\ flows \in [Slots -> Flow]
  /\ \A s \in Slots : Fits(requests[s]) /\ FlowFits(flows[s], requests[s])

\* A message of a fitting flow arrives.
LEMMA HandleFits ==
  ASSUME SlotsFit, NEW s \in Slots, NEW type \in Types, NEW arg \in Accounts \cup Passwords \cup {None},
         type \in Changes => arg \in Accounts, type = "unlock" => arg \in Passwords,
         Handle(s, Message(type, arg)), NEW f \in Flow, flows' = [flows EXCEPT ![s] = f],
         f.kind \in Changes => f.arg \in Accounts,
         f.view # None /\ type = "status" => f.kind \in {"boot", "tick"} \cup Changes,
         f.view # None /\ type = "exists" => f.kind = "boot"
  PROVE  SlotsFit'
<1> DEFINE r == Message(type, arg)
<1>1. Sound(r) /\ r.stage = "idle" /\ r.type = type
  BY MessageSound DEF Message
<1> HIDE DEF r
<1>2. VaultTypeOK' /\ Answers(s, r)
  BY <1>1, HandleTyped DEF SlotsFit, r
<1>3. \A t \in Slots : flows'[t] = IF t = s THEN f ELSE flows[t]
  BY DEF SlotsFit
<1>4. \A t \in Slots : Fits(requests'[t]) /\ FlowFits(flows'[t], requests'[t])
  BY <1>1, <1>2, <1>3 DEF SlotsFit, Answers, FlowFits
<1>5. QED
  BY <1>2, <1>4 DEF SlotsFit

\* The flow goes on with its next message.
LEMMA AsksFits ==
  ASSUME SlotsFit, NEW s \in Slots, NEW type \in Types, NEW arg \in Accounts \cup Passwords \cup {None},
         type \in Changes => arg \in Accounts, type = "unlock" => arg \in Passwords,
         Asks(s, type, arg),
         flows[s].view # None /\ type = "status" => flows[s].kind \in {"boot", "tick"} \cup Changes,
         flows[s].view # None /\ type = "exists" => flows[s].kind = "boot"
  PROVE  SlotsFit'
<1>1. flows[s] \in Flow /\ flows' = [flows EXCEPT ![s] = flows[s]] /\ Handle(s, Message(type, arg))
  BY DEF Asks, SlotsFit
<1>2. flows[s].kind \in Changes => flows[s].arg \in Accounts
  BY DEF SlotsFit, FlowFits
<1>3. QED
  BY <1>1, <1>2, HandleFits

\* A view starts a flow.
LEMMA StartsFits ==
  ASSUME SlotsFit, NEW v \in Views, NEW kind \in Kinds, NEW type \in Types,
         NEW arg \in Accounts \cup Passwords \cup {None}, Starts(v, kind, arg, type),
         kind \in Changes \/ type \in Changes => arg \in Accounts, type = "unlock" => arg \in Passwords,
         type = "status" => kind \in {"boot", "tick"} \cup Changes,
         type = "exists" => kind = "boot"
  PROVE  SlotsFit'
<1>1. PICK s \in Slots : /\ flows' = [flows EXCEPT ![s] = [kind |-> kind, view |-> v, arg |-> arg]]
                         /\ Handle(s, Message(type, arg))
  BY DEF Starts, Free
<1> DEFINE f == [kind |-> kind, view |-> v, arg |-> arg]
<1>2. f \in Flow /\ f.kind = kind /\ f.arg = arg
  BY DEF Flow
<1> HIDE DEF f
<1>3. flows' = [flows EXCEPT ![s] = f]
  BY <1>1 DEF f
<1>4. Handle(s, Message(type, arg))
  BY <1>1
<1>5. QED
  BY <1>2, <1>3, <1>4, HandleFits

\* A flow ends.
LEMMA EndsFits ==
  ASSUME SlotsFit, NEW s \in Slots, Ends(s)
  PROVE  SlotsFit'
<1>1. Sound(Idle) /\ NoFlow \in Flow /\ FlowFits(NoFlow, Idle)
  BY MessageSound DEF Idle, Types, Changes, NoFlow, Flow, Kinds, FlowFits
<1>2. VaultTypeOK'
  BY <1>1 DEF SlotsFit, Ends, VaultTypeOK, storage, memory, Sound
<1>3. \A t \in Slots : /\ requests'[t] = IF t = s THEN Idle ELSE requests[t]
                       /\ flows'[t] = IF t = s THEN NoFlow ELSE flows[t]
  BY DEF SlotsFit, VaultTypeOK, Ends
<1>4. flows' \in [Slots -> Flow]
  BY <1>1 DEF SlotsFit, Ends
<1>5. QED
  BY <1>1, <1>2, <1>3, <1>4 DEF SlotsFit, Sound

\* A view that shows something new is a view.
LEMMA ShowsTyped ==
  ASSUME views \in [Views -> View], NEW v \in Views, NEW new \in View, Shows(v, new)
  PROVE  views' \in [Views -> View]
BY DEF Shows

\* A reply keeps the types.
LEMMA ReplyTyped ==
  ASSUME TypeInv, SlotsFit, NEW s \in Slots, Reply(s)
  PROVE  SlotsFit' /\ views' \in [Views -> View] /\ acked' \subseteq Accounts /\ UNCHANGED <<bounds, restarts>>
<1> DEFINE r == requests[s]
           v == flows[s].view
<1>1. /\ r \in Request /\ Fits(r) /\ FlowFits(flows[s], r) /\ flows[s] \in Flow
      /\ v \in Views \cup {None} /\ flows[s].kind \in Kinds
  BY DEF SlotsFit, VaultTypeOK, Flow
<1>2. r.ok \in BOOLEAN /\ r.active \in Accounts \cup {None} /\ None \in Accounts \cup Passwords \cup {None}
  BY <1>1 DEF Request
<1>3. /\ views \in [Views -> View] /\ acked \subseteq Accounts
      /\ {"exists", "unlock", "lock", "status", "list", "add", "setActive"} = Types
  BY DEF TypeInv, TypeOK, Types
<1>4. ASSUME Ends(s) PROVE SlotsFit' /\ restarts' = restarts
  BY <1>4, EndsFits DEF Ends
<1>5. ASSUME Asks(s, "list", None) PROVE SlotsFit' /\ restarts' = restarts
  <2>1. SlotsFit'
    BY <1>2, <1>3, <1>5, AsksFits DEF Changes
  <2>2. QED
    BY <1>5, <2>1 DEF Asks, Handle
<1>6. CASE v = None /\ Ends(s) /\ UNCHANGED <<views, acked>>
  BY <1>3, <1>4, <1>6 DEF Reply
<1>7. CASE v # None /\ ExistsReply(s, v, r)
  <2>1. [views[v] EXCEPT !.booting = FALSE, !.setup = TRUE] \in View
    BY <1>1, <1>3, <1>7 DEF View
  <2>2. CASE Shows(v, [views[v] EXCEPT !.booting = FALSE, !.setup = TRUE]) /\ Ends(s)
    BY <1>1, <1>3, <1>4, <1>7, <2>1, <2>2, ShowsTyped DEF Reply, ExistsReply
  <2>3. CASE Asks(s, "status", None) /\ UNCHANGED views
    <3>1. flows[s].kind = "boot"
      BY <1>1, <1>7 DEF FlowFits, ExistsReply
    <3>2. SlotsFit'
      BY <1>2, <1>3, <2>3, <3>1, AsksFits DEF Changes
    <3>3. QED
      BY <1>3, <1>7, <2>3, <3>2 DEF Asks, Handle, Reply, ExistsReply
  <2>4. QED
    BY <1>7, <2>2, <2>3 DEF ExistsReply
<1>8. CASE v # None /\ UnlockReply(s, v, r)
  <2>1. [views[v] EXCEPT !.setup = FALSE, !.locked = FALSE] \in View
    BY <1>1, <1>3, <1>8 DEF View
  <2>2. QED
    BY <1>1, <1>3, <1>4, <1>5, <1>8, <2>1, ShowsTyped DEF Reply, UnlockReply
<1>9. CASE v # None /\ StatusReply(s, v, r)
  <2>1. flows[s].kind \in {"boot", "tick"} \cup Changes
    BY <1>1, <1>9 DEF FlowFits, StatusReply
  <2>2. CASE r.ok /\ flows[s].kind = "boot"
    <3>1. [views[v] EXCEPT !.locked = FALSE] \in View
      BY <1>1, <1>3, <1>9 DEF View
    <3>2. Shows(v, [views[v] EXCEPT !.locked = FALSE]) /\ Asks(s, "list", None)
      BY <1>9, <2>2 DEF StatusReply
    <3>3. QED
      BY <1>1, <1>3, <1>5, <1>9, <3>1, <3>2, ShowsTyped DEF Reply, StatusReply
  <2>3. CASE r.ok /\ flows[s].kind = "tick"
    <3>1. Asks(s, "list", None) /\ UNCHANGED views
      BY <1>9, <2>3 DEF StatusReply
    <3>2. QED
      BY <1>3, <1>5, <1>9, <3>1 DEF Reply, StatusReply
  <2>4. CASE r.ok /\ flows[s].kind \in Changes
    <3>1. Asks(s, flows[s].kind, flows[s].arg) /\ UNCHANGED views
      BY <1>9, <2>4 DEF StatusReply, Changes
    <3>2. flows[s].arg \in Accounts /\ flows[s].kind \in Types /\ flows[s].kind \notin {"unlock", "status", "exists"}
      BY <1>1, <2>4 DEF FlowFits, Changes, Types
    <3>3. SlotsFit'
      BY <3>1, <3>2, AsksFits
    <3>4. QED
      BY <1>3, <1>9, <3>1, <3>3 DEF Asks, Handle, Reply, StatusReply
  <2>5. CASE ~r.ok
    <3>1. Shows(v, [views[v] EXCEPT !.booting = FALSE, !.locked = TRUE, !.ticking = FALSE]) /\ Ends(s)
      BY <1>9, <2>5 DEF StatusReply
    <3>2. [views[v] EXCEPT !.booting = FALSE, !.locked = TRUE, !.ticking = FALSE] \in View
      BY <1>1, <1>3, <1>9 DEF View
    <3>3. QED
      BY <1>1, <1>3, <1>4, <1>9, <3>1, <3>2, ShowsTyped DEF Reply, StatusReply
  <2>6. QED
    BY <1>2, <2>1, <2>2, <2>3, <2>4, <2>5
<1>10. CASE v # None /\ ChangeReply(s, v, r)
  <2>1. r.arg \in Accounts
    BY <1>1, <1>10 DEF ChangeReply, Fits, Changes
  <2>2. CASE ~r.ok
    <3>1. Ends(s) /\ UNCHANGED <<views, acked>>
      BY <1>10, <2>2 DEF ChangeReply
    <3>2. QED
      BY <1>3, <1>4, <3>1 DEF Reply
  <2>3. CASE r.ok /\ r.type = "add"
    <3>1. acked' = acked \cup {r.arg} /\ Asks(s, "list", None) /\ UNCHANGED views
      BY <1>10, <2>3 DEF ChangeReply
    <3>2. QED
      BY <1>3, <1>5, <2>1, <3>1 DEF Reply
  <2>4. CASE r.ok /\ r.type = "setActive"
    <3>1. Shows(v, [views[v] EXCEPT !.shown = r.arg]) /\ Ends(s) /\ UNCHANGED acked
      BY <1>10, <2>4 DEF ChangeReply
    <3>2. [views[v] EXCEPT !.shown = r.arg] \in View
      BY <1>1, <1>3, <1>10, <2>1 DEF View
    <3>3. QED
      BY <1>1, <1>3, <1>4, <1>10, <3>1, <3>2, ShowsTyped DEF Reply
  <2>5. QED
    BY <1>2, <1>10, <2>2, <2>3, <2>4 DEF ChangeReply
<1>11. CASE v # None /\ ListReply(s, v, r)
  <2> DEFINE new == [views[v] EXCEPT !.booting = FALSE, !.shown = IF r.ok THEN r.active ELSE @,
                                     !.ticking = @ \/ flows[s].kind \in {"boot", "create", "unlock"}]
  <2>1. new \in View
    BY <1>1, <1>2, <1>3, <1>11 DEF View
  <2>2. Shows(v, new) /\ Ends(s) /\ UNCHANGED acked
    BY <1>11 DEF ListReply
  <2> HIDE DEF new
  <2>3. QED
    BY <1>1, <1>3, <1>4, <1>11, <2>1, <2>2, ShowsTyped DEF Reply
<1>12. CASE v # None /\ LockReply(s, r)
  BY <1>3, <1>4, <1>12 DEF Reply, LockReply
<1>13. QED
  BY <1>6, <1>7, <1>8, <1>9, <1>10, <1>11, <1>12 DEF Reply

\* The types hold at the start.
LEMMA TypeInit == Init => TypeInv
<1> SUFFICES ASSUME Init PROVE TypeInv
  OBVIOUS
<1>1. Sound(Idle) /\ NoFlow \in Flow /\ FlowFits(NoFlow, Idle)
  BY MessageSound DEF Idle, Types, Changes, NoFlow, Flow, Kinds, FlowFits
<1>2. VaultTypeOK
  <2>1. /\ Empty \in VaultData /\ NoVault \in EncryptedVault
        /\ \A pw \in Earlier : [data |-> Empty, password |-> pw] \in EncryptedVault
    BY VaultAssumption DEF Empty, VaultData, NoVault, EncryptedVault
  <2>2. QED
    BY <1>1, <2>1, VaultAssumption DEF Init, VaultInit, VaultTypeOK, Sound
<1>3. TypeOK /\ closes \in Nat
  <2>1. Closed \in View
    BY DEF Closed, View
  <2>2. QED
    BY <1>1, <1>2, <2>1, WalletAssumption DEF Init, VaultInit, TypeOK
<1>4. QED
  BY <1>1, <1>2, <1>3 DEF TypeInv, Init, VaultInit, Sound

\* Every step keeps them.
LEMMA TypeStep == TypeInv /\ [Next]_vars => TypeInv'
<1> SUFFICES ASSUME TypeInv, [Next]_vars PROVE TypeInv'
  OBVIOUS
<1>1. /\ SlotsFit /\ views \in [Views -> View] /\ acked \subseteq Accounts
      /\ actions \in 0 .. MaxActions /\ closes \in Nat /\ restarts \in Nat /\ closes + restarts \in 0 .. MaxFaults
      /\ {"exists", "unlock", "lock", "status"} \subseteq Types
      /\ {"boot", "tick", "create", "unlock", "add", "setActive", "lock"} \subseteq Kinds
  BY DEF TypeInv, TypeOK, SlotsFit, VaultTypeOK, Types, Kinds
<1>2. ASSUME SlotsFit', views' \in [Views -> View], acked' \subseteq Accounts, actions' \in 0 .. MaxActions,
             UNCHANGED <<closes, restarts>>
      PROVE  TypeInv'
  BY <1>1, <1>2 DEF TypeInv, TypeOK, SlotsFit
<1>3. ASSUME NEW v \in Views, NEW kind \in Kinds, NEW arg, NEW type, Starts(v, kind, arg, type)
      PROVE  restarts' = restarts
  BY <1>3 DEF Starts, Handle
<1>4. ASSUME NEW v \in Views, Open(v) PROVE TypeInv'
  <2>1. [Closed EXCEPT !.open = TRUE] \in View
    BY DEF Closed, View
  <2>2. SlotsFit'
    BY <1>1, <1>4, StartsFits DEF Open, Changes
  <2>3. QED
    BY <1>1, <1>2, <1>3, <1>4, <2>1, <2>2, ShowsTyped DEF Open, bounds
<1>5. ASSUME NEW v \in Views, Close(v) PROVE TypeInv'
  <2>1. VaultTypeOK' /\ requests' = requests /\ restarts' = restarts /\ acked' = acked /\ actions' = actions
    BY <1>1, <1>5 DEF Close, SlotsFit, VaultTypeOK, vaultVars, storage, memory
  <2>2. \A s \in Slots : flows'[s] \in Flow /\ FlowFits(flows'[s], requests[s])
    <3>1. TAKE s \in Slots
    <3>2. flows[s] \in Flow /\ FlowFits(flows[s], requests[s])
      BY <1>1 DEF SlotsFit
    <3>3. CASE flows[s].view = v
      <4>1. /\ flows'[s] = [flows[s] EXCEPT !.view = None]
        BY <1>5, <3>3 DEF Close
      <4>2. /\ flows'[s] \in Flow
            /\ flows'[s].view = None /\ flows'[s].kind = flows[s].kind /\ flows'[s].arg = flows[s].arg
        BY <3>2, <4>1 DEF Flow
      <4>3. QED
        BY <3>2, <4>2 DEF FlowFits
    <3>4. CASE flows[s].view # v
      BY <1>5, <3>2, <3>4 DEF Close
    <3>5. QED
      BY <3>3, <3>4
  <2>3. flows' \in [Slots -> Flow]
    BY <1>5, <2>2 DEF Close
  <2>4. SlotsFit'
    BY <1>1, <2>1, <2>2, <2>3 DEF SlotsFit
  <2>5. views' \in [Views -> View]
    BY <1>1, <1>5, ShowsTyped DEF Close, Closed, View
  <2>6. closes' \in Nat /\ closes' + restarts' \in 0 .. MaxFaults
    BY <1>1, <1>5, <2>1, WalletAssumption DEF Close
  <2>7. QED
    BY <1>1, <2>1, <2>4, <2>5, <2>6 DEF TypeInv, TypeOK, SlotsFit
<1>6. ASSUME NEW v \in Views, Act(v) PROVE TypeInv'
  <2>1. UNCHANGED <<views, acked, closes>> /\ actions' \in 0 .. MaxActions
    BY <1>1, <1>6, WalletAssumption DEF Act
  <2>2. CASE \E p \in Passwords :
               /\ views[v].locked
               /\ Starts(v, IF views[v].setup THEN "create" ELSE "unlock", p, "unlock")
    <3>1. PICK p \in Passwords : Starts(v, IF views[v].setup THEN "create" ELSE "unlock", p, "unlock")
      BY <2>2
    <3>2. PICK kind \in {"create", "unlock"} : Starts(v, kind, p, "unlock")
      BY <3>1
    <3>3. kind \in Kinds /\ kind \notin Changes
      BY <1>1 DEF Changes
    <3>4. SlotsFit'
      BY <1>1, <3>2, <3>3, StartsFits DEF Changes
    <3>5. QED
      BY <1>1, <1>2, <1>3, <2>1, <3>2, <3>3, <3>4
  <2>3. CASE \E a \in Accounts :
               /\ ~views[v].locked
               /\ \/ Starts(v, "add", a, "status")
                  \/ a \in acked /\ Starts(v, "setActive", a, "status")
    <3>1. PICK a \in Accounts, kind \in Changes : Starts(v, kind, a, "status")
      BY <2>3 DEF Changes
    <3>2. kind \in Kinds
      BY <1>1 DEF Changes
    <3>3. SlotsFit'
      BY <1>1, <3>1, <3>2, StartsFits DEF Changes
    <3>4. QED
      BY <1>1, <1>2, <1>3, <2>1, <3>1, <3>2, <3>3
  <2>4. CASE Starts(v, "lock", None, "lock")
    <3>1. SlotsFit'
      BY <1>1, <2>4, StartsFits DEF Changes
    <3>2. QED
      BY <1>1, <1>2, <1>3, <2>1, <2>4, <3>1
  <2>5. QED
    BY <1>6, <2>2, <2>3, <2>4 DEF Act
<1>7. ASSUME NEW v \in Views, Tick(v) PROVE TypeInv'
  <2>1. SlotsFit'
    BY <1>1, <1>7, StartsFits DEF Tick, Changes
  <2>2. QED
    BY <1>1, <1>2, <1>3, <1>7, <2>1 DEF Tick, bounds
<1>8. ASSUME NEW s \in Slots, Reply(s) PROVE TypeInv'
  BY <1>1, <1>2, <1>8, ReplyTyped DEF bounds
<1>9. ASSUME NEW s \in Slots, Worker(s) PROVE TypeInv'
  <2>1. VaultTypeOK' /\ Answers(s, requests[s]) /\ UNCHANGED <<views, flows, acked, bounds>>
    BY <1>1, <1>9, HandlerStepTyped DEF Worker, SlotsFit
  <2>2. \A t \in Slots : Fits(requests'[t]) /\ FlowFits(flows'[t], requests'[t])
    BY <1>1, <2>1 DEF SlotsFit, Answers, FlowFits
  <2>3. SlotsFit'
    BY <1>1, <2>1, <2>2 DEF SlotsFit
  <2>4. restarts' = restarts
    BY <1>9 DEF Worker, HandlerStep, Looked, SessionRead, Loaded, Derived, Encrypted
  <2>5. QED
    BY <1>1, <1>2, <2>1, <2>3, <2>4 DEF bounds
<1>10. CASE closes + restarts < MaxFaults /\ Restart /\ UNCHANGED <<views, flows, acked, bounds>>
  <2>1. ASSUME NEW s \in Slots
        PROVE  /\ requests'[s] \in Request /\ Fits(requests'[s])
               /\ requests'[s].type = requests[s].type /\ requests'[s].arg = requests[s].arg
    <3> DEFINE m == Message(requests[s].type, requests[s].arg)
    <3>1. requests[s] \in Request /\ Fits(requests[s])
      BY <1>1 DEF SlotsFit, VaultTypeOK
    <3>2. requests'[s] = IF Running(s) THEN [m EXCEPT !.stage = "broken"] ELSE requests[s]
      BY <1>10 DEF Restart
    <3>3. /\ m \in Request /\ m.type = requests[s].type /\ m.arg = requests[s].arg
          /\ m.vault = None /\ m.changed = FALSE /\ m.ok = FALSE
      <4>1. Sound(m)
        BY <3>1, MessageSound DEF Fits, Request
      <4>2. QED
        BY <4>1 DEF Sound, Message
    <3> HIDE DEF m
    <3>4. /\ [m EXCEPT !.stage = "broken"] \in Request
          /\ [m EXCEPT !.stage = "broken"].type = m.type /\ [m EXCEPT !.stage = "broken"].arg = m.arg
          /\ [m EXCEPT !.stage = "broken"].vault = None /\ [m EXCEPT !.stage = "broken"].changed = FALSE
          /\ [m EXCEPT !.stage = "broken"].ok = FALSE
          /\ [m EXCEPT !.stage = "broken"].stage = "broken"
      BY <3>3 DEF Request, Stages
    <3>5. Fits([m EXCEPT !.stage = "broken"])
      BY <3>1, <3>3, <3>4 DEF Fits, Saves
    <3>6. QED
      BY <3>1, <3>2, <3>3, <3>4, <3>5
  <2>2. requests' \in [Slots -> Request]
    BY <1>10, <2>1 DEF Restart
  <2>3. VaultTypeOK'
    <3>1. Empty \in VaultData
      BY DEF Empty, VaultData
    <3>2. QED
      BY <1>1, <1>10, <2>2, <3>1 DEF SlotsFit, VaultTypeOK, Restart, storage
  <2>4. SlotsFit'
    BY <1>1, <1>10, <2>1, <2>3 DEF SlotsFit, FlowFits
  <2>5. closes' \in Nat /\ closes' + restarts' \in 0 .. MaxFaults
    BY <1>1, <1>10, WalletAssumption DEF Restart, bounds
  <2>6. QED
    BY <1>1, <1>10, <2>4, <2>5 DEF TypeInv, TypeOK, SlotsFit, bounds
<1>11. CASE UNCHANGED vars
  BY <1>11 DEF TypeInv, TypeOK, VaultTypeOK, vars, vaultVars, storage, memory, bounds
<1>12. QED
  BY <1>4, <1>5, <1>6, <1>7, <1>8, <1>9, <1>10, <1>11 DEF Next

\* Worker, views and flows stay well typed, whatever interleaves; in
\* particular a handler never finds a vault object that was given up, and there
\* is always an identity for a new one.
THEOREM WalletTypeCorrect == Spec => []TypeOK
<1>1. TypeInv => TypeOK
  BY DEF TypeInv
<1>2. QED
  BY TypeInit, TypeStep, <1>1, PTL DEF Spec

-----------------------------------------------------------------------------
(* Locks.                                                                   *)

\* What Becomes does to the requests and to the worker's memory.
LEMMA BecomesAt ==
  ASSUME requests \in [Slots -> Request], NEW s \in Slots, NEW q, NEW id, NEW i, NEW data,
         Becomes(s, q, id, i, data)
  PROVE  /\ \A t \in Slots : requests'[t] = IF t = s THEN q ELSE requests[t]
         /\ unlockedVault' = id
BY DEF Becomes

\* A step that leaves the seal, the passwords and the memory's vault alone and
\* puts q into slot s.
LEMMA LockKept ==
  ASSUME LockInv, requests \in [Slots -> Request], NEW s \in Slots, NEW q, GoesOn(s, q),
         UNCHANGED <<session, sessionPassword, sealed>>,
         sealed => Quiet(q), sessionPassword = None /\ session # None => OpensByUnlock(q)
  PROVE  LockInv'
<1>1. /\ \A t \in Slots : requests'[t] = IF t = s THEN q ELSE requests[t]
      /\ unlockedVault' = unlockedVault
  BY BecomesAt DEF GoesOn
<1>2. QED
  BY <1>1 DEF LockInv

\* A handler that has its vault keeps locks, if the seal is broken.
LEMMA LockWithVault ==
  ASSUME LockInv, requests \in [Slots -> Request], NEW s \in Slots, NEW r, Sound(r),
         r.type \in {"unlock"} \cup Lists, NEW i, NEW data, WithVault(s, r, i, data),
         ~sealed, ~sealed', r.type = "unlock" \/ sessionPassword # None \/ session = None
  PROVE  LockInv'
<1>1. CASE r.type = "unlock"
  <2>1. sessionPassword' = r.arg /\ session' = r.arg
    BY <1>1 DEF WithVault
  <2>2. QED
    BY <2>1 DEF LockInv
<1>2. CASE r.type # "unlock"
  <2>1. UNCHANGED <<session, sessionPassword>>
    BY <1>2 DEF WithVault, Lists
  <2>2. QED
    BY <1>2, <2>1 DEF LockInv
<1>3. QED
  BY <1>1, <1>2

\* An arriving message keeps locks.
LEMMA LockHandle ==
  ASSUME LockInv, VaultTypeOK, NEW s \in Slots, NEW r, Sound(r), r.stage = "idle", Handle(s, r)
  PROVE  LockInv'
<1>1. requests \in [Slots -> Request]
  BY DEF VaultTypeOK
<1>2. CASE r.type = "lock" /\ Lock(s, r)
  <2> DEFINE q == Answer(r, TRUE, None)
  <2>1. q.stage = "answered"
    BY AnswerSound
  <2> HIDE DEF q
  <2>2. /\ \A t \in Slots : requests'[t] = IF t = s THEN q ELSE requests[t]
        /\ unlockedVault' = None
    BY <1>1, <1>2, BecomesAt DEF Lock, q
  <2>3. sessionPassword' = None /\ session' = None /\ (sealed' => \A t \in Slots \ {s} : ~Running(t))
    BY <1>2 DEF Lock
  <2>4. QED
    BY <2>1, <2>2, <2>3 DEF LockInv, Running, Quiet, Saves
<1>3. CASE /\ r.type = "exists"
           /\ GoesOn(s, [r EXCEPT !.stage = "exists", !.ok = stored # NoVault])
           /\ UNCHANGED <<session, sessionPassword, sealed>>
  <2> DEFINE q == [r EXCEPT !.stage = "exists", !.ok = stored # NoVault]
  <2>1. q.stage = "exists"
    BY DEF Sound, Request
  <2> HIDE DEF q
  <2>2. Quiet(q) /\ OpensByUnlock(q)
    BY <2>1 DEF Quiet, OpensByUnlock, Saves
  <2>3. GoesOn(s, q)
    BY <1>3 DEF q
  <2>4. QED
    BY <1>1, <1>3, <2>2, <2>3, LockKept
<1>4. CASE r.type = "unlock" /\ Unlock(s, r)
  <2> DEFINE q == AskForVault(r, r.arg)
  <2>1. q.type = "unlock"
    BY <1>4 DEF Sound, Request, AskForVault
  <2> HIDE DEF q
  <2>2. /\ \A t \in Slots : requests'[t] = IF t = s THEN q ELSE requests[t]
        /\ unlockedVault' = unlockedVault
    BY <1>1, <1>4, BecomesAt DEF Unlock, GoesOn, q
  <2>3. UNCHANGED <<session, sessionPassword>> /\ sealed' = FALSE
    BY <1>4 DEF Unlock
  <2>4. QED
    BY <2>1, <2>2, <2>3 DEF LockInv, OpensByUnlock
<1>5. CASE /\ r.type \in {"status", "list", "add", "setActive"}
           /\ unlockedVault # None
           /\ WithVault(s, r, unlockedVault, objects[unlockedVault])
           /\ UNCHANGED sealed
  <2>1. ~sealed /\ ~sealed' /\ (sessionPassword # None \/ session = None)
    BY <1>5 DEF LockInv
  <2>2. QED
    BY <1>1, <1>5, <2>1, LockWithVault DEF Lists
<1>6. CASE /\ r.type \in {"status", "list", "add", "setActive"}
           /\ unlockedVault = None
           /\ GoesOn(s, [r EXCEPT !.stage = "session", !.password = session])
           /\ UNCHANGED <<session, sessionPassword, sealed>>
  <2> DEFINE q == [r EXCEPT !.stage = "session", !.password = session]
  <2>1. q.stage = "session" /\ q.password = session
    BY DEF Sound, Request
  <2> HIDE DEF q
  <2>2. (sealed => Quiet(q)) /\ OpensByUnlock(q)
    BY <2>1 DEF Quiet, OpensByUnlock, Saves, LockInv
  <2>3. GoesOn(s, q)
    BY <1>6 DEF q
  <2>4. QED
    BY <1>1, <1>6, <2>2, <2>3, LockKept
<1>7. QED
  BY <1>2, <1>3, <1>4, <1>5, <1>6 DEF Handle

\* A step of a handler keeps locks.
LEMMA LockHandlerStep ==
  ASSUME LockInv, VaultTypeOK, NEW s \in Slots, Fits(requests[s]), HandlerStep(s)
  PROVE  LockInv'
<1> DEFINE r == requests[s]
<1>1. requests \in [Slots -> Request] /\ Sound(r)
  BY DEF VaultTypeOK, Sound
<1>2. ASSUME r.stage \in {"load"} \cup Saves, WithVault(s, r, r.vault, objects[r.vault]) \/ WithVault(s, r, Fresh, r.copy.data),
             sealed' = sealed
      PROVE  LockInv'
  <2>1. ~sealed /\ ~sealed' /\ (r.type = "unlock" \/ sessionPassword # None \/ session = None)
    BY <1>2 DEF LockInv, Quiet, OpensByUnlock
  <2>2. r.type \in {"unlock"} \cup Lists
    BY <1>2 DEF Fits
  <2>3. QED
    BY <1>1, <1>2, <2>1, <2>2, LockWithVault
<1>3. ASSUME NEW q, q.stage = "answered", GoesOn(s, q), UNCHANGED <<session, sessionPassword, sealed>>
      PROVE  LockInv'
  BY <1>1, <1>3, LockKept DEF Quiet, OpensByUnlock, Saves
<1>4. CASE Looked(s)
  <2>1. r.ok \in BOOLEAN /\ Answer(r, r.ok, None).stage = "answered"
    BY <1>1, AnswerSound DEF Sound, Request
  <2>2. QED
    BY <1>3, <1>4, <2>1 DEF Looked, storage
<1>5. CASE SessionRead(s)
  <2>1. CASE r.password = None
    <3>1. Refuse(r).stage = "answered"
      BY <1>1, AnswerSound DEF Refuse
    <3>2. QED
      BY <1>3, <1>5, <2>1, <3>1 DEF SessionRead, storage
  <2>2. CASE r.password # None
    <3>1. ~sealed' /\ sessionPassword' # None
      BY <1>5, <2>2 DEF SessionRead, LockInv, Quiet
    <3>2. QED
      BY <3>1 DEF LockInv
  <2>3. QED
    BY <2>1, <2>2
<1>6. CASE Loaded(s)
  <2>1. r.stage = "load" /\ sealed' = sealed
    BY <1>6 DEF Loaded
  <2>2. CASE /\ r.copy = NoVault
             /\ Becomes(s, [r EXCEPT !.stage = "derive", !.vault = Fresh], unlockedVault, Fresh, Empty)
             /\ UNCHANGED <<session, sessionPassword>>
    <3> DEFINE q == [r EXCEPT !.stage = "derive", !.vault = Fresh]
    <3>1. q.type = r.type
      BY <1>1 DEF Sound, Request
    <3> HIDE DEF q
    <3>2. /\ \A t \in Slots : requests'[t] = IF t = s THEN q ELSE requests[t]
          /\ unlockedVault' = unlockedVault
      BY <1>1, <2>2, BecomesAt DEF q
    <3>3. ~sealed'
      BY <2>1 DEF LockInv, Quiet
    <3>4. QED
      BY <2>1, <2>2, <3>1, <3>2, <3>3 DEF LockInv, OpensByUnlock
  <2>3. CASE r.copy # NoVault /\ r.copy.password = r.password /\ WithVault(s, r, Fresh, r.copy.data)
    BY <1>2, <2>1, <2>3
  <2>4. CASE /\ r.copy # NoVault /\ r.copy.password # r.password
             /\ GoesOn(s, Refuse(r))
             /\ UNCHANGED <<session, sessionPassword>>
    <3>1. Refuse(r).stage = "answered"
      BY <1>1, AnswerSound DEF Refuse
    <3>2. QED
      BY <1>3, <2>1, <2>4, <3>1
  <2>5. QED
    BY <1>6, <2>2, <2>3, <2>4 DEF Loaded
<1>7. CASE Derived(s)
  <2> DEFINE q == [r EXCEPT !.stage = "encrypt", !.copy = [data |-> objects[r.vault], password |-> r.password]]
  <2>1. q.type = r.type
    BY <1>1 DEF Sound, Request
  <2>2. r.stage = "derive" /\ GoesOn(s, q) /\ UNCHANGED <<session, sessionPassword, sealed>>
    BY <1>7 DEF Derived, storage
  <2> HIDE DEF q
  <2>3. ~sealed /\ (sessionPassword = None /\ session # None => OpensByUnlock(q))
    BY <2>1, <2>2 DEF LockInv, Quiet, OpensByUnlock, Saves
  <2>4. QED
    BY <1>1, <2>2, <2>3, LockKept
<1>8. CASE Encrypted(s)
  <2>1. r.stage = "encrypt" /\ sealed' = sealed
    BY <1>8 DEF Encrypted
  <2>2. CASE r.changed
    <3> DEFINE q == Answer(r, TRUE, r.arg)
    <3>1. r.type \in Changes /\ r.arg \in Accounts
      BY <1>1, <2>2 DEF Sound, Fits
    <3>4. q.stage = "answered"
      BY ZenonT(30), <1>1, <3>1, AnswerSound
    <3> HIDE DEF q
    <3>2. /\ \A t \in Slots : requests'[t] = IF t = s THEN q ELSE requests[t]
          /\ UNCHANGED <<session, sessionPassword>>
      BY <1>1, <1>8, <2>2, BecomesAt DEF Encrypted, q
    <3>3. ~sealed /\ (sessionPassword # None \/ session = None)
      BY <2>1, <3>1 DEF LockInv, Quiet, OpensByUnlock, Saves, Changes
    <3>5. QED
      BY <2>1, <3>2, <3>3 DEF LockInv
  <2>3. CASE ~r.changed
    BY <1>2, <1>8, <2>1, <2>3 DEF Encrypted, Saves
  <2>4. QED
    BY <2>2, <2>3
<1>9. QED
  BY <1>4, <1>5, <1>6, <1>7, <1>8 DEF HandlerStep

-----------------------------------------------------------------------------
(* The steps of the wallet as the worker sees them.                         *)

\* A message that fits its type arrives in slot s; if the response before it
\* said that an account was added, its view has been told now.
Arrives(s, r) ==
  /\ Sound(r) /\ r.stage = "idle"
  /\ Handle(s, r)
  /\ acked' = acked \/ (Acks(requests[s]) /\ acked' = acked \cup {requests[s].arg})

WorkerStep(s) ==
  \/ \E r \in Request : Arrives(s, r)
  \/ requests' = [requests EXCEPT ![s] = Idle] /\ UNCHANGED <<storage, memory, raced, sealed, acked>>
  \/ HandlerStep(s) /\ UNCHANGED acked

\* What a view starts is an arriving message.
LEMMA StartsArrives ==
  ASSUME NEW v, NEW kind, NEW type \in Types,
         NEW arg \in Accounts \cup Passwords \cup {None}, Starts(v, kind, arg, type),
         type \notin Changes, type = "unlock" => arg \in Passwords, acked' = acked
  PROVE  \E s \in Slots : WorkerStep(s)
<1>1. PICK s \in Slots : Handle(s, Message(type, arg))
  BY DEF Starts, Free
<1>2. Sound(Message(type, arg)) /\ Message(type, arg).stage = "idle"
  BY MessageSound DEF Message
<1>3. QED
  BY <1>1, <1>2 DEF WorkerStep, Arrives, Sound

\* Every step is a step of the worker in one slot, its restart, or none of its.
LEMMA StepCases ==
  ASSUME TypeInv, [Next]_vars
  PROVE  \/ \E s \in Slots : WorkerStep(s)
         \/ Restart /\ UNCHANGED acked
         \/ UNCHANGED <<vaultVars, acked>>
<1>1. {"exists", "unlock", "lock", "status", "list", "add", "setActive"} = Types
  BY DEF Types
<1>2. ASSUME NEW v \in Views, Open(v) \/ Act(v) \/ Tick(v)
      PROVE  \E s \in Slots : WorkerStep(s)
  <2>1. acked' = acked
    BY <1>2 DEF Open, Act, Tick
  <2>2. ASSUME NEW p \in Passwords, NEW kind, Starts(v, kind, p, "unlock")
        PROVE  \E s \in Slots : WorkerStep(s)
    BY <1>1, <2>1, <2>2, StartsArrives DEF Changes
  <2>3. ASSUME NEW a \in Accounts, NEW kind, Starts(v, kind, a, "status")
        PROVE  \E s \in Slots : WorkerStep(s)
    BY <1>1, <2>1, <2>3, StartsArrives DEF Changes
  <2>4. ASSUME NEW kind, NEW type \in {"lock", "exists", "status"}, Starts(v, kind, None, type)
        PROVE  \E s \in Slots : WorkerStep(s)
    <3>1. type \in Types /\ type \notin Changes /\ type # "unlock"
      BY DEF Types, Changes
    <3>2. QED
      BY <2>1, <2>4, <3>1, StartsArrives
  <2>5. CASE Open(v)
    BY <2>4, <2>5 DEF Open
  <2>6. CASE Tick(v)
    BY <2>4, <2>6 DEF Tick
  <2>7. CASE Act(v)
    <3>1. \/ \E p \in Passwords : Starts(v, IF views[v].setup THEN "create" ELSE "unlock", p, "unlock")
          \/ \E a \in Accounts : Starts(v, "add", a, "status") \/ Starts(v, "setActive", a, "status")
          \/ Starts(v, "lock", None, "lock")
      BY <2>7 DEF Act
    <3>2. CASE \E p \in Passwords : Starts(v, IF views[v].setup THEN "create" ELSE "unlock", p, "unlock")
      BY <2>2, <3>2
    <3>3. CASE \E a \in Accounts : Starts(v, "add", a, "status") \/ Starts(v, "setActive", a, "status")
      BY <2>3, <3>3
    <3>4. CASE Starts(v, "lock", None, "lock")
      BY <2>4, <3>4
    <3>5. QED
      BY <3>1, <3>2, <3>3, <3>4
  <2>8. QED
    BY <1>2, <2>5, <2>6, <2>7
<1>3. ASSUME NEW s \in Slots, Reply(s) PROVE WorkerStep(s)
  <2> DEFINE r == requests[s]
  <2>1. r \in Request /\ Fits(r) /\ FlowFits(flows[s], r) /\ r.ok \in BOOLEAN /\ r.stage \in {"answered", "broken"}
    BY <1>3 DEF TypeInv, TypeOK, VaultTypeOK, Request, Reply
  <2>2. ASSUME Ends(s), acked' = acked PROVE WorkerStep(s)
    BY <2>2 DEF Ends, WorkerStep, storage, memory
  <2>3. ASSUME NEW type \in Types, NEW arg \in Accounts \cup Passwords \cup {None}, Asks(s, type, arg),
               type \in Changes => arg \in Accounts, type # "unlock",
               acked' = acked \/ (Acks(r) /\ acked' = acked \cup {r.arg})
        PROVE  WorkerStep(s)
    <3>1. Sound(Message(type, arg)) /\ Message(type, arg).stage = "idle"
      BY <2>3, MessageSound DEF Message
    <3>2. QED
      BY <2>3, <3>1 DEF WorkerStep, Arrives, Asks, Sound
  <2>4. ASSUME Asks(s, "list", None) \/ Asks(s, "status", None), acked' = acked PROVE WorkerStep(s)
    BY <1>1, <2>3, <2>4 DEF Changes
  <2>5. CASE flows[s].view = None /\ Ends(s) /\ UNCHANGED <<views, acked>>
    BY <2>2, <2>5
  <2>6. CASE flows[s].view # None /\ ExistsReply(s, flows[s].view, r)
    BY <2>2, <2>4, <2>6 DEF ExistsReply
  <2>7. CASE flows[s].view # None /\ UnlockReply(s, flows[s].view, r)
    BY <2>2, <2>4, <2>7 DEF UnlockReply
  <2>8. CASE flows[s].view # None /\ StatusReply(s, flows[s].view, r)
    <3>1. flows[s].kind \in {"boot", "tick"} \cup Changes /\ acked' = acked
      BY <2>1, <2>8 DEF FlowFits, StatusReply
    <3>2. CASE r.ok /\ flows[s].kind \in Changes
      <4>1. Asks(s, flows[s].kind, flows[s].arg)
        BY <2>8, <3>2 DEF StatusReply, Changes
      <4>2. flows[s].arg \in Accounts /\ flows[s].kind \in Types /\ flows[s].kind # "unlock"
        BY <1>1, <2>1, <3>2 DEF FlowFits, Changes
      <4>3. QED
        BY <2>3, <3>1, <4>1, <4>2
    <3>3. CASE r.ok /\ flows[s].kind \in {"boot", "tick"}
      <4>1. Asks(s, "list", None)
        BY <2>8, <3>3 DEF StatusReply
      <4>2. QED
        BY <2>4, <3>1, <4>1
    <3>4. CASE ~r.ok
      <4>1. Ends(s)
        BY <2>8, <3>4 DEF StatusReply
      <4>2. QED
        BY <2>2, <3>1, <4>1
    <3>5. QED
      BY <2>1, <3>1, <3>2, <3>3, <3>4
  <2>9. CASE flows[s].view # None /\ ChangeReply(s, flows[s].view, r)
    <3>1. r.type \in Changes /\ r.arg \in Accounts
      BY <2>1, <2>9 DEF ChangeReply, Fits, Changes
    <3>2. CASE ~r.ok
      BY <2>2, <2>9, <3>2 DEF ChangeReply
    <3>3. CASE r.ok /\ r.type = "add"
      <4>1. acked' = acked \cup {r.arg} /\ Asks(s, "list", None)
        BY <2>9, <3>3 DEF ChangeReply
      <4>2. r.stage = "answered"
        BY <2>1, <3>3 DEF Fits
      <4>3. QED
        BY <1>1, <2>3, <3>3, <4>1, <4>2 DEF Acks, Changes
    <3>4. CASE r.ok /\ r.type = "setActive"
      BY <2>2, <2>9, <3>4 DEF ChangeReply
    <3>5. QED
      BY <2>1, <3>1, <3>2, <3>3, <3>4 DEF Changes
  <2>10. CASE flows[s].view # None /\ ListReply(s, flows[s].view, r)
    BY <2>2, <2>10 DEF ListReply
  <2>11. CASE flows[s].view # None /\ LockReply(s, r)
    BY <2>2, <2>11 DEF LockReply
  <2>12. QED
    BY <1>3, <2>5, <2>6, <2>7, <2>8, <2>9, <2>10, <2>11 DEF Reply
<1>4. ASSUME NEW s \in Slots, Worker(s) PROVE WorkerStep(s)
  BY <1>4 DEF Worker, WorkerStep
<1>5. ASSUME NEW v \in Views, Close(v) PROVE UNCHANGED <<vaultVars, acked>>
  BY <1>5 DEF Close
<1>6. CASE UNCHANGED vars
  BY <1>6 DEF vars
<1>7. QED
  BY <1>2, <1>3, <1>4, <1>5, <1>6 DEF Next

\* Nothing is open and nothing under way at first.
LEMMA LockInit == Init => LockInv
BY DEF Init, VaultInit, LockInv, OpensByUnlock, Idle, Message, Saves

\* No step undoes a lock.
LEMMA LockStep == TypeInv /\ LockInv /\ [Next]_vars => LockInv'
<1> SUFFICES ASSUME TypeInv, LockInv, [Next]_vars PROVE LockInv'
  OBVIOUS
<1>1. VaultTypeOK /\ requests \in [Slots -> Request] /\ \A s \in Slots : Fits(requests[s])
  BY DEF TypeInv, TypeOK, VaultTypeOK
<1>2. ASSUME NEW s \in Slots, WorkerStep(s) PROVE LockInv'
  <2>1. CASE \E r \in Request : Arrives(s, r)
    BY <1>1, <2>1, LockHandle DEF Arrives
  <2>2. CASE requests' = [requests EXCEPT ![s] = Idle] /\ UNCHANGED <<storage, memory, raced, sealed, acked>>
    <3>1. \A t \in Slots : requests'[t] = requests[t] \/ requests'[t].stage = "idle"
      BY <1>1, <2>2 DEF Idle, Message
    <3>2. QED
      BY <2>2, <3>1 DEF LockInv, Quiet, OpensByUnlock, Saves, storage, memory
  <2>3. CASE HandlerStep(s) /\ UNCHANGED acked
    BY <1>1, <2>3, LockHandlerStep
  <2>4. QED
    BY <1>2, <2>1, <2>2, <2>3 DEF WorkerStep
<1>3. CASE Restart
  <2>1. \A t \in Slots : requests'[t].stage \in {"broken", "idle", "answered"}
    BY <1>1, <1>3 DEF Restart, Running, Message
  <2>2. QED
    BY <1>3, <2>1 DEF Restart, LockInv, Quiet, OpensByUnlock, Saves, storage
<1>4. CASE UNCHANGED <<vaultVars, acked>>
  BY <1>4 DEF vaultVars, LockInv, storage, memory
<1>5. QED
  BY <1>2, <1>3, <1>4, StepCases

\* Neither a request that a view has on its way nor a restart of the worker
\* undoes a lock; only a handler that was running when it came can.
THEOREM LocksForget == Spec => []LockForgets
<1>1. LockInv => LockForgets
  BY DEF LockInv, LockForgets
<1>2. QED
  BY TypeInit, TypeStep, LockInit, LockStep, <1>1, PTL DEF Spec

-----------------------------------------------------------------------------
(* Saves.                                                                   *)

\* Becomes notes an overlap and forgets none.
LEMMA OverlapRaces ==
  ASSUME NEW s, NEW q, NEW id, NEW i, NEW data, Becomes(s, q, id, i, data)
  PROVE  (Overlap => raced)' /\ (raced => raced')
BY DEF Becomes

\* Only the answer to an added account adds to what views are told.
LEMMA ToldKept ==
  ASSUME requests \in [Slots -> Request], NEW s \in Slots, NEW q, ~Acks(q),
         \A t \in Slots : requests'[t] = IF t = s THEN q ELSE requests[t],
         acked' = acked \/ (Acks(requests[s]) /\ acked' = acked \cup {requests[s].arg})
  PROVE  Told' \subseteq Told
BY DEF Told, Acks

\* A step of the handler in slot s that writes nothing keeps every copy of the
\* vault, if the object it puts in place has at least what it had before.
LEMMA KeptBecomes ==
  ASSUME Kept, VaultTypeOK, \A t \in Slots : Fits(requests[t]),
         NEW s \in Slots, NEW q, NEW id \in Ids \cup {None}, NEW i, NEW data,
         Becomes(s, q, id, i, data),
         stored' = stored, Told' \subseteq Told,
         session' \in {None, stored.password}, sessionPassword' \in {None, stored.password},
         id # None => id = unlockedVault \/ (id = i /\ Told \subseteq data.accounts),
         \A j \in Ids : Held(j) /\ j = i => objects[j].accounts \subseteq data.accounts,
         q.stage = "session" => q.password \in {None, stored.password},
         LoadFits(q),
         q.stage \in Saves =>
           q.vault \in Ids /\ SaveFits(q, IF q.vault = i THEN data.accounts ELSE objects[q.vault].accounts)
  PROVE  Kept'
<1>1. \A t \in Slots : requests'[t] = IF t = s THEN q ELSE requests[t]
  BY DEF VaultTypeOK, Becomes
<1>2. \A j \in Ids : objects'[j] = IF ~Held(j)' THEN Empty ELSE IF j = i THEN data ELSE objects[j]
  BY DEF Becomes
<1>3. unlockedVault' = id
  BY DEF Becomes
<1>4. \A j \in Ids : Held(j) /\ Held(j)' => objects[j].accounts \subseteq objects'[j].accounts
  BY <1>2
<1>5. unlockedVault' # None => (Told \subseteq objects[unlockedVault].accounts)'
  <2>1. SUFFICES ASSUME id # None PROVE Told' \subseteq objects'[id].accounts
    BY <1>3
  <2>2. id \in Ids /\ Held(id)'
    BY <1>3, <2>1 DEF Held
  <2>3. CASE id = unlockedVault
    <3>1. Held(id) /\ Told \subseteq objects[id].accounts
      BY <2>1, <2>3 DEF Held, Kept
    <3>2. QED
      BY <1>4, <2>2, <3>1
  <2>4. CASE id = i /\ Told \subseteq data.accounts
    BY <1>2, <2>2, <2>4
  <2>5. QED
    BY <2>1, <2>3, <2>4
<1>6. ASSUME NEW t \in Slots
      PROVE  /\ requests'[t].stage = "session" => requests'[t].password \in {None, stored'.password}
             /\ LoadFits(requests[t])'
             /\ SaveFits(requests[t], objects[requests[t].vault].accounts)'
  <2>1. CASE t = s
    <3>1. requests'[t] = q
      BY <1>1, <2>1
    <3>2. LoadFits(requests[t])'
      BY <3>1 DEF LoadFits
    <3>3. ASSUME q.stage \in Saves
          PROVE  objects'[q.vault] = IF q.vault = i THEN data ELSE objects[q.vault]
      <4>1. Held(q.vault)'
        BY <3>1 DEF Held
      <4>2. QED
        BY <1>2, <3>3, <4>1
    <3>4. SaveFits(requests[t], objects[requests[t].vault].accounts)'
      BY <3>1, <3>3 DEF SaveFits
    <3>5. QED
      BY <3>1, <3>2, <3>4
  <2>2. CASE t # s
    <3>1. requests'[t] = requests[t]
      BY <1>1, <2>2
    <3>2. /\ requests[t].stage = "session" => requests[t].password \in {None, stored.password}
          /\ LoadFits(requests[t])
          /\ SaveFits(requests[t], objects[requests[t].vault].accounts)
      BY DEF Kept
    <3>3. LoadFits(requests[t])'
      BY <3>1, <3>2 DEF LoadFits
    <3>4. SaveFits(requests[t], objects[requests[t].vault].accounts)'
      <4>1. CASE requests[t].vault \in Ids
        <5>1. objects[requests[t].vault].accounts \subseteq objects'[requests[t].vault].accounts
          BY <1>4, <3>1, <4>1 DEF Held
        <5>2. QED
          BY <3>1, <3>2, <5>1 DEF SaveFits
      <4>2. CASE requests[t].stage \notin Saves
        BY <3>1, <4>2 DEF SaveFits
      <4>3. QED
        BY <4>1, <4>2 DEF Fits
    <3>5. QED
      BY <3>1, <3>2, <3>3, <3>4
  <2>3. QED
    BY <2>1, <2>2
<1>7. QED
  BY <1>5, <1>6 DEF Kept

\* A step that answers or refuses in slot s, or asks for something, and leaves
\* memory and storage alone.
LEMMA KeptGoesOn ==
  ASSUME Kept, VaultTypeOK, \A t \in Slots : Fits(requests[t]),
         NEW s \in Slots, NEW q, GoesOn(s, q), q.stage \notin Saves, Told' \subseteq Told,
         stored' = stored, session' = session, sessionPassword' \in {None, stored.password},
         q.stage = "session" => q.password \in {None, stored.password}, LoadFits(q)
  PROVE  Kept'
<1>1. Becomes(s, q, unlockedVault, None, Empty) /\ unlockedVault \in Ids \cup {None}
  BY DEF GoesOn, VaultTypeOK
<1>2. session \in {None, stored.password}
  BY DEF Kept
<1>3. QED
  BY <1>1, <1>2, NoneIsNoId, KeptBecomes

\* What Told is after the handler in slot s went on as q.
LEMMA ToldBecomes ==
  ASSUME VaultTypeOK, NEW s \in Slots, NEW q, NEW id, NEW i, NEW data, Becomes(s, q, id, i, data), ~Acks(q),
         acked' = acked \/ (Acks(requests[s]) /\ acked' = acked \cup {requests[s].arg})
  PROVE  Told' \subseteq Told
<1>1. requests \in [Slots -> Request]
  BY DEF VaultTypeOK
<1>2. \A t \in Slots : requests'[t] = IF t = s THEN q ELSE requests[t]
  BY <1>1, BecomesAt
<1>3. QED
  BY <1>1, <1>2, ToldKept

\* The rest of a handler with its vault: data has everything views were told,
\* and an unlock has opened the stored vault.
LEMMA KeptWithVault ==
  ASSUME Kept, VaultTypeOK, \A t \in Slots : Fits(requests[t]),
         NEW s \in Slots, NEW r, Sound(r), NEW i \in Ids, NEW data \in VaultData,
         r.type \in {"unlock"} \cup Lists, WithVault(s, r, i, data), stored' = stored,
         r.type = "unlock" => r.arg = stored.password,
         Told \subseteq data.accounts, Held(i) => objects[i].accounts \subseteq data.accounts,
         acked' = acked \/ (Acks(requests[s]) /\ acked' = acked \cup {requests[s].arg})
  PROVE  Kept'
<1>1. session \in {None, stored.password} /\ sessionPassword \in {None, stored.password}
  BY DEF Kept
<1>2. ASSUME NEW q, q.stage = "answered", ~Acks(q), Becomes(s, q, i, i, data),
             session' \in {None, stored.password}, sessionPassword' \in {None, stored.password}
      PROVE  Kept'
  <2>1. Told' \subseteq Told
    BY <1>2, ToldBecomes
  <2>2. LoadFits(q) /\ q.stage \notin Saves /\ q.stage # "session"
    BY <1>2 DEF LoadFits, Saves
  <2>3. QED
    BY <1>2, <2>1, <2>2, KeptBecomes
<1>3. CASE r.type = "unlock"
  <2>1. Answer(r, TRUE, None).stage = "answered" /\ ~Acks(Answer(r, TRUE, None))
    BY <1>3, AnswerSound DEF Acks
  <2>2. QED
    BY <1>2, <1>3, <2>1 DEF WithVault
<1>4. CASE r.type \in {"status", "list"}
  <2>1. data.active \in Accounts \cup {None}
    BY DEF VaultData
  <2>2. Answer(r, TRUE, data.active).stage = "answered" /\ ~Acks(Answer(r, TRUE, data.active))
    BY <1>4, <2>1, AnswerSound DEF Acks
  <2>3. QED
    BY <1>1, <1>2, <1>4, <2>2 DEF WithVault
<1>5. CASE r.type \in Changes /\ Becomes(s, Refuse(r), i, i, data) /\ UNCHANGED <<session, sessionPassword>>
  <2>1. Refuse(r).stage = "answered" /\ ~Acks(Refuse(r))
    BY AnswerSound DEF Refuse, Acks
  <2>2. QED
    BY <1>1, <1>2, <1>5, <2>1
<1>6. ASSUME r.type \in Changes, sessionPassword # None, UNCHANGED <<session, sessionPassword>>,
             Becomes(s, [r EXCEPT !.stage = "derive", !.vault = i, !.changed = TRUE,
                                  !.password = sessionPassword, !.copy = NoVault],
                     i, i, Change(r, data))
      PROVE  Kept'
  <2> DEFINE q == [r EXCEPT !.stage = "derive", !.vault = i, !.changed = TRUE,
                            !.password = sessionPassword, !.copy = NoVault]
             new == Change(r, data)
  <2>1. /\ q.stage = "derive" /\ q.vault = i /\ q.changed = TRUE /\ q.password = sessionPassword
        /\ q.type = r.type /\ q.arg = r.arg
    BY DEF Sound, Request
  <2>2. data.accounts \subseteq new.accounts /\ (r.type = "add" => r.arg \in new.accounts)
    BY DEF Change
  <2>3. Becomes(s, q, i, i, new)
    BY <1>6
  <2> HIDE DEF q, new
  <2>4. Told' \subseteq Told
    BY <2>1, <2>3, ToldBecomes DEF Acks
  <2>5. SaveFits(q, new.accounts) /\ LoadFits(q)
    BY <1>1, <1>6, <2>1, <2>2 DEF SaveFits, LoadFits
  <2>6. q.stage # "session" /\ q.vault \in Ids /\ Told \subseteq new.accounts
    BY <2>1, <2>2
  <2>7. QED
    BY <1>1, <1>6, <2>1, <2>2, <2>3, <2>4, <2>5, <2>6, KeptBecomes
<1>7. QED
  BY <1>3, <1>4, <1>5, <1>6 DEF WithVault, Lists, Changes

\* An arriving message keeps the copies.
LEMMA KeptHandle ==
  ASSUME Kept, VaultTypeOK, \A t \in Slots : Fits(requests[t]),
         NEW s \in Slots, NEW r, Sound(r), r.stage = "idle", Handle(s, r),
         acked' = acked \/ (Acks(requests[s]) /\ acked' = acked \cup {requests[s].arg})
  PROVE  Kept'
<1>1. stored' = stored
  BY DEF Handle
<1>2. session \in {None, stored.password} /\ sessionPassword \in {None, stored.password}
  BY DEF Kept
<1>3. ASSUME NEW q, GoesOn(s, q), ~Acks(q), q.stage \notin Saves, LoadFits(q),
             q.stage = "session" => q.password \in {None, stored.password},
             UNCHANGED <<session, sessionPassword>>
      PROVE  Kept'
  <2>1. Told' \subseteq Told
    BY <1>3, ToldBecomes DEF GoesOn
  <2>2. QED
    BY <1>1, <1>2, <1>3, <2>1, KeptGoesOn
<1>4. CASE r.type = "lock" /\ Lock(s, r)
  <2> DEFINE q == Answer(r, TRUE, None)
  <2>1. q.stage = "answered" /\ q.type = "lock"
    <3>1. Sound(r) /\ TRUE \in BOOLEAN /\ None \in Accounts \cup {None}
      OBVIOUS
    <3>3. q.stage = "answered" /\ q.type = r.type
      BY <3>1, AnswerSound
    <3>2. QED
      BY <1>4, <3>3
  <2>2. Becomes(s, q, None, None, Empty) /\ session' = None /\ sessionPassword' = None
    BY <1>4 DEF Lock
  <2> HIDE DEF q
  <2>3. ~Acks(q) /\ LoadFits(q) /\ q.stage \notin Saves /\ q.stage # "session"
    BY <2>1 DEF Acks, LoadFits, Saves
  <2>4. Told' \subseteq Told
    BY <2>2, <2>3, ToldBecomes
  <2>5. QED
    BY <1>1, <2>2, <2>3, <2>4, NoneIsNoId, KeptBecomes
<1>5. CASE /\ r.type = "exists"
           /\ GoesOn(s, [r EXCEPT !.stage = "exists", !.ok = stored # NoVault])
           /\ UNCHANGED <<session, sessionPassword, sealed>>
  <2> DEFINE q == [r EXCEPT !.stage = "exists", !.ok = stored # NoVault]
  <2>1. q.stage = "exists"
    BY DEF Sound, Request
  <2>2. GoesOn(s, q)
    BY <1>5
  <2> HIDE DEF q
  <2>3. QED
    BY <1>3, <1>5, <2>1, <2>2 DEF Acks, LoadFits, Saves
<1>6. CASE r.type = "unlock" /\ Unlock(s, r)
  <2> DEFINE q == AskForVault(r, r.arg)
  <2>1. q.stage = "load" /\ q.copy = stored /\ q.password = r.arg /\ q.type = "unlock" /\ q.arg = r.arg
    BY <1>6 DEF Sound, Request, AskForVault
  <2>2. GoesOn(s, q) /\ UNCHANGED <<session, sessionPassword>>
    BY <1>6 DEF Unlock
  <2> HIDE DEF q
  <2>3. r.arg # None
    BY <1>6, VaultAssumption DEF Sound, Fits
  <2>4. QED
    BY <1>3, <2>1, <2>2, <2>3 DEF Acks, LoadFits, Saves
<1>7. CASE /\ r.type \in {"status", "list", "add", "setActive"}
           /\ unlockedVault # None
           /\ WithVault(s, r, unlockedVault, objects[unlockedVault])
           /\ UNCHANGED sealed
  <2>1. unlockedVault \in Ids /\ objects[unlockedVault] \in VaultData
    BY <1>7 DEF VaultTypeOK
  <2>2. Told \subseteq objects[unlockedVault].accounts
    BY <1>7 DEF Kept
  <2>3. QED
    BY <1>1, <1>7, <2>1, <2>2, KeptWithVault DEF Lists
<1>8. CASE /\ r.type \in {"status", "list", "add", "setActive"}
           /\ unlockedVault = None
           /\ GoesOn(s, [r EXCEPT !.stage = "session", !.password = session])
           /\ UNCHANGED <<session, sessionPassword, sealed>>
  <2> DEFINE q == [r EXCEPT !.stage = "session", !.password = session]
  <2>1. q.stage = "session" /\ q.password = session
    BY DEF Sound, Request
  <2>2. GoesOn(s, q)
    BY <1>8
  <2> HIDE DEF q
  <2>3. QED
    BY <1>2, <1>3, <1>8, <2>1, <2>2 DEF Acks, LoadFits, Saves
<1>9. QED
  BY <1>4, <1>5, <1>6, <1>7, <1>8 DEF Handle

\* A save that ends keeps the copies: it was the only one, and no load was under
\* way, so what it wrote is what every handler goes by.
LEMMA KeptEncrypted ==
  ASSUME Kept, VaultTypeOK, \A t \in Slots : Fits(requests[t]), ~Overlap,
         NEW s \in Slots, Encrypted(s), acked' = acked
  PROVE  Kept'
<1> DEFINE r == requests[s]
<1>1. r.stage = "encrypt" /\ stored' = r.copy /\ r \in Request /\ Sound(r)
  BY DEF Encrypted, Sound, VaultTypeOK
<1>2. /\ Told \subseteq objects[r.vault].accounts /\ Told \subseteq r.copy.data.accounts
      /\ r.password # None /\ r.copy.password = r.password
      /\ IF r.changed THEN /\ r.password = stored.password
                           /\ r.type = "add" => r.arg \in objects[r.vault].accounts \cap r.copy.data.accounts
                      ELSE stored = NoVault /\ r.type = "unlock" /\ r.password = r.arg
      /\ r.vault \in Ids
  BY <1>1 DEF Kept, SaveFits, Saves, Sound, Fits
<1>3. \A t \in Slots \ {s} : requests[t].stage \notin {"load"} \cup Saves
  BY <1>1 DEF Overlap, Saving, Loading, Saves
<1>4. \A t \in Slots : requests[t].stage = "session" => requests[t].password \in {None, stored'.password}
  <2>1. \A t \in Slots : requests[t].stage = "session" => requests[t].password \in {None, stored.password}
    BY DEF Kept
  <2>2. stored.password \in {None, stored'.password}
    BY <1>1, <1>2 DEF NoVault
  <2>3. QED
    BY <2>1, <2>2
<1>5. session \in {None, stored'.password} /\ sessionPassword \in {None, stored'.password}
  <2>1. session \in {None, stored.password} /\ sessionPassword \in {None, stored.password}
    BY DEF Kept
  <2>2. stored.password \in {None, stored'.password}
    BY <1>1, <1>2 DEF NoVault
  <2>3. QED
    BY <2>1, <2>2
<1>6. ASSUME NEW q, q.stage = "answered", NEW i, NEW data,
             Becomes(s, q, r.vault, i, data), i = r.vault => data = objects[r.vault],
             session' \in {None, stored'.password}, sessionPassword' \in {None, stored'.password},
             Acks(q) => q.arg \in objects[r.vault].accounts \cap r.copy.data.accounts
      PROVE  Kept'
  <2>1. /\ \A t \in Slots : requests'[t] = IF t = s THEN q ELSE requests[t]
        /\ unlockedVault' = r.vault
    BY <1>6, BecomesAt DEF VaultTypeOK
  <2>2. objects'[r.vault] = objects[r.vault]
    <3>1. \A j \in Ids : objects'[j] = IF ~Held(j)' THEN Empty ELSE IF j = i THEN data ELSE objects[j]
      BY <1>6 DEF Becomes
    <3>2. ASSUME NEW j \in Ids, j = r.vault PROVE objects'[j] = objects[j]
      <4>1. Held(j)'
        BY <2>1, <3>2 DEF Held
      <4>2. i = j => data = objects[j]
        BY <1>6, <3>2
      <4>3. QED
        BY <3>1, <4>1, <4>2
    <3>3. QED
      BY <1>2, <3>2
  <2>3. Told' \subseteq objects[r.vault].accounts /\ Told' \subseteq r.copy.data.accounts
    <3>1. Told' \subseteq Told \cup (IF Acks(q) THEN {q.arg} ELSE {})
      BY <2>1 DEF Told, Acks
    <3>2. QED
      BY <1>2, <1>6, <3>1
  <2>4. \A t \in Slots : /\ requests'[t].stage \notin {"load"} \cup Saves
                         /\ requests'[t].stage = "session" => requests'[t].password \in {None, stored'.password}
    BY <1>3, <1>4, <1>6, <2>1 DEF Saves
  <2>5. \A t \in Slots : LoadFits(requests[t])' /\ SaveFits(requests[t], objects[requests[t].vault].accounts)'
    BY <2>4 DEF LoadFits, SaveFits
  <2>6. stored'.password # None
    BY <1>1, <1>2
  <2>7. QED
    BY <1>1, <1>6, <2>1, <2>2, <2>3, <2>4, <2>5, <2>6 DEF Kept
<1>7. CASE r.changed
  <2> DEFINE q == Answer(r, TRUE, r.arg)
  <2>1. r.arg \in Accounts
    BY <1>1, <1>7 DEF Sound, Fits
  <2>2. q.stage = "answered" /\ q.type = r.type /\ q.arg = r.arg
    <3>1. Sound(r) /\ r.arg \in Accounts \cup {None}
      BY <1>1, <2>1
    <3>2. QED
      BY <3>1, AnswerSound
  <2>3. Becomes(s, q, r.vault, None, Empty) /\ UNCHANGED <<session, sessionPassword>>
    BY <1>7 DEF Encrypted
  <2> HIDE DEF q
  <2>4. Acks(q) => q.arg \in objects[r.vault].accounts \cap r.copy.data.accounts
    BY <1>2, <1>7, <2>2 DEF Acks
  <2>5. QED
    BY <1>2, <1>5, <1>6, <2>2, <2>3, <2>4, NoneIsNoId
<1>8. CASE ~r.changed
  <2> DEFINE q == Answer(r, TRUE, None)
  <2>1. r.type = "unlock" /\ r.password = r.arg
    BY <1>2, <1>8
  <2>2. q.stage = "answered" /\ q.type = "unlock"
    <3>1. Sound(r)
      BY <1>1
    <3>2. q.stage = "answered" /\ q.type = r.type
      BY <3>1, AnswerSound
    <3>3. QED
      BY <2>1, <3>2
  <2>3. /\ Becomes(s, q, r.vault, r.vault, objects[r.vault])
        /\ sessionPassword' = r.arg /\ session' = r.arg
    BY <1>8, <2>1 DEF Encrypted, WithVault
  <2> HIDE DEF q
  <2>4. ~Acks(q)
    BY <2>2 DEF Acks
  <2>5. r.arg = stored'.password
    BY <1>1, <1>2, <2>1
  <2>6. QED
    BY <1>6, <2>2, <2>3, <2>4, <2>5
<1>9. QED
  BY <1>7, <1>8

\* A step of a handler keeps the copies.
LEMMA KeptHandlerStep ==
  ASSUME Kept, VaultTypeOK, \A t \in Slots : Fits(requests[t]), ~Overlap,
         NEW s \in Slots, HandlerStep(s), acked' = acked
  PROVE  Kept'
<1> DEFINE r == requests[s]
<1>1. r \in Request /\ Sound(r) /\ Fits(r)
  BY DEF Sound, VaultTypeOK
<1>2. session \in {None, stored.password} /\ sessionPassword \in {None, stored.password}
  BY DEF Kept
<1>3. ASSUME NEW q, GoesOn(s, q), ~Acks(q), q.stage \notin {"session"} \cup Saves, LoadFits(q),
             UNCHANGED <<stored, session>>, sessionPassword' \in {None, stored.password}
      PROVE  Kept'
  <2>1. Told' \subseteq Told
    BY <1>3, ToldBecomes DEF GoesOn
  <2>2. QED
    BY <1>3, <2>1, KeptGoesOn
<1>4. Refuse(r).stage = "answered" /\ ~Acks(Refuse(r)) /\ LoadFits(Refuse(r)) /\ Refuse(r).stage \notin {"session"} \cup Saves
  <2>1. Refuse(r).stage = "answered" /\ Refuse(r).ok = FALSE
    BY <1>1, AnswerSound DEF Refuse
  <2>2. QED
    BY <2>1 DEF Acks, LoadFits, Saves
<1>5. CASE Looked(s)
  <2> DEFINE q == Answer(r, r.ok, None)
  <2>1. r.ok \in BOOLEAN /\ r.type = "exists"
    BY <1>1, <1>5 DEF Request, Fits, Looked
  <2>2. q.stage = "answered" /\ q.type = r.type
    <3>1. Sound(r) /\ None \in Accounts \cup {None}
      BY <1>1
    <3>2. QED
      BY <2>1, <3>1, AnswerSound
  <2>3. GoesOn(s, q) /\ UNCHANGED <<stored, session, sessionPassword>>
    BY <1>5 DEF Looked, storage
  <2> HIDE DEF q
  <2>4. QED
    BY <1>2, <1>3, <2>1, <2>2, <2>3 DEF Acks, LoadFits, Saves
<1>6. CASE SessionRead(s)
  <2>1. r.stage = "session" /\ r.type \in Lists /\ UNCHANGED <<stored, session>> /\ r.password \in {None, stored.password}
    BY <1>1, <1>6 DEF SessionRead, Fits, storage, Kept
  <2>2. CASE r.password = None
    BY <1>2, <1>3, <1>4, <1>6, <2>1, <2>2 DEF SessionRead
  <2>3. CASE r.password # None
    <3> DEFINE q == AskForVault(r, r.password)
    <3>1. q.stage = "load" /\ q.copy = stored /\ q.password = r.password /\ q.type = r.type
      BY <1>1 DEF Request, AskForVault
    <3>2. GoesOn(s, q) /\ sessionPassword' = r.password
      BY <1>6, <2>3 DEF SessionRead
    <3> HIDE DEF q
    <3>3. LoadFits(q) /\ ~Acks(q) /\ q.stage \notin {"session"} \cup Saves
      BY <2>1, <2>3, <3>1 DEF LoadFits, Lists, Acks, Saves
    <3>4. QED
      BY <1>3, <2>1, <3>2, <3>3
  <2>4. QED
    BY <2>2, <2>3
<1>7. CASE Loaded(s)
  <2>1. /\ r.stage = "load" /\ stored' = stored /\ r.type \in {"unlock"} \cup Lists /\ r.vault = None
        /\ r.copy = stored /\ r.password # None
        /\ r.password = IF r.type = "unlock" THEN r.arg ELSE stored.password
    BY <1>1, <1>7 DEF Loaded, Fits, Saves, Kept, LoadFits
  <2>2. Fresh \in Ids /\ ~Held(Fresh)
    BY <2>1, FreshIsFree
  <2>3. CASE /\ r.copy = NoVault
             /\ Becomes(s, [r EXCEPT !.stage = "derive", !.vault = Fresh], unlockedVault, Fresh, Empty)
             /\ UNCHANGED <<session, sessionPassword>>
    <3> DEFINE q == [r EXCEPT !.stage = "derive", !.vault = Fresh]
    <3>1. /\ q.stage = "derive" /\ q.vault = Fresh /\ q.type = r.type /\ q.arg = r.arg
          /\ q.password = r.password /\ q.changed = r.changed
      BY <1>1 DEF Request
    <3>2. Becomes(s, q, unlockedVault, Fresh, Empty)
      BY <2>3
    <3> HIDE DEF q
    <3>3. r.type = "unlock" /\ ~r.changed
      BY <1>1, <2>1, <2>3 DEF NoVault, Fits, Changes, Request
    <3>4. Told \subseteq Empty.accounts
      BY <2>1, <2>3 DEF Kept, NoVault
    <3>5. ~Acks(q) /\ LoadFits(q) /\ q.stage # "session" /\ SaveFits(q, Empty.accounts)
      BY <2>1, <2>3, <3>1, <3>3, <3>4 DEF Acks, LoadFits, SaveFits
    <3>6. Told' \subseteq Told
      BY <3>2, <3>5, ToldBecomes
    <3>7. unlockedVault \in Ids \cup {None}
      BY DEF VaultTypeOK
    <3>8. \A j \in Ids : Held(j) /\ j = Fresh => objects[j].accounts \subseteq Empty.accounts
      BY <2>2
    <3> HIDE DEF Told
    <3>9. QED
      BY <1>2, <2>1, <2>2, <2>3, <3>1, <3>2, <3>5, <3>6, <3>7, <3>8, KeptBecomes
  <2>4. CASE r.copy # NoVault /\ r.copy.password = r.password /\ WithVault(s, r, Fresh, r.copy.data)
    <3>1. r.copy.data \in VaultData
      BY <1>1 DEF Request, EncryptedVault
    <3>2. Told \subseteq r.copy.data.accounts
      BY <2>1 DEF Kept
    <3>3. r.type = "unlock" => r.arg = stored.password
      BY <2>1, <2>4
    <3>4. QED
      BY <1>1, <2>1, <2>2, <2>4, <3>1, <3>2, <3>3, KeptWithVault
  <2>5. CASE /\ r.copy # NoVault /\ r.copy.password # r.password
             /\ GoesOn(s, Refuse(r))
             /\ UNCHANGED <<session, sessionPassword>>
    BY <1>2, <1>3, <1>4, <2>1, <2>5
  <2>6. QED
    BY <1>7, <2>3, <2>4, <2>5 DEF Loaded
<1>8. CASE Derived(s)
  <2> DEFINE q == [r EXCEPT !.stage = "encrypt", !.copy = [data |-> objects[r.vault], password |-> r.password]]
  <2>1. r.stage = "derive" /\ r.vault \in Ids /\ SaveFits(r, objects[r.vault].accounts)
    BY <1>1, <1>8 DEF Derived, Fits, Saves, Kept
  <2>2. /\ q.stage = "encrypt" /\ q.vault = r.vault /\ q.type = r.type /\ q.arg = r.arg
        /\ q.password = r.password /\ q.changed = r.changed
        /\ q.copy = [data |-> objects[r.vault], password |-> r.password]
    BY <1>1 DEF Request
  <2>3. GoesOn(s, q) /\ UNCHANGED <<stored, session, sessionPassword>>
    BY <1>8 DEF Derived, storage
  <2> HIDE DEF q
  <2>4. ~Acks(q) /\ LoadFits(q) /\ q.stage # "session"
    BY <2>2 DEF Acks, LoadFits
  <2>5. SaveFits(q, objects[q.vault].accounts)
    BY <2>1, <2>2 DEF SaveFits, Saves
  <2>6. Becomes(s, q, unlockedVault, None, Empty) /\ unlockedVault \in Ids \cup {None}
    BY <2>3 DEF GoesOn, VaultTypeOK
  <2>7. Told' \subseteq Told
    BY <2>4, <2>6, ToldBecomes
  <2>8. QED
    BY <1>2, <2>1, <2>2, <2>3, <2>4, <2>5, <2>6, <2>7, NoneIsNoId, KeptBecomes
<1>9. CASE Encrypted(s)
  BY <1>9, KeptEncrypted
<1>10. QED
  BY <1>5, <1>6, <1>7, <1>8, <1>9 DEF HandlerStep

\* What ends without an answer, a flow or the worker itself, keeps the copies that
\* are left.
LEMMA KeptWithFewer ==
  ASSUME SaveInv, UNCHANGED <<stored, session, raced, acked>>,
         \/ UNCHANGED <<unlockedVault, sessionPassword, objects>>
         \/ /\ unlockedVault' = None /\ sessionPassword' = None
            /\ \A t \in Slots : requests'[t].stage \notin Saves,
         \A t \in Slots : requests'[t] = requests[t] \/ requests'[t].stage \in {"idle", "broken"}
  PROVE  SaveInv'
<1>1. Told' \subseteq Told
  BY DEF Told, Acks
<1>2. Overlap' => Overlap
  BY DEF Overlap, Saving, Loading
<1>3. ASSUME Kept PROVE Kept'
  <2>1. /\ Told' \subseteq stored'.data.accounts
        /\ unlockedVault' # None => (Told \subseteq objects[unlockedVault].accounts)'
        /\ stored' = NoVault \/ stored'.password # None
        /\ session' \in {None, stored'.password}
        /\ sessionPassword' \in {None, stored'.password}
    BY <1>1, <1>3 DEF Kept
  <2>2. ASSUME NEW t \in Slots
        PROVE  /\ requests'[t].stage = "session" => requests'[t].password \in {None, stored'.password}
               /\ LoadFits(requests[t])'
               /\ SaveFits(requests[t], objects[requests[t].vault].accounts)'
    <3>1. CASE requests'[t].stage \in {"idle", "broken"}
      BY <3>1 DEF LoadFits, SaveFits, Saves
    <3>2. CASE requests'[t] = requests[t]
      <4>1. /\ requests[t].stage = "session" => requests[t].password \in {None, stored.password}
            /\ LoadFits(requests[t])
            /\ SaveFits(requests[t], objects[requests[t].vault].accounts)
        BY <1>3 DEF Kept
      <4>2. LoadFits(requests[t])'
        BY <3>2, <4>1 DEF LoadFits
      <4>3. SaveFits(requests[t], objects[requests[t].vault].accounts)'
        BY <1>1, <3>2, <4>1 DEF SaveFits
      <4>4. QED
        BY <3>2, <4>1, <4>2, <4>3
    <3>3. QED
      BY <3>1, <3>2
  <2>3. QED
    BY <2>1, <2>2 DEF Kept
<1>4. QED
  BY <1>2, <1>3 DEF SaveInv

\* Nobody was told anything yet.
LEMMA SaveInit == Init => SaveInv
<1> SUFFICES ASSUME Init PROVE SaveInv
  OBVIOUS
<1>1. \A s \in Slots : requests[s].stage = "idle"
  BY DEF Init, VaultInit, Idle, Message
<1>2. Told = {} /\ ~Overlap
  BY <1>1 DEF Init, Told, Acks, Overlap, Saving
<1>3. unlockedVault = None /\ sessionPassword = None /\ session \in {None, stored.password}
  BY DEF Init, VaultInit, NoVault
<1>4. stored = NoVault \/ stored.password # None
  BY VaultAssumption DEF Init, VaultInit
<1>5. QED
  BY <1>1, <1>2, <1>3, <1>4 DEF SaveInv, Kept, LoadFits, SaveFits, Saves

\* Every step keeps the copies, until saves overlap.
LEMMA SaveStep == TypeInv /\ SaveInv /\ [Next]_vars => SaveInv'
<1> SUFFICES ASSUME TypeInv, SaveInv, [Next]_vars PROVE SaveInv'
  OBVIOUS
<1>1. VaultTypeOK /\ requests \in [Slots -> Request] /\ \A s \in Slots : Fits(requests[s])
  BY DEF TypeInv, TypeOK, VaultTypeOK
<1>2. ASSUME \E s \in Slots : \E q, id, i, data : Becomes(s, q, id, i, data), ~raced => Kept /\ ~Overlap,
             Kept /\ ~Overlap => Kept'
      PROVE  SaveInv'
  BY <1>2, OverlapRaces DEF SaveInv
<1>3. ~raced => Kept /\ ~Overlap
  BY DEF SaveInv
<1>4. ASSUME NEW s \in Slots, NEW r, Handle(s, r)
      PROVE  \E q, id, i, data : Becomes(s, q, id, i, data)
  BY <1>4 DEF Handle, Lock, Unlock, GoesOn, WithVault
<1>5. ASSUME NEW s \in Slots, HandlerStep(s)
      PROVE  \E q, id, i, data : Becomes(s, q, id, i, data)
  <2>1. ASSUME NEW q, GoesOn(s, q) PROVE \E p, id, i, data : Becomes(s, p, id, i, data)
    BY <2>1 DEF GoesOn
  <2>2. ASSUME NEW i, NEW data, WithVault(s, requests[s], i, data),
               requests[s].type \in {"unlock"} \cup Lists
        PROVE  \E q, id, j, new : Becomes(s, q, id, j, new)
    BY <2>2 DEF WithVault, Lists
  <2>3. CASE Looked(s)
    BY <2>1, <2>3 DEF Looked
  <2>4. CASE SessionRead(s)
    BY <2>1, <2>4 DEF SessionRead
  <2>5. CASE Loaded(s)
    <3>1. requests[s].type \in {"unlock"} \cup Lists
      BY <1>1, <2>5 DEF Loaded, Fits
    <3>2. QED
      BY <2>1, <2>2, <2>5, <3>1 DEF Loaded
  <2>6. CASE Derived(s)
    BY <2>1, <2>6 DEF Derived
  <2>7. CASE Encrypted(s)
    <3>1. requests[s].type \in {"unlock"} \cup Lists
      BY <1>1, <2>7 DEF Encrypted, Fits, Saves
    <3>2. QED
      BY <2>2, <2>7, <3>1 DEF Encrypted
  <2>8. QED
    BY <1>5, <2>3, <2>4, <2>5, <2>6, <2>7 DEF HandlerStep
<1>6. ASSUME NEW s \in Slots, WorkerStep(s) PROVE SaveInv'
  <2>1. CASE \E r \in Request : Arrives(s, r)
    <3>1. PICK r \in Request : Arrives(s, r)
      BY <2>1
    <3>2. Kept => Kept'
      BY <1>1, <3>1, KeptHandle DEF Arrives
    <3>3. QED
      BY <1>2, <1>3, <1>4, <3>1, <3>2 DEF Arrives
  <2>2. CASE requests' = [requests EXCEPT ![s] = Idle] /\ UNCHANGED <<storage, memory, raced, sealed, acked>>
    <3>1. \A t \in Slots : requests'[t] = requests[t] \/ requests'[t].stage = "idle"
      BY <1>1, <2>2 DEF Idle, Message
    <3>2. QED
      BY <2>2, <3>1, KeptWithFewer DEF memory, storage
  <2>3. CASE HandlerStep(s) /\ UNCHANGED acked
    <3>1. Kept /\ ~Overlap => Kept'
      BY <1>1, <2>3, KeptHandlerStep
    <3>2. QED
      BY <1>2, <1>3, <1>5, <2>3, <3>1
  <2>4. QED
    BY <1>6, <2>1, <2>2, <2>3 DEF WorkerStep
<1>7. CASE Restart /\ UNCHANGED acked
  <2>1. \A t \in Slots :
          \/ requests'[t] = requests[t] /\ requests[t].stage \notin {"load"} \cup Saves
          \/ requests'[t].stage = "broken"
    BY <1>1, <1>7 DEF Restart, Running, Message, Saves
  <2>2. /\ UNCHANGED <<stored, session, raced, acked>>
        /\ unlockedVault' = None /\ sessionPassword' = None
    BY <1>7 DEF Restart, storage
  <2>3. \A t \in Slots : requests'[t].stage \notin Saves
    BY <2>1 DEF Saves
  <2>4. \A t \in Slots : requests'[t] = requests[t] \/ requests'[t].stage \in {"idle", "broken"}
    BY <2>1
  <2>5. QED
    BY <2>2, <2>3, <2>4, KeptWithFewer
<1>8. CASE UNCHANGED <<vaultVars, acked>>
  BY <1>8 DEF vaultVars, SaveInv, Kept, Told, Overlap, Saving, Loading, LoadFits, SaveFits, storage, memory
<1>9. QED
  BY <1>6, <1>7, <1>8, StepCases

\* An account that a view was told it has is not lost, neither from storage nor
\* from an unlocked worker, by any interleaving of handlers, locks, closed views
\* and restarts, as long as no save overlaps another save or a load.
THEOREM AddedIsKept == Spec => []AccountsKept
<1>1. SaveInv => AccountsKept
  BY DEF SaveInv, Kept, Told, AccountsKept
<1>2. QED
  BY TypeInit, TypeStep, SaveInit, SaveStep, <1>1, PTL DEF Spec

\* Whatever password the session or the worker remembers opens the stored vault,
\* under the same condition.
THEOREM SessionFits == Spec => []SessionOpensVault
<1>1. SaveInv => SessionOpensVault
  BY DEF SaveInv, Kept, SessionOpensVault
<1>2. QED
  BY TypeInit, TypeStep, SaveInit, SaveStep, <1>1, PTL DEF Spec

=============================================================================
