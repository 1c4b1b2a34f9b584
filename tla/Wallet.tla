------------------------------ MODULE Wallet ------------------------------
(***************************************************************************)
(* The views of the wallet extension, its popup and its options page, over *)
(* the background worker (module Vault).  A view talks to the worker in    *)
(* flows of requests: what the user starts, and the refresh timer of an    *)
(* unlocked view (apps/wallet-extension/utils/wallet-ui.ts).               *)
(***************************************************************************)
EXTENDS Vault

CONSTANTS
  Views,        \* the popup and the options page
  MaxActions,   \* bound: what the users start
  MaxFaults     \* bound: how often a view is closed or the worker restarted

ASSUME WalletAssumption == MaxActions \in Nat /\ MaxFaults \in Nat

VARIABLES
  views,     \* the state of every view
  flows,     \* for every slot, the flow its request belongs to
  acked,     \* history: the accounts a view was told it has added
  actions, closes

bounds == <<actions, closes>>
vars == <<vaultVars, views, flows, acked, bounds>>

Kinds == {"none", "boot", "tick", "create", "unlock", "add", "setActive", "lock"}
View == [open : BOOLEAN, booting : BOOLEAN, setup : BOOLEAN, locked : BOOLEAN, ticking : BOOLEAN,
         shown : Accounts \cup {None}]
Flow == [kind : Kinds, view : Views \cup {None}, arg : Accounts \cup Passwords \cup {None}]

Closed == [open |-> FALSE, booting |-> TRUE, setup |-> FALSE, locked |-> TRUE,
           ticking |-> FALSE, shown |-> None]
NoFlow == [kind |-> "none", view |-> None, arg |-> None]

TypeOK ==
  /\ VaultTypeOK
  /\ views \in [Views -> View]
  /\ flows \in [Slots -> Flow]
  /\ acked \subseteq Accounts
  /\ actions \in 0 .. MaxActions
  /\ closes + restarts \in 0 .. MaxFaults

Init ==
  /\ VaultInit
  /\ views = [v \in Views |-> Closed]
  /\ flows = [s \in Slots |-> NoFlow]
  /\ acked = {}
  /\ actions = 0 /\ closes = 0

-----------------------------------------------------------------------------

\* The next message of a flow; it arrives at once.
Asks(s, type, arg) == Handle(s, Message(type, arg)) /\ UNCHANGED flows

\* The flow is over.
Ends(s) ==
  /\ requests' = [requests EXCEPT ![s] = Idle]
  /\ flows' = [flows EXCEPT ![s] = NoFlow]
  /\ UNCHANGED <<storage, memory, restarts, raced, sealed>>

Free == {s \in Slots : flows[s] = NoFlow}

\* View v starts a flow with a request of the given type.
Starts(v, kind, arg, type) ==
  /\ Free # {}
  /\ LET s == CHOOSE s \in Free : TRUE
     IN  /\ flows' = [flows EXCEPT ![s] = [kind |-> kind, view |-> v, arg |-> arg]]
         /\ Handle(s, Message(type, arg))

Shows(v, new) == views' = [views EXCEPT ![v] = new]

\* mountWalletApp and boot: the view shows nothing before boot ends.
Open(v) ==
  /\ ~views[v].open
  /\ Shows(v, [Closed EXCEPT !.open = TRUE])
  /\ Starts(v, "boot", None, "exists")
  /\ UNCHANGED <<acked, bounds>>

\* Requests under way go on in the worker, and nobody waits for the response.
Close(v) ==
  /\ views[v].open
  /\ closes + restarts < MaxFaults
  /\ closes' = closes + 1
  /\ Shows(v, Closed)
  /\ flows' = [s \in Slots |->
       IF flows[s].view = v THEN [flows[s] EXCEPT !.view = None] ELSE flows[s]]
  /\ UNCHANGED <<vaultVars, acked, actions>>

\* What the user may do: set up or unlock a locked view; in an unlocked one add
\* or choose an account, once ensureVaultSessionAlive has had its answer.  No
\* button sends vault:lock, but the worker takes it from any page.
Act(v) ==
  /\ views[v].open /\ ~views[v].booting
  /\ actions < MaxActions
  /\ actions' = actions + 1
  /\ \/ \E p \in Passwords :
          /\ views[v].locked
          /\ Starts(v, IF views[v].setup THEN "create" ELSE "unlock", p, "unlock")
     \/ \E a \in Accounts :
          /\ ~views[v].locked
          /\ \/ Starts(v, "add", a, "status")
             \/ a \in acked /\ Starts(v, "setActive", a, "status")
     \/ Starts(v, "lock", None, "lock")
  /\ UNCHANGED <<views, acked, closes>>

\* The refresh timer fires every two seconds.
Tick(v) ==
  /\ views[v].ticking
  /\ Starts(v, "tick", None, "status")
  /\ UNCHANGED <<views, acked, bounds>>

-----------------------------------------------------------------------------
(* Responses.  A broken call is an answer without ok.                      *)

\* boot takes a failed question for a vault that exists.
ExistsReply(s, v, r) ==
  /\ r.type = "exists"
  /\ IF r.stage = "answered" /\ ~r.ok
     THEN Shows(v, [views[v] EXCEPT !.booting = FALSE, !.setup = TRUE]) /\ Ends(s)
     ELSE Asks(s, "status", None) /\ UNCHANGED views
  /\ UNCHANGED acked

UnlockReply(s, v, r) ==
  /\ r.type = "unlock"
  /\ IF r.ok
     THEN Shows(v, [views[v] EXCEPT !.setup = FALSE, !.locked = FALSE]) /\ Asks(s, "list", None)
     ELSE Ends(s) /\ UNCHANGED views
  /\ UNCHANGED acked

\* ensureVaultSessionAlive, and the same question in boot.
StatusReply(s, v, r) ==
  /\ r.type = "status"
  /\ CASE r.ok /\ flows[s].kind = "boot" ->
            Shows(v, [views[v] EXCEPT !.locked = FALSE]) /\ Asks(s, "list", None)
       [] r.ok /\ flows[s].kind = "tick" -> Asks(s, "list", None) /\ UNCHANGED views
       [] r.ok /\ flows[s].kind \in {"add", "setActive"} ->
            Asks(s, flows[s].kind, flows[s].arg) /\ UNCHANGED views
       [] ~r.ok -> Shows(v, [views[v] EXCEPT !.booting = FALSE, !.locked = TRUE, !.ticking = FALSE]) /\ Ends(s)
  /\ UNCHANGED acked

ChangeReply(s, v, r) ==
  /\ r.type \in {"add", "setActive"}
  /\ CASE ~r.ok -> Ends(s) /\ UNCHANGED <<views, acked>>
       [] r.ok /\ r.type = "add" ->
            acked' = acked \cup {r.arg} /\ Asks(s, "list", None) /\ UNCHANGED views
       [] r.ok /\ r.type = "setActive" ->
            Shows(v, [views[v] EXCEPT !.shown = r.arg]) /\ Ends(s) /\ UNCHANGED acked

\* Mutant: the timer starts only when the view opens unlocked.
ListReplyTimerAtBoot(s, v, r) ==
  /\ r.type = "list"
  /\ Shows(v, [views[v] EXCEPT !.booting = FALSE, !.shown = IF r.ok THEN r.active ELSE @,
                               !.ticking = @ \/ flows[s].kind = "boot"])
  /\ Ends(s)
  /\ UNCHANGED acked

\* refreshAccounts; after boot and unlocking it is followed by the timer.
ListReply(s, v, r) ==
  /\ r.type = "list"
  /\ Shows(v, [views[v] EXCEPT !.booting = FALSE, !.shown = IF r.ok THEN r.active ELSE @,
                               !.ticking = @ \/ flows[s].kind \in {"boot", "create", "unlock"}])
  /\ Ends(s)
  /\ UNCHANGED acked

LockReply(s, r) == r.type = "lock" /\ Ends(s) /\ UNCHANGED <<views, acked>>

Reply(s) ==
  LET r == requests[s]
      v == flows[s].view
  IN  /\ r.stage \in {"answered", "broken"}
      /\ \/ v = None /\ Ends(s) /\ UNCHANGED <<views, acked>>
         \/ /\ v # None
            /\ \/ ExistsReply(s, v, r) \/ UnlockReply(s, v, r) \/ StatusReply(s, v, r)
               \/ ChangeReply(s, v, r) \/ ListReply(s, v, r) \/ LockReply(s, r)
      /\ UNCHANGED bounds

Worker(s) == HandlerStep(s) /\ UNCHANGED <<views, flows, acked, bounds>>

Next ==
  \/ \E v \in Views : Open(v) \/ Close(v) \/ Act(v) \/ Tick(v)
  \/ \E s \in Slots : Reply(s) \/ Worker(s)
  \/ closes + restarts < MaxFaults /\ Restart /\ UNCHANGED <<views, flows, acked, bounds>>

Spec == Init /\ [][Next]_vars

\* Handlers end, responses arrive and timers fire: a slot that is taken only
\* delays them, hence SF.
FairSpec ==
  /\ Spec
  /\ \A s \in Slots : WF_vars(Worker(s)) /\ WF_vars(Reply(s))
  /\ \A v \in Views : SF_vars(Tick(v))

-----------------------------------------------------------------------------
(* Properties *)

\* An account a view was told it has is in storage, and in the worker's memory
\* when it is unlocked, unless a save overlapped another save or a load.
AccountsKept ==
  \/ raced
  \/ /\ acked \subseteq stored.data.accounts
     /\ unlockedVault # None => acked \subseteq objects[unlockedVault].accounts

\* What session storage holds opens the stored vault, and so does the password
\* that the next save will use, unless saves overlapped.
SessionOpensVault ==
  raced \/ \A p \in {session, sessionPassword} \ {None} : stored.password = p

\* A lock leaves nothing open, and whatever the views ask for keeps it so until
\* someone unlocks: only a handler that was under way can undo it in memory, and
\* then without the session's password.
LockForgets ==
  /\ sealed => unlockedVault = None /\ sessionPassword = None /\ session = None
  /\ unlockedVault # None /\ sessionPassword = None => session = None

\* Once users and restarts are through, every unlocked view shows the account
\* the worker would send from, and no view stays unlocked over a locked worker.
ViewsFollow ==
  <>[](\A v \in Views : views[v].open /\ ~views[v].locked =>
         unlockedVault # None /\ views[v].shown = objects[unlockedVault].active)
=============================================================================
