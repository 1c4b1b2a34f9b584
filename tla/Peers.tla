------------------------------- MODULE Peers -------------------------------
(***************************************************************************)
(* How nodes find each other: the map peerEndpointById of every node, the  *)
(* announcements, forwards and lookups that fill it, the sync cycle that   *)
(* prunes it, restarts, and the seed node's exit once enough validators    *)
(* have taken over (apps/node/src/main.ts).                                *)
(*                                                                         *)
(* A map holds a node under its address, once it has announced itself, or  *)
(* under the name genesis or config.json gives it.  Only validators        *)
(* announce themselves unasked, once per sync cycle and at their start.    *)
(***************************************************************************)
EXTENDS FiniteSets, Naturals

CONSTANTS
  Seed,          \* the seed node
  Static,        \* validators that config.json lists
  External,      \* validators that only know the bootstrap nodes
  Bootstrap,     \* for each node, the nodes genesis and its environment name
  Nowhere,       \* an endpoint at port 0
  HandoffAt,     \* active validators with an endpoint that make the seed exit: 4
  Stoppable,     \* bound: the nodes that may stop,
  MaxStops,      \* bound: how often nodes stop
  MaxTimeouts    \* bound: calls to a running node that fail

Validators == Static \cup External
Nodes == {Seed} \cup Validators

ASSUME NodesAssumption ==
  /\ Seed \notin Validators
  /\ Static \cap External = {}
  /\ Bootstrap \in [Nodes -> SUBSET Nodes]
  /\ Stoppable \subseteq Nodes
  /\ IsFiniteSet(Validators)
  /\ Nowhere \notin Nodes
  /\ HandoffAt \in Nat /\ MaxStops \in Nat /\ MaxTimeouts \in Nat

Address(n) == <<"address", n>>
Name(n) == <<"name", n>>
Entry == [id : {"address", "name"} \X Nodes, at : Nodes \cup {Nowhere}]
Announcement == {c \in [to : Nodes, of : Nodes] : c.to # c.of}

VARIABLES
  running,    \* the nodes whose process runs
  peers,      \* peerEndpointById, the entry for the node itself left out
  failing,    \* the ids whose head a node has asked for in vain, not known to it yet
  lookups,    \* the nodes a started node still has to ask for their peers
  calls,      \* announcements under way
  leaving,    \* what the seed node counted when it decided to exit, {} before
  stops, timeouts

faults == <<stops, timeouts>>
vars == <<running, peers, failing, lookups, calls, leaving, faults>>

TypeOK ==
  /\ running \subseteq Nodes
  /\ peers \in [Nodes -> SUBSET Entry]
  /\ failing \in [Nodes -> SUBSET ({"address", "name"} \X Nodes)]
  /\ lookups \in [Nodes -> SUBSET Nodes]
  /\ calls \subseteq Announcement
  /\ leaving \subseteq Validators
  /\ stops \in 0 .. MaxStops
  /\ timeouts \in 0 .. MaxTimeouts
  /\ \A n \in Nodes : \A e, f \in peers[n] : e.id = f.id => e = f

Ids(n) == {e.id : e \in peers[n]}
Knows(n, m) == Address(m) \in Ids(n)
BootstrapPeers(n) == {[id |-> Name(b), at |-> b] : b \in Bootstrap[n] \ {n}}

\* peerConfigs: the nodes a node knows from its files, with a port to fall
\* back on unless the node is an external one.
ConfigPeers(n) == (IF n \in External THEN Bootstrap[n] ELSE {Seed} \cup Static) \ {n}
Fallbacks(n) == IF n \in External THEN {} ELSE ConfigPeers(n)

Init ==
  /\ running = {Seed}
  /\ peers = [n \in Nodes |-> IF n = Seed THEN BootstrapPeers(n) ELSE {}]
  /\ failing = [n \in Nodes |-> {}]
  /\ lookups = [n \in Nodes |-> IF n = Seed THEN Bootstrap[n] \ {n} ELSE {}]
  /\ calls = {}
  /\ leaving = {}
  /\ stops = 0 /\ timeouts = 0

-----------------------------------------------------------------------------
(* Announcements.  The ones to port 0 fail at once, and a node that is told *)
(* of itself ignores it: neither is kept.                                  *)

To(targets, n) == [to : targets \ {Nowhere, n}, of : {n}]

\* What an announcement makes its receiver send: its own address back, and the
\* newcomer's to everyone it knows.
Replies(n, of) ==
  IF Knows(n, of) THEN {}
  ELSE To({of}, n) \cup To({e.at : e \in peers[n]}, of)

\* qtx_announcePeer.  An entry of another id at that endpoint is replaced.
Announced(c) ==
  /\ c.to \in running
  /\ calls' = (calls \ {c}) \cup Replies(c.to, c.of)
  /\ peers' = [peers EXCEPT ![c.to] = {e \in @ : e.at # c.of}
                                        \cup {[id |-> Address(c.of), at |-> c.of]}]
  /\ UNCHANGED <<running, failing, lookups, leaving, faults>>

\* A call to a node that is down, or one that takes too long, fails, and
\* nobody repeats it.
NotAnnounced(c) ==
  /\ \/ c.to \notin running /\ UNCHANGED timeouts
     \/ timeouts < MaxTimeouts /\ timeouts' = timeouts + 1
  /\ calls' = calls \ {c}
  /\ UNCHANGED <<running, peers, failing, lookups, leaving, stops>>

AnnouncementEnds(c) == c \in calls /\ (Announced(c) \/ NotAnnounced(c))

-----------------------------------------------------------------------------
(* The sync cycle: ask every entry for its head, forget the ones that do   *)
(* not answer, and announce oneself.  Answers change nothing here, so only *)
(* the heads asked for in vain are kept until their failure is known.      *)

\* Mutant: the configured nodes are used only while nothing else is known.
TargetsKnown(n, known) ==
  LET at == {e.at : e \in known} IN IF at = {} THEN Fallbacks(n) ELSE at

\* The endpoints a validator announces itself to.
Targets(n, known) == {e.at : e \in known} \cup Fallbacks(n)

\* The announcements of autoRegisterAsValidator, which the seed node skips.
Announces(n, known) == IF n = Seed THEN {} ELSE To(Targets(n, known), n)

\* The timer fires every syncIntervalMs.  By then what the node announced is
\* over, the forwards of it too: a call takes a third of that at most.
Sync(n) ==
  /\ n \in running
  /\ failing[n] = {}
  /\ \A c \in calls : c.of # n
  /\ \E slow \in SUBSET {e \in peers[n] : e.at \in running} :
       LET down == {e \in peers[n] : e.at \notin running} \cup slow
       IN  /\ timeouts + Cardinality(slow) <= MaxTimeouts
           /\ timeouts' = timeouts + Cardinality(slow)
           /\ failing' = [failing EXCEPT ![n] = {e.id : e \in down}]
           /\ calls' = IF down = {} THEN calls \cup Announces(n, peers[n]) ELSE calls
  /\ UNCHANGED <<running, peers, lookups, leaving, stops>>

\* The entry is deleted by its id, whatever has happened to it since the call.
Forget(n, id) == {e \in peers[n] : e.id # id}

\* A failure becomes known; with the last one the cycle goes on.
NotAnswered(n, id) ==
  /\ id \in failing[n]
  /\ failing' = [failing EXCEPT ![n] = @ \ {id}]
  /\ peers' = [peers EXCEPT ![n] = Forget(n, id)]
  /\ calls' = IF failing'[n] = {} THEN calls \cup Announces(n, peers'[n]) ELSE calls
  /\ UNCHANGED <<running, lookups, leaving, faults>>

-----------------------------------------------------------------------------
(* Start and stop *)

\* The map starts from genesis; a validator announces itself to it and to the
\* nodes of its configuration; everyone asks it for further peers.
Start(n) ==
  /\ n \notin running
  /\ n = Seed => leaving = {}
  /\ running' = running \cup {n}
  /\ peers' = [peers EXCEPT ![n] = BootstrapPeers(n)]
  /\ lookups' = [lookups EXCEPT ![n] = Bootstrap[n] \ {n}]
  /\ calls' = calls \cup Announces(n, BootstrapPeers(n))
  /\ UNCHANGED <<failing, leaving, faults>>

\* qtx_getPeers of node m.
Listed(m) ==
  peers[m] \cup {[id |-> Name(c), at |-> IF m \in External THEN Nowhere ELSE c]
                   : c \in {c \in ConfigPeers(m) : Name(c) \notin Ids(m)}}

\* Mutant: a node that knows anybody learns nothing more.
AddedToNothing(n, m) ==
  IF peers[n] # {} THEN {} ELSE {e \in Listed(m) : e.id # Address(n) /\ e.id \notin Ids(n)}

\* What n learns from m: entries are only added.
Added(n, m) == {e \in Listed(m) : e.id # Address(n) /\ e.id \notin Ids(n)}

\* discoverPeers
Lookup(n, m) ==
  /\ n \in running
  /\ m \in lookups[n]
  /\ \/ /\ m \in running
        /\ peers' = [peers EXCEPT ![n] = @ \cup Added(n, m)]
        /\ UNCHANGED timeouts
     \/ m \notin running /\ UNCHANGED <<peers, timeouts>>
     \/ timeouts < MaxTimeouts /\ timeouts' = timeouts + 1 /\ UNCHANGED peers
  /\ lookups' = [lookups EXCEPT ![n] = @ \ {m}]
  /\ UNCHANGED <<running, failing, calls, leaving, stops>>

\* The process of n ends, and its memory is lost.
Down(n) ==
  /\ running' = running \ {n}
  /\ peers' = [peers EXCEPT ![n] = {}]
  /\ failing' = [failing EXCEPT ![n] = {}]
  /\ lookups' = [lookups EXCEPT ![n] = {}]

Stop(n) ==
  /\ n \in running \cap Stoppable
  /\ stops < MaxStops
  /\ stops' = stops + 1
  /\ Down(n)
  /\ UNCHANGED <<calls, leaving, timeouts>>

-----------------------------------------------------------------------------
(* The seed node's exit.  Which validators are active changes with the     *)
(* chain (module Ledger): it may be any of them at any time.               *)

\* Mutant: an active validator counts before it has announced itself.
OnlineActive(active) == active

Online(active) == {v \in active : Knows(Seed, v)}

\* After a block or an import: enough active validators have an endpoint.
CheckSeednodeHandoff ==
  /\ Seed \in running
  /\ leaving = {}
  /\ \E active \in SUBSET Validators :
       /\ Cardinality(Online(active)) >= HandoffAt
       /\ leaving' = Online(active)
  /\ UNCHANGED <<running, peers, failing, lookups, calls, faults>>

\* Five seconds later, twice as long as a call may take: what the counted
\* validators were being told of each other has arrived or failed.
SeedExit ==
  /\ Seed \in running
  /\ leaving # {}
  /\ \A c \in calls : ~(c.to \in leaving /\ c.of \in leaving)
  /\ Down(Seed)
  /\ UNCHANGED <<calls, leaving, faults>>

-----------------------------------------------------------------------------

Cycle(n) == Sync(n) \/ \E id \in failing[n] : NotAnswered(n, id)

Next ==
  \/ \E c \in calls : AnnouncementEnds(c)
  \/ \E n \in Nodes : Cycle(n) \/ Start(n) \/ Stop(n) \/ \E m \in Nodes : Lookup(n, m)
  \/ CheckSeednodeHandoff \/ SeedExit

Spec == Init /\ [][Next]_vars

OnTime == UNCHANGED timeouts

\* The sync timer fires for ever and every call ends, so cycles, announcements
\* and lookups go on.  Nodes are started, and started again when they have
\* stopped; nothing makes one stop, a call time out or the seed node exit.
FairSpec ==
  /\ Spec
  /\ \A n \in Nodes : WF_vars((Cycle(n) \/ Start(n)) /\ OnTime)
  /\ \A n, m \in Nodes : WF_vars(Lookup(n, m) /\ OnTime)
  /\ \A c \in Announcement : WF_vars(AnnouncementEnds(c) /\ OnTime)

-----------------------------------------------------------------------------
(* Properties *)

\* Validators that only know the seed node meet: as long as no call times out
\* and the seed node stays, all running validators end up knowing each other and the
\* seed node all of them, through restarts and the prunings that follow them.
ValidatorsMeet ==
  [](timeouts = 0 /\ leaving = {}) =>
     <>[](\A v \in Validators \cap running : \A n \in running \ {v} : Knows(n, v))

\* Nodes of one configuration do not lose each other for good: whatever calls
\* time out, each of them ends up knowing the validators config.json lists
\* (the fallback ports of autoRegisterAsValidator).
StaticStayKnown ==
  [](leaving = {}) =>
    <>[](\A v \in Static \cap running : \A n \in ((Static \cup {Seed}) \cap running) \ {v} :
           Knows(n, v))

\* The seed node leaves a network behind that needs no seed node: of any two
\* validators it counted one knows the other when it exits, unless a node has
\* stopped or a call has timed out.
HandsOverANetwork ==
  leaving # {} /\ Seed \notin running /\ stops = 0 /\ timeouts = 0 =>
    \A v, w \in leaving : v = w \/ Knows(v, w) \/ Knows(w, v)

=============================================================================
