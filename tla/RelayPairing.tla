---------------------------- MODULE RelayPairing ----------------------------
(***************************************************************************)
(* The relay server (hbbr, src/server/src/relay_server.rs): one task per   *)
(* accepted connection.  The task reads one RequestRelay; it takes the     *)
(* stream waiting in PEERS under the request's uuid and relays between the *)
(* two, or leaves its own stream in PEERS, sleeps 30 seconds and removes   *)
(* what PEERS then holds under the uuid.  Every `.await` on a lock is a    *)
(* point where the other tasks run, so each access to PEERS, USAGE and     *)
(* BLOCKLIST is a step of its own.  A stream is named by the task that     *)
(* accepted it; it is open for as long as a task or PEERS owns it.         *)
(***************************************************************************)
CONSTANTS
    Tasks,      \* accepted connections, each handled once
    Uuids,      \* session identifiers, drawn by the clients
    Addrs,      \* client addresses; sockets behind one proxy share "ip:0"
    addr,       \* task -> the address of its client
    None        \* no stream, no uuid

ASSUME RelayAssumption ==
    /\ None \notin Tasks \cup Uuids
    /\ addr \in [Tasks -> Addrs]

VARIABLES
    phase,      \* task -> where make_pair_ is
    uuid,       \* task -> the uuid it asked for
    PEERS,      \* uuid -> the stream waiting under it
    peer,       \* task -> the waiting stream it took out of PEERS, its own while it relays
    USAGE,      \* the addresses with an entry in the usage table
    BLOCKLIST   \* the blocked addresses

pairingVars == <<phase, uuid, PEERS, peer, USAGE, BLOCKLIST>>

Phases == {"new", "recv", "insert", "sleep", "account", "relay", "ended", "done"}

PairingTypeOK ==
    /\ phase \in [Tasks -> Phases]
    /\ uuid \in [Tasks -> Uuids \cup {None}]
    /\ PEERS \in [Uuids -> Tasks \cup {None}]
    /\ peer \in [Tasks -> Tasks \cup {None}]
    /\ USAGE \subseteq Addrs
    /\ BLOCKLIST \subseteq Addrs

PairingInit ==
    /\ phase = [t \in Tasks |-> "new"]
    /\ uuid = [t \in Tasks |-> None]
    /\ PEERS = [u \in Uuids |-> None]
    /\ peer = [t \in Tasks |-> None]
    /\ USAGE = {}
    /\ BLOCKLIST = {}

-----------------------------------------------------------------------------
goto(t, p) == phase' = [phase EXCEPT ![t] = p]

\* The listener accepts a connection and spawns its task, unless the address
\* is blocked: then the stream is dropped.
handle_connection(t) ==
    /\ phase[t] = "new"
    /\ goto(t, IF addr[t] \in BLOCKLIST THEN "done" ELSE "recv")
    /\ UNCHANGED <<uuid, PEERS, peer, USAGE, BLOCKLIST>>

\* No request within 30 seconds, a failed handshake, a message of another
\* kind, a wrong key or an empty uuid: the task ends and drops its stream.
NoRequest(t) ==
    /\ phase[t] = "recv"
    /\ goto(t, "done")
    /\ UNCHANGED <<uuid, PEERS, peer, USAGE, BLOCKLIST>>

BugTakeKeepsPeer(t, u) ==
    /\ phase[t] = "recv"
    /\ goto(t, IF PEERS[u] = None THEN "insert" ELSE "account")
    /\ uuid' = [uuid EXCEPT ![t] = u]
    /\ peer' = [peer EXCEPT ![t] = PEERS[u]]
    /\ UNCHANGED <<PEERS, USAGE, BLOCKLIST>>

BugTakesAnyPeer(t, u) ==
    /\ phase[t] = "recv"
    /\ LET found == {v \in Uuids : PEERS[v] # None}
           v == IF found = {} THEN u ELSE CHOOSE w \in found : TRUE
       IN  /\ goto(t, IF PEERS[v] = None THEN "insert" ELSE "account")
           /\ peer' = [peer EXCEPT ![t] = PEERS[v]]
           /\ PEERS' = [PEERS EXCEPT ![v] = None]
    /\ uuid' = [uuid EXCEPT ![t] = u]
    /\ UNCHANGED <<USAGE, BLOCKLIST>>

\* A request arrives; under one lock the stream waiting under its uuid, if
\* any, leaves PEERS and becomes the task's.
TakePeer(t, u) ==
    /\ phase[t] = "recv"
    /\ goto(t, IF PEERS[u] = None THEN "insert" ELSE "account")
    /\ uuid' = [uuid EXCEPT ![t] = u]
    /\ peer' = [peer EXCEPT ![t] = PEERS[u]]
    /\ PEERS' = [PEERS EXCEPT ![u] = None]
    /\ UNCHANGED <<USAGE, BLOCKLIST>>

\* Nobody waited: a second lock puts the task's own stream into PEERS.  A
\* stream that got there in between is replaced, that is dropped.
InsertSelf(t) ==
    /\ phase[t] = "insert"
    /\ PEERS' = [PEERS EXCEPT ![uuid[t]] = t]
    /\ goto(t, "sleep")
    /\ UNCHANGED <<uuid, peer, USAGE, BLOCKLIST>>

BugWakeUpLeavesNewer(t) ==
    /\ phase[t] = "sleep"
    /\ goto(t, "done")
    /\ UNCHANGED <<uuid, PEERS, peer, USAGE, BLOCKLIST>>

BugWakeUpClears(t) ==
    /\ phase[t] = "sleep"
    /\ PEERS' = [u \in Uuids |-> None]
    /\ goto(t, "done")
    /\ UNCHANGED <<uuid, peer, USAGE, BLOCKLIST>>

\* The 30 seconds are over: whatever waits under the uuid is dropped.
WakeUp(t) ==
    /\ phase[t] = "sleep"
    /\ PEERS' = [PEERS EXCEPT ![uuid[t]] = None]
    /\ goto(t, "done")
    /\ UNCHANGED <<uuid, peer, USAGE, BLOCKLIST>>

BugUsageByUuid(t) ==
    /\ phase[t] = "account"
    /\ USAGE' = USAGE \cup {uuid[t]}
    /\ goto(t, "relay")
    /\ UNCHANGED <<uuid, PEERS, peer, BLOCKLIST>>

\* A usage entry under the address of the task, then the relay loop.
InsertUsage(t) ==
    /\ phase[t] = "account"
    /\ USAGE' = USAGE \cup {addr[t]}
    /\ goto(t, "relay")
    /\ UNCHANGED <<uuid, PEERS, peer, BLOCKLIST>>

BugTickIgnoresBlock(t) ==
    /\ phase[t] = "relay"
    /\ USAGE' = USAGE \cup {addr[t]}
    /\ UNCHANGED <<phase, uuid, PEERS, peer, BLOCKLIST>>

\* A turn of the relay loop at least a second after the last one: it stops
\* when the address of the second client is blocked, else it writes its
\* usage.  The address of the first client is not looked at.
RelayTick(t) ==
    /\ phase[t] = "relay"
    /\ IF addr[t] \in BLOCKLIST
          THEN goto(t, "ended") /\ UNCHANGED USAGE
          ELSE USAGE' = USAGE \cup {addr[t]} /\ UNCHANGED phase
    /\ UNCHANGED <<uuid, PEERS, peer, BLOCKLIST>>

\* One side closes, a send fails, or nothing came for 30 seconds.
RelayBreaks(t) ==
    /\ phase[t] = "relay"
    /\ goto(t, "ended")
    /\ UNCHANGED <<uuid, PEERS, peer, USAGE, BLOCKLIST>>

BugUsageOnlyIfBlocked(t) ==
    /\ phase[t] = "ended"
    /\ USAGE' = IF addr[t] \in BLOCKLIST THEN USAGE \ {addr[t]} ELSE USAGE
    /\ goto(t, "done")
    /\ UNCHANGED <<uuid, PEERS, peer, BLOCKLIST>>

\* The usage entry of the address goes, and both streams with the task.
RemoveUsage(t) ==
    /\ phase[t] = "ended"
    /\ USAGE' = USAGE \ {addr[t]}
    /\ goto(t, "done")
    /\ UNCHANGED <<uuid, PEERS, peer, BLOCKLIST>>

\* blocklist-add and blocklist-remove of one address, or of "all".
BlocklistAdd(a) ==
    /\ a \notin BLOCKLIST
    /\ BLOCKLIST' = BLOCKLIST \cup {a}
    /\ UNCHANGED <<phase, uuid, PEERS, peer, USAGE>>

BlocklistRemove(S) ==
    /\ S \cap BLOCKLIST # {}
    /\ BLOCKLIST' = BLOCKLIST \ S
    /\ UNCHANGED <<phase, uuid, PEERS, peer, USAGE>>

Step(t) ==
    \/ handle_connection(t)
    \/ NoRequest(t)
    \/ \E u \in Uuids : TakePeer(t, u)
    \/ InsertSelf(t)
    \/ WakeUp(t)
    \/ InsertUsage(t)
    \/ RelayTick(t)
    \/ RelayBreaks(t)
    \/ RemoveUsage(t)

PairingNext ==
    \/ \E t \in Tasks : Step(t)
    \/ \E a \in Addrs : BlocklistAdd(a)
    \/ \E S \in {{a} : a \in Addrs} \cup {Addrs} : BlocklistRemove(S)

PairingSpec == PairingInit /\ [][PairingNext]_pairingVars

-----------------------------------------------------------------------------
Relaying(t) == phase[t] \in {"account", "relay", "ended"}

\* Where a stream is owned: by its own task, by PEERS, by a relaying task.
Owners(s) ==
    {t \in Tasks : t = s /\ phase[s] \in {"recv", "insert", "account", "relay", "ended"}}
    \cup {u \in Uuids : PEERS[u] = s}
    \cup {t \in Tasks : Relaying(t) /\ peer[t] = s}

\* One session per stream: whatever the order in which requests with one uuid
\* take and insert themselves, a stream is never owned twice, so it is never
\* relayed to two clients nor handed out while it is being relayed.
OneSessionPerStream == \A s \in Tasks : \A x, y \in Owners(s) : x = y

\* A relay joins two different streams whose clients asked for the same uuid.
PairsShareUuid ==
    \A t \in Tasks : Relaying(t) =>
        /\ peer[t] \in Tasks \ {t}
        /\ uuid[peer[t]] = uuid[t]

\* Nothing is left behind in PEERS: the task of a waiting stream is still
\* asleep and will clear the entry, even though timers clear whatever they
\* find and insertions replace each other.
WaitersAreTimed ==
    \A u \in Uuids : PEERS[u] # None =>
        phase[PEERS[u]] = "sleep" /\ uuid[PEERS[u]] = u

\* A stream that waits alone under its uuid is not dropped early: until its
\* own 30 seconds are over it leaves PEERS only into a relay.  Only another
\* task of the same uuid that found PEERS empty too can drop it.
LoneWaiterKept ==
    [][\A u \in Uuids :
        LET s == PEERS[u] IN
        (s # None /\ PEERS'[u] # s) =>
            \/ phase'[s] = "done"
            \/ \E t \in Tasks : peer'[t] = s
            \/ \E t \in Tasks \ {s} : uuid[t] = u /\ phase[t] \in {"insert", "sleep"}]_pairingVars

\* The usage table lists the running relays: an entry belongs to a relay that
\* is still running, and a running relay has its entry, unless an earlier relay
\* of the same address ended and took the entry they shared with it.
UsageIsLive ==
    /\ \A a \in USAGE : \E t \in Tasks : addr[t] = a /\ phase[t] \in {"relay", "ended"}
    /\ \A t \in Tasks : phase[t] \in {"relay", "ended"} =>
          \/ addr[t] \in USAGE
          \/ \E q \in Tasks \ {t} : addr[q] = addr[t] /\ peer[q] # None /\ phase[q] = "done"

\* No waiting stream is kept for ever, however requests with one uuid race:
\* it is paired or dropped.
WaitersLeave == \A s \in Tasks : (\E u \in Uuids : PEERS[u] = s) ~> ~(\E u \in Uuids : PEERS[u] = s)

\* Blocking the address of the client that completed a pair ends the relay
\* unless the address is unblocked again.
BlockedRelayEnds ==
    \A t \in Tasks :
        (phase[t] = "relay" /\ addr[t] \in BLOCKLIST)
            ~> (phase[t] # "relay" \/ addr[t] \notin BLOCKLIST)
=============================================================================
