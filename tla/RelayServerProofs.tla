-------------------------- MODULE RelayServerProofs --------------------------
(***************************************************************************)
(* The relay server, for any number of connections, uuids, addresses and   *)
(* commands: who owns a stream, whom it is relayed to and what is left in  *)
(* PEERS and USAGE; then the saved address lists, whose file ends up with  *)
(* the newest set and holds what was answered; then the two together.      *)
(***************************************************************************)
EXTENDS RelayServer, TLAPS

\* A task past its request has a uuid.
HasUuid == \A t \in Tasks : phase[t] \notin {"new", "recv", "done"} => uuid[t] \in Uuids

\* A relay joins two streams of one uuid, and the task of the stream it took is
\* asleep or over: nobody else owns that stream.
PairSound(t) ==
    /\ peer[t] \in Tasks \ {t}
    /\ uuid[peer[t]] = uuid[t]
    /\ phase[peer[t]] \in {"sleep", "done"}
    /\ \A u \in Uuids : PEERS[u] # peer[t]

PairsSound == \A t \in Tasks : Relaying(t) => PairSound(t)

\* No two relays took the same stream.
PeersDiffer == \A t, q \in Tasks : Relaying(t) /\ Relaying(q) /\ t # q => peer[t] # peer[q]

\* The inductive invariant.
PairingInv ==
    /\ PairingTypeOK
    /\ HasUuid
    /\ WaitersAreTimed
    /\ PairsSound
    /\ PeersDiffer
    /\ UsageIsLive

-----------------------------------------------------------------------------
LEMMA PairingInitial == PairingInit => PairingInv
<1> QED BY RelayAssumption DEF PairingInit, PairingInv, PairingTypeOK, Phases, HasUuid,
           WaitersAreTimed, PairsSound, PeersDiffer, Relaying, UsageIsLive

\* A task moves on without touching any stream or the usage table.
LEMMA MoveKeeps ==
    ASSUME PairingInv, NEW t \in Tasks, NEW p \in {"recv", "done", "ended"}, goto(t, p),
           p = "ended" => phase[t] = "relay",
           p # "ended" => phase[t] \in {"new", "recv"},
           UNCHANGED <<uuid, PEERS, peer, USAGE, BLOCKLIST>>
    PROVE  PairingInv'
<1> USE RelayAssumption
<1>1. PairingTypeOK'
    BY DEF PairingInv, PairingTypeOK, Phases, goto
<1>2. HasUuid'
    BY DEF PairingInv, PairingTypeOK, HasUuid, goto
<1>3. WaitersAreTimed'
    BY DEF PairingInv, PairingTypeOK, WaitersAreTimed, goto
<1>4. \A q \in Tasks : Relaying(q)' => Relaying(q)
    BY DEF PairingInv, PairingTypeOK, Relaying, goto
<1>5. \A q \in Tasks : phase[q] \in {"sleep", "done"} => phase'[q] = phase[q]
    BY DEF PairingInv, PairingTypeOK, goto
<1>6. PairsSound' /\ PeersDiffer'
    BY <1>4, <1>5 DEF PairingInv, PairsSound, PairSound, PeersDiffer
<1>7. UsageIsLive'
    BY DEF PairingInv, PairingTypeOK, UsageIsLive, goto
<1> QED BY <1>1, <1>2, <1>3, <1>6, <1>7 DEF PairingInv

LEMMA TakePeerKeeps ==
    ASSUME PairingInv, NEW t \in Tasks, NEW u \in Uuids, TakePeer(t, u)
    PROVE  PairingInv'
<1> USE RelayAssumption
<1>1. PairingTypeOK'
    BY DEF PairingInv, PairingTypeOK, Phases, TakePeer, goto
<1>2. HasUuid'
    BY DEF PairingInv, PairingTypeOK, HasUuid, TakePeer, goto
<1>3. WaitersAreTimed'
    BY DEF PairingInv, PairingTypeOK, WaitersAreTimed, TakePeer, goto
<1>4. \A q \in Tasks \ {t} : Relaying(q)' => Relaying(q) /\ peer'[q] = peer[q] /\ uuid'[q] = uuid[q]
    BY DEF PairingInv, PairingTypeOK, Relaying, TakePeer, goto
<1>5. \A q \in Tasks : phase[q] \in {"sleep", "done"} =>
            q # t /\ phase'[q] = phase[q] /\ uuid'[q] = uuid[q]
    BY DEF PairingInv, PairingTypeOK, TakePeer, goto
<1>6. Relaying(t)' => /\ peer'[t] = PEERS[u] /\ PEERS[u] # None
                      /\ uuid'[t] = u
    BY DEF PairingInv, PairingTypeOK, Relaying, TakePeer, goto
<1>7. \A v \in Uuids : PEERS'[v] = IF v = u THEN None ELSE PEERS[v]
    BY DEF PairingInv, PairingTypeOK, TakePeer
<1>8. ASSUME Relaying(t)' PROVE PairSound(t)'
  <2>1. PEERS[u] \in Tasks /\ phase[PEERS[u]] = "sleep" /\ uuid[PEERS[u]] = u
    BY <1>6, <1>8 DEF PairingInv, PairingTypeOK, WaitersAreTimed
  <2>2. \A v \in Uuids : PEERS'[v] # PEERS[u]
    BY <2>1, <1>7 DEF PairingInv, PairingTypeOK, WaitersAreTimed
  <2> QED BY <1>5, <1>6, <1>8, <2>1, <2>2 DEF PairSound
<1>9. ASSUME NEW q \in Tasks \ {t}, Relaying(q)' PROVE PairSound(q)'
  <2>1. PairSound(q) /\ peer'[q] = peer[q] /\ uuid'[q] = uuid[q]
    BY <1>4, <1>9 DEF PairingInv, PairsSound
  <2>2. peer[q] # None /\ \A v \in Uuids : PEERS'[v] # peer[q]
    BY <2>1, <1>7 DEF PairSound
  <2> QED BY <2>1, <2>2, <1>5 DEF PairSound
<1>10. PairsSound'
    BY <1>8, <1>9 DEF PairsSound
<1>11. ASSUME Relaying(t)', NEW q \in Tasks \ {t}, Relaying(q)' PROVE peer'[q] # peer'[t]
    BY <1>11, <1>4, <1>6 DEF PairingInv, PairsSound, PairSound
<1>12. PeersDiffer'
    BY <1>4, <1>11 DEF PairingInv, PeersDiffer
<1>13. UsageIsLive'
    BY DEF PairingInv, PairingTypeOK, UsageIsLive, TakePeer, goto
<1> QED BY <1>1, <1>2, <1>3, <1>10, <1>12, <1>13 DEF PairingInv

\* A task puts its own stream into PEERS, or clears its uuid there.
LEMMA PeersKeeps ==
    ASSUME PairingInv, NEW t \in Tasks, InsertSelf(t) \/ WakeUp(t)
    PROVE  PairingInv'
<1> USE RelayAssumption
<1>0. uuid[t] \in Uuids
    BY DEF PairingInv, PairingTypeOK, HasUuid, InsertSelf, WakeUp
<1>1. PairingTypeOK'
    BY <1>0 DEF PairingInv, PairingTypeOK, Phases, InsertSelf, WakeUp, goto
<1>2. HasUuid'
    BY DEF PairingInv, PairingTypeOK, HasUuid, InsertSelf, WakeUp, goto
<1>3. WaitersAreTimed'
  <2>1. CASE InsertSelf(t)
    BY <2>1, <1>0 DEF PairingInv, PairingTypeOK, WaitersAreTimed, InsertSelf, goto
  <2>2. CASE WakeUp(t)
    BY <2>2, <1>0 DEF PairingInv, PairingTypeOK, WaitersAreTimed, WakeUp, goto
  <2> QED BY <2>1, <2>2
<1>4. \A q \in Tasks : Relaying(q)' => Relaying(q)
    BY DEF PairingInv, PairingTypeOK, Relaying, InsertSelf, WakeUp, goto
<1>5. \A q \in Tasks : phase[q] \in {"sleep", "done"} => phase'[q] \in {"sleep", "done"}
    BY DEF PairingInv, PairingTypeOK, InsertSelf, WakeUp, goto
<1>6. UNCHANGED <<uuid, peer, USAGE>>
    BY DEF InsertSelf, WakeUp
<1>7. \A q \in Tasks : Relaying(q) => \A v \in Uuids : PEERS'[v] # peer[q]
  <2> SUFFICES ASSUME NEW q \in Tasks, Relaying(q), NEW v \in Uuids PROVE PEERS'[v] # peer[q]
    OBVIOUS
  <2>1. PairSound(q)
    BY DEF PairingInv, PairsSound
  <2>2. PEERS'[v] = PEERS[v] \/ PEERS'[v] = None \/ (PEERS'[v] = t /\ phase[t] = "insert")
    BY <1>0 DEF PairingInv, PairingTypeOK, InsertSelf, WakeUp
  <2> QED BY <2>1, <2>2 DEF PairSound
<1>8. PairsSound' /\ PeersDiffer'
    BY <1>4, <1>5, <1>6, <1>7 DEF PairingInv, PairsSound, PairSound, PeersDiffer
<1>9. UsageIsLive'
    BY DEF PairingInv, PairingTypeOK, UsageIsLive, InsertSelf, WakeUp, goto
<1> QED BY <1>1, <1>2, <1>3, <1>8, <1>9 DEF PairingInv

\* A relay begins to be accounted, or its usage is written again.
LEMMA UsageKeeps ==
    ASSUME PairingInv, NEW t \in Tasks, Relaying(t), goto(t, "relay"), phase[t] # "ended",
           USAGE' = USAGE \cup {addr[t]}, UNCHANGED <<uuid, PEERS, peer, BLOCKLIST>>
    PROVE  PairingInv'
<1> USE RelayAssumption
<1>1. PairingTypeOK'
    BY DEF PairingInv, PairingTypeOK, Phases, goto
<1>2. HasUuid'
    BY DEF PairingInv, PairingTypeOK, HasUuid, Relaying, goto
<1>3. WaitersAreTimed'
    BY DEF PairingInv, PairingTypeOK, WaitersAreTimed, Relaying, goto
<1>4. \A q \in Tasks : Relaying(q)' => Relaying(q)
    BY DEF PairingInv, PairingTypeOK, Relaying, goto
<1>5. \A q \in Tasks : phase[q] \in {"sleep", "done"} => phase'[q] = phase[q]
    BY DEF PairingInv, PairingTypeOK, Relaying, goto
<1>6. PairsSound' /\ PeersDiffer'
    BY <1>4, <1>5 DEF PairingInv, PairsSound, PairSound, PeersDiffer
<1>7. UsageIsLive'
    BY DEF PairingInv, PairingTypeOK, UsageIsLive, Relaying, goto
<1> QED BY <1>1, <1>2, <1>3, <1>6, <1>7 DEF PairingInv

LEMMA RemoveUsageKeeps ==
    ASSUME PairingInv, NEW t \in Tasks, RemoveUsage(t)
    PROVE  PairingInv'
<1> USE RelayAssumption
<1>1. PairingTypeOK'
    BY DEF PairingInv, PairingTypeOK, Phases, RemoveUsage, goto
<1>2. HasUuid'
    BY DEF PairingInv, PairingTypeOK, HasUuid, RemoveUsage, goto
<1>3. WaitersAreTimed'
    BY DEF PairingInv, PairingTypeOK, WaitersAreTimed, RemoveUsage, goto
<1>4. \A q \in Tasks : Relaying(q)' => q # t /\ Relaying(q) /\ peer'[q] = peer[q]
    BY DEF PairingInv, PairingTypeOK, Relaying, RemoveUsage, goto
<1>5. \A q \in Tasks : phase[q] \in {"sleep", "done"} => phase'[q] = phase[q]
    BY DEF PairingInv, PairingTypeOK, RemoveUsage, goto
<1>6. UNCHANGED <<uuid, PEERS>>
    BY DEF RemoveUsage
<1>7. PairsSound' /\ PeersDiffer'
    BY <1>4, <1>5, <1>6 DEF PairingInv, PairsSound, PairSound, PeersDiffer
<1>8. UsageIsLive'
  <2>1. peer'[t] # None /\ phase'[t] = "done"
    BY DEF PairingInv, PairingTypeOK, PairsSound, PairSound, Relaying, RemoveUsage, goto
  <2>2. \A q \in Tasks : phase'[q] = IF q = t THEN "done" ELSE phase[q]
    BY DEF PairingInv, PairingTypeOK, RemoveUsage, goto
  <2>3. peer' = peer /\ USAGE' = USAGE \ {addr[t]}
    BY DEF RemoveUsage
  <2>4. \A a \in USAGE' : \E q \in Tasks : addr[q] = a /\ phase'[q] \in {"relay", "ended"}
    BY <2>2, <2>3 DEF PairingInv, UsageIsLive
  <2>5. ASSUME NEW q \in Tasks, phase'[q] \in {"relay", "ended"}
        PROVE  \/ addr[q] \in USAGE'
               \/ \E r \in Tasks \ {q} : addr[r] = addr[q] /\ peer'[r] # None /\ phase'[r] = "done"
    <3>1. q # t
        BY <2>1, <2>5
    <3>2. CASE addr[q] = addr[t]
        BY <2>1, <3>1, <3>2
    <3>3. CASE addr[q] # addr[t]
        BY <2>2, <2>3, <2>5, <3>1, <3>3 DEF PairingInv, UsageIsLive
    <3> QED BY <3>2, <3>3
  <2> QED BY <2>4, <2>5 DEF UsageIsLive
<1> QED BY <1>1, <1>2, <1>3, <1>7, <1>8 DEF PairingInv

\* The block list changes, or nothing does.
LEMMA BlocklistKeeps ==
    ASSUME PairingInv, UNCHANGED <<phase, uuid, PEERS, peer, USAGE>>,
           BLOCKLIST' \subseteq Addrs
    PROVE  PairingInv'
<1> QED BY DEF PairingInv, PairingTypeOK, HasUuid, WaitersAreTimed, PairsSound, PairSound,
               PeersDiffer, Relaying, UsageIsLive

\* Every step keeps the invariant.
LEMMA PairingInductive == PairingInv /\ [PairingNext]_pairingVars => PairingInv'
<1> SUFFICES ASSUME PairingInv, [PairingNext]_pairingVars PROVE PairingInv'
    OBVIOUS
<1>1. ASSUME NEW t \in Tasks, handle_connection(t) PROVE PairingInv'
  <2>1. CASE addr[t] \in BLOCKLIST
    BY <1>1, <2>1, MoveKeeps DEF handle_connection
  <2>2. CASE addr[t] \notin BLOCKLIST
    BY <1>1, <2>2, MoveKeeps DEF handle_connection
  <2> QED BY <2>1, <2>2
<1>2. ASSUME NEW t \in Tasks, NoRequest(t) PROVE PairingInv'
    BY <1>2, MoveKeeps DEF NoRequest
<1>3. ASSUME NEW t \in Tasks, InsertUsage(t) PROVE PairingInv'
    BY <1>3, UsageKeeps DEF InsertUsage, Relaying
<1>4. ASSUME NEW t \in Tasks, RelayTick(t) PROVE PairingInv'
  <2>1. CASE addr[t] \in BLOCKLIST
    BY <1>4, <2>1, MoveKeeps DEF RelayTick
  <2>2. CASE addr[t] \notin BLOCKLIST
    <3>1. goto(t, "relay")
        BY <1>4, <2>2 DEF RelayTick, goto, PairingInv, PairingTypeOK
    <3> QED BY <1>4, <2>2, <3>1, UsageKeeps DEF RelayTick, Relaying
  <2> QED BY <2>1, <2>2
<1>5. ASSUME NEW t \in Tasks, RelayBreaks(t) PROVE PairingInv'
    BY <1>5, MoveKeeps DEF RelayBreaks
<1>6. ASSUME NEW a \in Addrs, BlocklistAdd(a) PROVE PairingInv'
    BY <1>6, BlocklistKeeps DEF BlocklistAdd, PairingInv, PairingTypeOK
<1>7. ASSUME NEW S, BlocklistRemove(S) PROVE PairingInv'
    BY <1>7, BlocklistKeeps DEF BlocklistRemove, PairingInv, PairingTypeOK
<1>8. ASSUME UNCHANGED pairingVars PROVE PairingInv'
    BY <1>8, BlocklistKeeps DEF pairingVars, PairingInv, PairingTypeOK
<1> QED BY <1>1, <1>2, <1>3, <1>4, <1>5, <1>6, <1>7, <1>8, TakePeerKeeps, PeersKeeps,
           RemoveUsageKeeps DEF PairingNext, Step

LEMMA PairingInvariant == PairingSpec => []PairingInv
<1> QED BY PairingInitial, PairingInductive, PTL DEF PairingSpec

-----------------------------------------------------------------------------
\* A stream is owned once, so it is never relayed to two clients nor handed out
\* while it is being relayed, in whatever order make_pair_ tasks of one uuid
\* take and insert themselves.
THEOREM StreamsHaveOneOwner == PairingSpec => []OneSessionPerStream
<1>1. PairingInv => OneSessionPerStream
  <2> SUFFICES ASSUME PairingInv, NEW s \in Tasks, NEW x \in Owners(s), NEW y \in Owners(s)
               PROVE  x = y
    BY DEF OneSessionPerStream
  <2> DEFINE Own(z)    == z = s /\ phase[s] \in {"recv", "insert", "account", "relay", "ended"}
             Waits(z)  == z \in Uuids /\ PEERS[z] = s
             Relays(z) == z \in Tasks /\ Relaying(z) /\ peer[z] = s
  <2>1. (Own(x) \/ Waits(x) \/ Relays(x)) /\ (Own(y) \/ Waits(y) \/ Relays(y))
    BY DEF Owners
  <2>2. \A z : Waits(z) => phase[s] = "sleep" /\ uuid[s] = z
    BY RelayAssumption DEF PairingInv, WaitersAreTimed
  <2>3. \A z : Relays(z) => /\ phase[s] \in {"sleep", "done"}
                            /\ \A u \in Uuids : PEERS[u] # s
    BY DEF PairingInv, PairsSound, PairSound
  <2>4. \A z, w : Relays(z) /\ Relays(w) => z = w
    BY DEF PairingInv, PeersDiffer
  <2> QED BY <2>1, <2>2, <2>3, <2>4
<1> QED BY <1>1, PairingInvariant, PTL

\* A relay joins two different streams whose clients asked for one uuid.
THEOREM RelaysShareUuid == PairingSpec => []PairsShareUuid
<1>1. PairingInv => PairsShareUuid
    BY DEF PairingInv, PairsSound, PairSound, PairsShareUuid
<1> QED BY <1>1, PairingInvariant, PTL

\* The task of every stream in PEERS is still asleep and will clear the entry.
THEOREM WaitersHaveTimers == PairingSpec => []WaitersAreTimed
<1>1. PairingInv => WaitersAreTimed
    BY DEF PairingInv
<1> QED BY <1>1, PairingInvariant, PTL

\* The usage table lists the running relays, except those whose entry an ended
\* relay of the same address took with it.
THEOREM UsageOfLiveRelays == PairingSpec => []UsageIsLive
<1>1. PairingInv => UsageIsLive
    BY DEF PairingInv
<1> QED BY <1>1, PairingInvariant, PTL

\* A stream that waits alone under its uuid leaves PEERS only into a relay or
\* when its own 30 seconds are over.
THEOREM LoneWaitersStay == PairingSpec => LoneWaiterKept
<1> DEFINE Kept(u) ==
        LET s == PEERS[u] IN
        (s # None /\ PEERS'[u] # s) =>
            \/ phase'[s] = "done"
            \/ \E t \in Tasks : peer'[t] = s
            \/ \E t \in Tasks \ {s} : uuid[t] = u /\ phase[t] \in {"insert", "sleep"}
<1>1. PairingInv /\ [PairingNext]_pairingVars => [\A u \in Uuids : Kept(u)]_pairingVars
  <2> SUFFICES ASSUME PairingInv, PairingNext, NEW u \in Uuids, PEERS[u] # None, PEERS'[u] # PEERS[u]
               PROVE  Kept(u)
    BY DEF pairingVars
  <2>1. PEERS[u] \in Tasks /\ phase[PEERS[u]] = "sleep" /\ uuid[PEERS[u]] = u
    BY DEF PairingInv, PairingTypeOK, WaitersAreTimed
  <2>2. \/ \E t \in Tasks, v \in Uuids : TakePeer(t, v)
        \/ \E t \in Tasks : InsertSelf(t)
        \/ \E t \in Tasks : WakeUp(t)
    BY DEF PairingNext, Step, handle_connection, NoRequest, InsertUsage, RelayTick, RelayBreaks,
           RemoveUsage, BlocklistAdd, BlocklistRemove
  <2>3. ASSUME NEW t \in Tasks, NEW v \in Uuids, TakePeer(t, v) PROVE Kept(u)
    <3>1. v = u /\ peer'[t] = PEERS[u]
        BY <2>3 DEF TakePeer, PairingInv, PairingTypeOK
    <3> QED BY <3>1
  <2>4. ASSUME NEW t \in Tasks, InsertSelf(t) PROVE Kept(u)
    <3>1. uuid[t] = u /\ phase[t] = "insert" /\ t # PEERS[u]
        BY <2>4, <2>1 DEF InsertSelf, PairingInv, PairingTypeOK
    <3> QED BY <3>1
  <2>5. ASSUME NEW t \in Tasks, WakeUp(t) PROVE Kept(u)
    <3>1. uuid[t] = u /\ phase[t] = "sleep" /\ phase'[t] = "done"
        BY <2>5 DEF WakeUp, goto, PairingInv, PairingTypeOK
    <3> QED BY <3>1
  <2> QED BY <2>2, <2>3, <2>4, <2>5
<1> QED BY <1>1, PairingInvariant, PTL DEF PairingSpec, LoneWaiterKept

-----------------------------------------------------------------------------
(* The address lists *)

\* The disk lock is held by the one command that reads or writes.
LockHeld ==
    \A c \in Commands : pc[c] \in {"read", "write"} <=> DISK_WRITE_LOCK = c

\* The versions are ordered, and equal versions are equal sets.
Ordered ==
    /\ diskVer <= memVer
    /\ acked <= memVer
    /\ \A c \in Commands : cmdVer[c] <= memVer
    /\ diskVer = memVer => Listed(file) = Listed(set)

\* A command about to write holds a copy that is newer than the file, than its
\* own change and than everything answered so far.
CopyIsNew ==
    \A c \in Commands : pc[c] = "write" =>
        /\ diskVer <= snapVer[c] /\ snapVer[c] <= memVer
        /\ acked <= snapVer[c] /\ cmdVer[c] <= snapVer[c]
        /\ snapVer[c] = memVer => snap[c] = set

\* A copy that is out of date is so because of a command that still waits for
\* the lock: it will save the newest set.
NewerWaits ==
    \A c \in Commands : pc[c] = "write" =>
        \/ snapVer[c] = memVer
        \/ \E d \in Commands : pc[d] = "lock" /\ cmdVer[d] = memVer

\* The newest set is on disk, or its command is still at work, or a save failed.
NewestIsSaved ==
    \/ failed
    \/ diskVer = memVer
    \/ \E d \in Commands : pc[d] # "idle" /\ cmdVer[d] = memVer

\* The inductive invariant.
IpSetInv ==
    /\ IpSetTypeOK
    /\ LockHeld
    /\ Ordered
    /\ CopyIsNew
    /\ NewerWaits
    /\ NewestIsSaved
    /\ AnsweredIsSaved

-----------------------------------------------------------------------------
LEMMA IpSetInitial == IpSetInit => IpSetInv
<1> SUFFICES ASSUME IpSetInit PROVE IpSetInv
    OBVIOUS
<1>1. IpSetTypeOK
  <2>1. 0 \in Versions
    BY IpSetAssumption DEF Versions
  <2>2. snap \in [Commands -> SUBSET (Ips \cup {Blank})]
    BY DEF IpSetInit
  <2> QED BY <2>1, <2>2 DEF IpSetInit, IpSetTypeOK
<1>2. LockHeld
    BY IpSetAssumption DEF IpSetInit, LockHeld
<1>3. Ordered /\ CopyIsNew /\ NewerWaits /\ NewestIsSaved /\ AnsweredIsSaved
    BY DEF IpSetInit, Ordered, CopyIsNew, NewerWaits, NewestIsSaved, AnsweredIsSaved
<1> QED BY <1>1, <1>2, <1>3 DEF IpSetInv

\* set_insert and set_remove.
LEMMA ChangeKeeps ==
    ASSUME IpSetInv, NEW c \in Commands, NEW new \in SUBSET (Ips \cup {Blank}), change(c, new)
    PROVE  IpSetInv'
<1> USE IpSetAssumption
<1>1. IpSetTypeOK'
    BY DEF IpSetInv, IpSetTypeOK, Versions, change
<1>2. LockHeld'
    BY DEF IpSetInv, IpSetTypeOK, LockHeld, change
<1>3. Ordered'
    BY DEF IpSetInv, IpSetTypeOK, Versions, Ordered, change
<1>4. CopyIsNew'
    BY DEF IpSetInv, IpSetTypeOK, Versions, Ordered, CopyIsNew, change
<1>5. pc'[c] = "lock" /\ cmdVer'[c] = memVer'
    BY DEF IpSetInv, IpSetTypeOK, change
<1>6. NewerWaits' /\ NewestIsSaved'
    BY <1>5 DEF NewerWaits, NewestIsSaved
<1>7. AnsweredIsSaved'
    BY DEF IpSetInv, AnsweredIsSaved, change
<1> QED BY <1>1, <1>2, <1>3, <1>4, <1>6, <1>7 DEF IpSetInv

LEMMA TakeDiskLockKeeps ==
    ASSUME IpSetInv, NEW c \in Commands, TakeDiskLock(c)
    PROVE  IpSetInv'
<1> USE IpSetAssumption
<1>1. \A d \in Commands : pc[d] # "write" /\ pc'[d] # "write"
    BY DEF IpSetInv, IpSetTypeOK, LockHeld, TakeDiskLock
<1>2. IpSetTypeOK'
    BY DEF IpSetInv, IpSetTypeOK, TakeDiskLock
<1>3. LockHeld'
    BY DEF IpSetInv, IpSetTypeOK, LockHeld, TakeDiskLock
<1>4. Ordered' /\ AnsweredIsSaved'
    BY DEF IpSetInv, Ordered, AnsweredIsSaved, Listed, TakeDiskLock
<1>5. CopyIsNew' /\ NewerWaits'
    BY <1>1 DEF CopyIsNew, NewerWaits
<1>6. NewestIsSaved'
    BY DEF IpSetInv, IpSetTypeOK, NewestIsSaved, TakeDiskLock
<1> QED BY <1>2, <1>3, <1>4, <1>5, <1>6 DEF IpSetInv

LEMMA ReadSetKeeps ==
    ASSUME IpSetInv, NEW c \in Commands, ReadSet(c)
    PROVE  IpSetInv'
<1> USE IpSetAssumption
<1>1. \A d \in Commands : pc'[d] = "write" => d = c
    BY DEF IpSetInv, IpSetTypeOK, LockHeld, ReadSet
<1>2. IpSetTypeOK'
    BY DEF IpSetInv, IpSetTypeOK, ReadSet
<1>3. LockHeld'
    BY DEF IpSetInv, IpSetTypeOK, LockHeld, ReadSet
<1>4. Ordered' /\ AnsweredIsSaved'
    BY DEF IpSetInv, Ordered, AnsweredIsSaved, Listed, ReadSet
<1>5. snapVer'[c] = memVer' /\ snap'[c] = set'
    BY DEF IpSetInv, IpSetTypeOK, ReadSet
<1>6. CopyIsNew' /\ NewerWaits'
    BY <1>1, <1>4, <1>5, <1>2 DEF CopyIsNew, NewerWaits, Ordered, IpSetTypeOK, Versions
<1>7. NewestIsSaved'
    BY DEF IpSetInv, IpSetTypeOK, NewestIsSaved, ReadSet
<1> QED BY <1>2, <1>3, <1>4, <1>6, <1>7 DEF IpSetInv

\* What answering does, whether the set was saved or not.
LEMMA AnswerKeeps ==
    ASSUME IpSetInv, NEW c \in Commands, answer(c), UNCHANGED <<set, memVer>>
    PROVE  /\ LockHeld'
           /\ \A d \in Commands : pc'[d] # "write"
           /\ acked' = acked \/ acked' = cmdVer[c]
           /\ acked' \in Versions /\ acked' <= memVer
           /\ \A d \in Commands : cmdVer'[d] <= memVer
           /\ DISK_WRITE_LOCK' \in Commands \cup {Free}
           /\ pc' \in [Commands -> {"idle", "lock", "read", "write"}]
           /\ snap' \in [Commands -> SUBSET (Ips \cup {Blank})]
           /\ snapVer' \in [Commands -> Versions]
           /\ cmdVer' \in [Commands -> Versions]
<1> USE IpSetAssumption
<1>1. LockHeld' /\ \A d \in Commands : pc'[d] # "write"
    BY DEF IpSetInv, IpSetTypeOK, LockHeld, answer
<1>2. /\ acked' = acked \/ acked' = cmdVer[c]
      /\ acked' \in Versions /\ acked' <= memVer
    BY DEF IpSetInv, IpSetTypeOK, Versions, Ordered, answer
<1>3. \A d \in Commands : cmdVer'[d] <= memVer
    BY DEF IpSetInv, IpSetTypeOK, Versions, Ordered, answer
<1>4. /\ DISK_WRITE_LOCK' \in Commands \cup {Free}
      /\ pc' \in [Commands -> {"idle", "lock", "read", "write"}]
      /\ snap' \in [Commands -> SUBSET (Ips \cup {Blank})]
      /\ snapVer' \in [Commands -> Versions]
      /\ cmdVer' \in [Commands -> Versions]
    BY DEF IpSetInv, IpSetTypeOK, Versions, answer
<1> QED BY <1>1, <1>2, <1>3, <1>4

LEMMA RenameKeeps ==
    ASSUME IpSetInv, NEW c \in Commands, Rename(c)
    PROVE  IpSetInv'
<1> USE IpSetAssumption
<1>0. answer(c) /\ UNCHANGED <<set, memVer>> /\ pc[c] = "write"
    BY DEF Rename, answer
<1>1. /\ diskVer' = snapVer[c] /\ diskVer' \in Versions /\ memVer \in Versions
      /\ file' = snap[c] /\ ~failed'
    BY DEF Rename, IpSetInv, IpSetTypeOK
<1>2. /\ snapVer[c] <= memVer /\ acked <= snapVer[c] /\ cmdVer[c] <= snapVer[c]
      /\ snapVer[c] = memVer => snap[c] = set
    BY <1>0 DEF IpSetInv, CopyIsNew
<1>3. IpSetTypeOK'
    BY <1>0, <1>1, AnswerKeeps DEF IpSetInv, IpSetTypeOK, Rename
<1>4. LockHeld' /\ CopyIsNew' /\ NewerWaits'
    BY <1>0, AnswerKeeps DEF CopyIsNew, NewerWaits
<1>5. Ordered'
    BY <1>0, <1>1, <1>2, AnswerKeeps DEF Ordered
<1>6. NewestIsSaved'
  <2>1. CASE snapVer[c] = memVer
    BY <2>1, <1>0, <1>1 DEF NewestIsSaved
  <2>2. CASE \E d \in Commands : pc[d] = "lock" /\ cmdVer[d] = memVer
    <3>1. PICK d \in Commands : pc[d] = "lock" /\ cmdVer[d] = memVer
        BY <2>2
    <3>2. d # c
        BY <3>1, <1>0
    <3>3. pc'[d] = "lock" /\ cmdVer'[d] = memVer'
        BY <3>1, <3>2, <1>0 DEF answer, IpSetInv, IpSetTypeOK
    <3> QED BY <3>3 DEF NewestIsSaved
  <2> QED BY <2>1, <2>2, <1>0 DEF IpSetInv, NewerWaits
<1>7. AnsweredIsSaved'
    BY <1>0, <1>1, <1>2, AnswerKeeps DEF AnsweredIsSaved
<1> QED BY <1>3, <1>4, <1>5, <1>6, <1>7 DEF IpSetInv

LEMMA WriteFailsKeeps ==
    ASSUME IpSetInv, NEW c \in Commands, WriteFails(c)
    PROVE  IpSetInv'
<1> USE IpSetAssumption
<1>0. answer(c) /\ UNCHANGED <<set, memVer>> /\ failed' = TRUE
    BY DEF WriteFails
<1>1. IpSetTypeOK'
    BY <1>0, AnswerKeeps DEF IpSetInv, IpSetTypeOK, WriteFails
<1>2. LockHeld' /\ CopyIsNew' /\ NewerWaits'
    BY <1>0, AnswerKeeps DEF CopyIsNew, NewerWaits
<1>3. Ordered'
    BY <1>0, AnswerKeeps DEF Ordered, IpSetInv, Listed, WriteFails
<1>4. NewestIsSaved' /\ AnsweredIsSaved'
    BY <1>0 DEF NewestIsSaved, AnsweredIsSaved
<1> QED BY <1>1, <1>2, <1>3, <1>4 DEF IpSetInv

LEMMA RestartKeeps == IpSetInv /\ Restart => IpSetInv'
<1> SUFFICES ASSUME IpSetInv, Restart PROVE IpSetInv'
    OBVIOUS
<1> USE IpSetAssumption
<1>1. IpSetTypeOK'
  <2>1. 0 \in Versions
    BY DEF Versions
  <2>2. snap' \in [Commands -> SUBSET (Ips \cup {Blank})]
    BY DEF Restart
  <2>3. acked' \in Versions
    BY DEF IpSetInv, IpSetTypeOK, Restart
  <2> QED BY <2>1, <2>2, <2>3 DEF IpSetInv, IpSetTypeOK, Restart
<1>2. LockHeld' /\ CopyIsNew' /\ NewerWaits'
    BY DEF LockHeld, CopyIsNew, NewerWaits, Restart
<1>3. Ordered'
    BY DEF IpSetInv, IpSetTypeOK, Versions, Ordered, Listed, Restart
<1>4. NewestIsSaved' /\ AnsweredIsSaved'
    BY DEF IpSetInv, IpSetTypeOK, Versions, NewestIsSaved, AnsweredIsSaved, Restart
<1> QED BY <1>1, <1>2, <1>3, <1>4 DEF IpSetInv

\* Every step keeps the invariant.
LEMMA IpSetInductive == IpSetInv /\ [IpSetNext]_ipSetVars => IpSetInv'
<1> SUFFICES ASSUME IpSetInv, [IpSetNext]_ipSetVars PROVE IpSetInv'
    OBVIOUS
<1>1. ASSUME NEW c \in Commands, NEW i \in Ips, set_insert(c, {i}) \/ set_remove(c, {i})
      PROVE  IpSetInv'
  <2>1. set \cup {i} \in SUBSET (Ips \cup {Blank}) /\ set \ {i} \in SUBSET (Ips \cup {Blank})
    BY DEF IpSetInv, IpSetTypeOK
  <2> QED BY <1>1, <2>1, ChangeKeeps DEF set_insert, set_remove
<1>2. ASSUME NEW c \in Commands, set_remove_all(c) PROVE IpSetInv'
    BY <1>2, ChangeKeeps DEF set_remove_all
<1>3. ASSUME UNCHANGED ipSetVars PROVE IpSetInv'
    BY <1>3 DEF ipSetVars, IpSetInv, IpSetTypeOK, LockHeld, Ordered, CopyIsNew, NewerWaits,
                NewestIsSaved, AnsweredIsSaved, Listed
<1> QED BY <1>1, <1>2, <1>3, TakeDiskLockKeeps, ReadSetKeeps, RenameKeeps, WriteFailsKeeps,
           RestartKeeps DEF IpSetNext

LEMMA IpSetInvariant == IpSetSpec => []IpSetInv
<1> QED BY IpSetInitial, IpSetInductive, PTL DEF IpSetSpec

-----------------------------------------------------------------------------
\* The variables of the address lists keep their types (write_set_to_file,
\* set_insert, set_remove).
THEOREM IpSetTypeCorrect == IpSetSpec => []IpSetTypeOK
<1>1. IpSetInv => IpSetTypeOK
    BY DEF IpSetInv
<1> QED BY <1>1, IpSetInvariant, PTL

\* When no command is at work and no save failed, the file lists what the
\* memory lists: DISK_WRITE_LOCK, taken before the set is read, keeps an older
\* copy from overwriting a newer one.
THEOREM FileIsNewest == IpSetSpec => []FileMatchesSet
<1>1. IpSetInv => FileMatchesSet
  <2> SUFFICES ASSUME IpSetInv, \A c \in Commands : pc[c] = "idle", ~failed
               PROVE  Listed(file) = Listed(set)
    BY DEF FileMatchesSet
  <2>1. diskVer = memVer
    BY DEF IpSetInv, NewestIsSaved
  <2> QED BY <2>1 DEF IpSetInv, Ordered
<1> QED BY <1>1, IpSetInvariant, PTL

\* An answered command survives a crash at any later point, unless a save
\* failed and none followed.
THEOREM AnswersSurviveCrash == IpSetSpec => []AnsweredIsSaved
<1>1. IpSetInv => AnsweredIsSaved
    BY DEF IpSetInv
<1> QED BY <1>1, IpSetInvariant, PTL

-----------------------------------------------------------------------------
(* The server *)

\* The part that rests stutters, so the server runs both parts as specified.
LEMMA ServerRunsBoth == FairSpec => PairingSpec /\ IpSetSpec
<1>1. Init => PairingInit /\ IpSetInit
    BY DEF Init
<1>2. [Next]_vars => [PairingNext]_pairingVars /\ [IpSetNext]_ipSetVars
  <2> SUFFICES ASSUME [Next]_vars PROVE [PairingNext]_pairingVars /\ [IpSetNext]_ipSetVars
    OBVIOUS
  <2>1. CASE part = "pairing" /\ PairingNext /\ UNCHANGED <<part, ipSetVars>>
    BY <2>1
  <2>2. CASE part = "lists" /\ IpSetNext /\ UNCHANGED <<part, pairingVars>>
    BY <2>2
  <2>3. CASE UNCHANGED vars
    BY <2>3 DEF vars
  <2> QED BY <2>1, <2>2, <2>3 DEF Next
<1> QED BY <1>1, <1>2, PTL DEF FairSpec, PairingSpec, IpSetSpec

\* The connection tasks and the list commands of hbbr keep every table, lock
\* and file in its type (make_pair_, relay, check_cmd).
THEOREM ServerTypeCorrect == FairSpec => []TypeOK
<1>1. PairingInv => PairingTypeOK
    BY DEF PairingInv
<1>2. IpSetInv => IpSetTypeOK
    BY DEF IpSetInv
<1>3. PairingTypeOK /\ IpSetTypeOK <=> TypeOK
    BY DEF TypeOK
<1> QED BY <1>1, <1>2, <1>3, ServerRunsBoth, PairingInvariant, IpSetInvariant, PTL
=============================================================================
