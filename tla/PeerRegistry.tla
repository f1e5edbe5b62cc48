---------------------------- MODULE PeerRegistry ----------------------------
(***************************************************************************)
(* Registration of a peer id with the rendezvous server (hbbs):            *)
(* handle_register_pk of src/server/src/rendezvous_server.rs over PeerMap  *)
(* (src/server/src/peer.rs), a map from ids to shared, locked entries, and *)
(* the table `peer` of src/server/src/database.rs.  Ids do not interact,   *)
(* so one id is modelled.  Every lock or database await is a point where   *)
(* other tasks run: requests over TCP and websockets and look-ups of a     *)
(* peer that is not in memory are tasks of their own.  An entry is an      *)
(* object, and tasks may hold entries that have left the map.              *)
(*                                                                         *)
(* sawEmpty, overlap and failed are history: the machines whose request    *)
(* was accepted because the id was unregistered; two tasks ran together    *)
(* since the server started; the last write of the row failed.             *)
(***************************************************************************)
EXTENDS Naturals

CONSTANTS
    Tasks,          \* requests and look-ups, numbered as they arrive
    Uuids, Pks,     \* of devices: the machine and its key
    Ips,            \* addresses
    KeyOwner,       \* key -> the machine that made it
    Entries,        \* entry objects, at most one per task
    None            \* empty bytes, no entry, no row

ASSUME RegistryAssumption ==
    /\ KeyOwner \in [Pks -> Uuids]
    /\ Tasks \subseteq Nat
    /\ None \notin Uuids \cup Pks \cup Ips \cup Entries

VARIABLES
    pc,             \* task -> where it is
    msg,            \* task -> its RegisterPk message (uuid, pk, address)
    held,           \* task -> the entry it holds
    row0,           \* task -> the row it read from the table
    entry,          \* entry -> its fields
    used,           \* entries allocated so far
    map,            \* the entry in PeerMap, or None
    row,            \* the row of the table, or NoRow
    sawEmpty, overlap, failed

registryVars == <<pc, msg, held, row0, entry, used, map, row, sawEmpty, overlap, failed>>

Message == [uuid : Uuids, pk : Pks, ip : Ips]
NoMessage == [uuid |-> None, pk |-> None, ip |-> None]
Row == [guid : Entries, uuid : Uuids, pk : Pks, ip : Ips]
NoRow == [guid |-> None, uuid |-> None, pk |-> None, ip |-> None]
NewEntry == NoRow

Steps == {"new", "get", "load", "publish", "or", "check", "update", "insert",
          "set_guid", "update_row", "done"}

RegistryTypeOK ==
    /\ pc \in [Tasks -> Steps]
    /\ msg \in [Tasks -> Message \cup {NoMessage}]
    /\ held \in [Tasks -> Entries \cup {None}]
    /\ row0 \in [Tasks -> Row \cup {NoRow}]
    /\ entry \in [Entries -> [guid : Entries \cup {None}, uuid : Uuids \cup {None},
                              pk : Pks \cup {None}, ip : Ips \cup {None}]]
    /\ used \subseteq Entries
    /\ map \in Entries \cup {None}
    /\ row \in Row \cup {NoRow}
    /\ sawEmpty \subseteq Uuids
    /\ overlap \in BOOLEAN /\ failed \in BOOLEAN

RegistryInit ==
    /\ pc = [t \in Tasks |-> "new"]
    /\ msg = [t \in Tasks |-> NoMessage]
    /\ held = [t \in Tasks |-> None]
    /\ row0 = [t \in Tasks |-> NoRow]
    /\ entry = [e \in Entries |-> NewEntry]
    /\ used = {}
    /\ map = None
    /\ row = NoRow
    /\ sawEmpty = {}
    /\ overlap = FALSE /\ failed = FALSE

-----------------------------------------------------------------------------
goto(t, s) == pc' = [pc EXCEPT ![t] = s]
isLookup(t) == msg[t] = NoMessage
running(t) == pc[t] \notin {"new", "done"}

\* Arc::new: an entry object that nobody has held.
Fresh == CHOOSE e \in Entries : e \notin used

\* A task starts: a RegisterPk message of a device, with a key of its own, or
\* a look-up (PunchHoleRequest, get_pk), which has no message.
Start(t, m) ==
    /\ pc[t] = "new"
    /\ \A q \in Tasks : q < t => pc[q] # "new"
    /\ m # NoMessage => KeyOwner[m.pk] = m.uuid
    /\ goto(t, "get")
    /\ msg' = [msg EXCEPT ![t] = m]
    /\ overlap' = (overlap \/ \E q \in Tasks : running(q))
    /\ UNCHANGED <<held, row0, entry, used, map, row, sawEmpty, failed>>

\* PeerMap::get, first half: the map under a read lock.
GetFromMap(t) ==
    /\ pc[t] = "get"
    /\ held' = [held EXCEPT ![t] = IF isLookup(t) THEN None ELSE map]
    /\ goto(t, CASE map = None -> "load" [] isLookup(t) -> "done" [] OTHER -> "check")
    /\ UNCHANGED <<msg, row0, entry, used, map, row, sawEmpty, overlap, failed>>

\* Second half: the table.  No row and a failed query are the same to get.
GetFromDb(t, fails) ==
    /\ pc[t] = "load"
    /\ row0' = [row0 EXCEPT ![t] = IF fails THEN NoRow ELSE row]
    /\ goto(t, CASE ~fails /\ row # NoRow -> "publish" [] isLookup(t) -> "done" [] OTHER -> "or")
    /\ UNCHANGED <<msg, held, entry, used, map, row, sawEmpty, overlap, failed>>

\* An entry made of the row goes into the map, over whatever is there by now.
PublishRow(t) ==
    /\ pc[t] = "publish"
    /\ used # Entries
    /\ used' = used \cup {Fresh}
    /\ entry' = [entry EXCEPT ![Fresh] = row0[t]]
    /\ map' = Fresh
    /\ held' = [held EXCEPT ![t] = IF isLookup(t) THEN None ELSE Fresh]
    /\ row0' = [row0 EXCEPT ![t] = NoRow]
    /\ goto(t, IF isLookup(t) THEN "done" ELSE "check")
    /\ UNCHANGED <<msg, row, sawEmpty, overlap, failed>>

\* get_or: under the write lock, the entry of the map or a new, empty one.
OrDefault(t) ==
    /\ pc[t] = "or"
    /\ IF map # None
          THEN held' = [held EXCEPT ![t] = map] /\ UNCHANGED <<map, used, entry>>
          ELSE /\ used # Entries
               /\ held' = [held EXCEPT ![t] = Fresh]
               /\ map' = Fresh
               /\ used' = used \cup {Fresh}
               /\ entry' = [entry EXCEPT ![Fresh] = NewEntry]
    /\ goto(t, "check")
    /\ UNCHANGED <<msg, row0, row, sawEmpty, overlap, failed>>

\* The request ends and lets its entry go.  The result of update_pk is
\* dropped: the answer is OK whether the table was written or not.
answered(t) ==
    /\ goto(t, "done")
    /\ held' = [held EXCEPT ![t] = None]
    /\ msg' = [msg EXCEPT ![t] = NoMessage]

BugUuidUnchecked(t, limited, ws) ==
    LET e == entry[held[t]]
        m == msg[t]
    IN  /\ pc[t] = "check"
        /\ sawEmpty' = IF e.uuid = None /\ ~limited THEN sawEmpty \cup {m.uuid} ELSE sawEmpty
        /\ IF limited \/ (e.uuid # None /\ e.ip # m.ip /\ e.pk # m.pk)
              THEN answered(t) ELSE goto(t, "update") /\ UNCHANGED <<held, msg>>
        /\ UNCHANGED <<row0, entry, used, map, row, overlap, failed>>

\* handle_register_pk: the checks, under a read lock that is then dropped.  An
\* entry with another machine, or with another key and another address, is
\* refused, and so is a request that comes too often.  An entry that already
\* says the same is left alone, except for a websocket.
Check(t, limited, ws) ==
    LET e == entry[held[t]]
        m == msg[t]
        mismatch == e.uuid # None /\ (e.uuid # m.uuid \/ (e.ip # m.ip /\ e.pk # m.pk))
        changed == e.uuid = None \/ e.pk # m.pk \/ e.ip # m.ip
    IN  /\ pc[t] = "check"
        /\ sawEmpty' = IF e.uuid = None /\ ~limited THEN sawEmpty \cup {m.uuid} ELSE sawEmpty
        /\ IF ~mismatch /\ ~limited /\ (changed \/ ws)
              THEN goto(t, "update") /\ UNCHANGED <<held, msg>>
              ELSE answered(t)
        /\ UNCHANGED <<row0, entry, used, map, row, overlap, failed>>

\* PeerMap::update_pk: the entry first, under its write lock ...
UpdateEntry(t) ==
    LET e == held[t] IN
    /\ pc[t] = "update"
    /\ entry' = [entry EXCEPT ![e] = [guid |-> entry[e].guid, uuid |-> msg[t].uuid,
                                      pk |-> msg[t].pk, ip |-> msg[t].ip]]
    /\ goto(t, IF entry[e].guid = None THEN "insert" ELSE "update_row")
    /\ UNCHANGED <<msg, held, row0, used, map, row, sawEmpty, overlap, failed>>

\* ... then a new row, which the unique index on the id refuses when there is
\* one.  A guid is drawn; the entry's own name stands for it.
InsertRow(t, fails) ==
    /\ pc[t] = "insert"
    /\ IF fails \/ row # NoRow
          THEN answered(t) /\ failed' = TRUE /\ UNCHANGED row
          ELSE /\ row' = [guid |-> held[t], uuid |-> msg[t].uuid, pk |-> msg[t].pk, ip |-> msg[t].ip]
               /\ goto(t, "set_guid") /\ failed' = FALSE /\ UNCHANGED <<held, msg>>
    /\ UNCHANGED <<row0, entry, used, map, sawEmpty, overlap>>

\* ... whose guid the entry gets under another write lock;
SetGuid(t) ==
    /\ pc[t] = "set_guid"
    /\ entry' = [entry EXCEPT ![held[t]].guid = row.guid]
    /\ answered(t)
    /\ UNCHANGED <<row0, used, map, row, sawEmpty, overlap, failed>>

BugUpdateInMemoryOnly(t, fails) ==
    /\ pc[t] = "update_row"
    /\ answered(t)
    /\ failed' = fails
    /\ UNCHANGED <<row0, entry, used, map, row, sawEmpty, overlap>>

BugUuidAsGuid(t, fails) ==
    /\ pc[t] = "update_row"
    /\ row' = [guid |-> msg[t].uuid, uuid |-> row.uuid, pk |-> msg[t].pk, ip |-> msg[t].ip]
    /\ answered(t)
    /\ failed' = fails
    /\ UNCHANGED <<row0, entry, used, map, sawEmpty, overlap>>

\* ... or an update of the row with the entry's guid: key and address, not
\* the machine.
UpdateRow(t, fails) ==
    LET hit == ~fails /\ row.guid = entry[held[t]].guid IN
    /\ pc[t] = "update_row"
    /\ row' = IF hit THEN [guid |-> row.guid, uuid |-> row.uuid, pk |-> msg[t].pk, ip |-> msg[t].ip]
              ELSE row
    /\ answered(t)
    /\ failed' = fails
    /\ UNCHANGED <<row0, entry, used, map, sawEmpty, overlap>>

\* The server restarts: the map and the tasks are gone, the table stays.
Restart ==
    /\ map' = None
    /\ pc' = [t \in Tasks |-> IF pc[t] = "new" THEN "new" ELSE "done"]
    /\ held' = [t \in Tasks |-> None]
    /\ msg' = [t \in Tasks |-> NoMessage]
    /\ row0' = [t \in Tasks |-> NoRow]
    /\ overlap' = FALSE /\ failed' = FALSE
    /\ UNCHANGED <<entry, used, row, sawEmpty>>

RegistryNext ==
    \/ \E t \in Tasks :
        \/ \E m \in Message \cup {NoMessage} : Start(t, m)
        \/ GetFromMap(t)
        \/ \E fails \in BOOLEAN : GetFromDb(t, fails)
        \/ PublishRow(t) \/ OrDefault(t)
        \/ \E limited, ws \in BOOLEAN : Check(t, limited, ws)
        \/ UpdateEntry(t)
        \/ \E fails \in BOOLEAN : InsertRow(t, fails) \/ UpdateRow(t, fails)
        \/ SetGuid(t)
    \/ Restart

RegistrySpec == RegistryInit /\ [][RegistryNext]_registryVars

-----------------------------------------------------------------------------
Quiet == \A t \in Tasks : ~running(t)

\* The machine whose key x serves is the one x names, or it once found the id
\* unregistered.
RightfulKey(x) ==
    \/ x.pk = None
    \/ KeyOwner[x.pk] = x.uuid
    \/ KeyOwner[x.pk] \in sawEmpty

\* However registrations, look-ups and restarts interleave, the key of another
\* machine gets into an entry or into the table only through a registration
\* that found the id unregistered: it raced with the first one, or the table
\* could not be read.
ForeignKeyNeedsRace == RightfulKey(row) /\ \A e \in Entries : RightfulKey(entry[e])

\* As long as tasks did not overlap since the start, a registered entry in
\* memory is the row of the table, so a restart changes nothing for the
\* device: a write that failed (update_pk, whose result handle_register_pk
\* drops) is repaired by the next one that succeeds, and a row that could not
\* be read is not shadowed unless an insert was refused.
MemoryIsTheRow ==
    (Quiet /\ ~overlap /\ ~failed /\ map # None) =>
        (entry[map].uuid = None \/ entry[map] = row)
=============================================================================
