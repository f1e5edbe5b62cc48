------------------------- MODULE RendezvousServerProofs -----------------------
(***************************************************************************)
(* The rendezvous server, for any number of requests, machines, keys,      *)
(* restarts, relay lists and checks: whose key an entry or the table can   *)
(* hold, and that the map of peers agrees with the table.                  *)
(***************************************************************************)
EXTENDS RendezvousServer, SequenceTheorems, TLAPS

\* Past the check of handle_register_pk.
Accepted == {"update", "insert", "set_guid", "update_row"}

\* Steps that need the entry the task holds, and the message it handles.
Holding == {"check"} \cup Accepted
Handling == {"or"} \cup Holding

\* A machine that may write: it found the id free, or the table names it.
Legit(m) == m \in sawEmpty \/ (m # None /\ m = row.uuid)

\* A message comes from the machine that made its key.
OwnKey(m) == m.pk \in Pks /\ KeyOwner[m.pk] = m.uuid

TasksSound ==
    \A t \in Tasks :
        /\ pc[t] \in Handling => msg[t] \in Message
        /\ msg[t] \in Message => OwnKey(msg[t])
        /\ pc[t] \in Holding => held[t] \in Entries
        /\ pc[t] \in Accepted => Legit(msg[t].uuid)

\* What was read from the table is rightful and names the machine of the row.
ReadsSound ==
    \A t \in Tasks : row0[t] # NoRow => RightfulKey(row0[t]) /\ row0[t].uuid = row.uuid

\* An entry names a machine that may write.
EntriesLegit == \A e \in Entries : entry[e].uuid # None => Legit(entry[e].uuid)

\* The inductive invariant.
RegistryInv ==
    /\ RegistryTypeOK
    /\ TasksSound
    /\ ReadsSound
    /\ EntriesLegit
    /\ ForeignKeyNeedsRace

\* Entries in use, and what a task between two steps of update_pk relies on:
\* a guid, once given, is not taken away, and rows are not removed.
HeldSound ==
    /\ map \in used \cup {None}
    /\ \A t \in Tasks :
        /\ held[t] \in used \cup {None}
        /\ pc[t] = "set_guid" => row # NoRow
        /\ pc[t] = "update_row" => entry[held[t]].guid # None

\* The entry in memory is new, or has the guid of the row and then its
\* machine; it is the row itself unless the last write failed.
MapIsRow ==
    map # None =>
        /\ entry[map].guid \in {None, row.guid}
        /\ entry[map].guid # None => entry[map].uuid = row.uuid
        /\ entry[map].uuid = None => entry[map] = NewEntry
        /\ ~failed => entry[map] \in {row, NewEntry}

\* What a task that runs alone knows of the map, its entry and the row.
StepAlone(t) ==
    /\ pc[t] \in {"get", "check", "update"} => MapIsRow
    /\ pc[t] \in {"load", "publish", "or"} => map = None
    /\ pc[t] = "publish" => row0[t] = row
    /\ pc[t] \in Holding => held[t] = map
    /\ pc[t] = "update" => entry[map] = NewEntry \/ entry[map].uuid = msg[t].uuid
    /\ pc[t] \in {"insert", "set_guid"} =>
        entry[map] = [guid |-> None, uuid |-> msg[t].uuid, pk |-> msg[t].pk, ip |-> msg[t].ip]
    /\ pc[t] = "set_guid" =>
        row = [guid |-> map, uuid |-> msg[t].uuid, pk |-> msg[t].pk, ip |-> msg[t].ip]
    /\ pc[t] = "update_row" =>
        /\ row.uuid = msg[t].uuid
        /\ entry[map] = [guid |-> row.guid, uuid |-> row.uuid, pk |-> msg[t].pk, ip |-> msg[t].ip]

\* As long as tasks did not overlap.
RunsAlone ==
    ~overlap =>
        /\ \A t, q \in Tasks : running(t) /\ running(q) => t = q
        /\ \A t \in Tasks : running(t) => StepAlone(t)
        /\ Quiet => MapIsRow

-----------------------------------------------------------------------------
\* What holds of machines and keys stays true when more machines find the id
\* free and the row keeps its machine.
LEMMA LegitStays ==
    ASSUME sawEmpty \subseteq sawEmpty', row.uuid = None \/ row'.uuid = row.uuid
    PROVE  /\ \A m : Legit(m) => Legit(m)'
           /\ \A x : RightfulKey(x) =>
                (x.pk = None \/ KeyOwner[x.pk] = x.uuid \/ KeyOwner[x.pk] \in sawEmpty')
<1> QED BY DEF Legit, RightfulKey

LEMMA RegistryInitial == RegistryInit => RegistryInv
<1> SUFFICES ASSUME RegistryInit PROVE RegistryInv
    OBVIOUS
<1> USE RegistryAssumption
<1>1. RegistryTypeOK
    BY DEF RegistryInit, RegistryTypeOK, NewEntry, NoRow, Steps
<1>2. TasksSound
    BY DEF RegistryInit, TasksSound, Accepted, Holding, Handling, NoMessage, Message
<1>3. ReadsSound /\ EntriesLegit /\ ForeignKeyNeedsRace
    BY DEF RegistryInit, ReadsSound, EntriesLegit, ForeignKeyNeedsRace, RightfulKey, NewEntry, NoRow
<1> QED BY <1>1, <1>2, <1>3 DEF RegistryInv

\* One task moves; entries and row stay rightful, more machines may have found
\* the id free, and a row that has a machine keeps it.
LEMMA MoveKeeps ==
    ASSUME RegistryInv, NEW t \in Tasks, RegistryTypeOK',
           EntriesLegit', ForeignKeyNeedsRace',
           sawEmpty \subseteq sawEmpty', row.uuid = None \/ row'.uuid = row.uuid,
           \A q \in Tasks \ {t} : pc'[q] = pc[q] /\ msg'[q] = msg[q] /\ held'[q] = held[q],
           msg'[t] \in Message => OwnKey(msg[t])',
           pc'[t] \in Handling => msg'[t] \in Message,
           pc'[t] \in Holding => held'[t] \in Entries,
           pc'[t] \in Accepted => Legit(msg[t].uuid)',
           \A q \in Tasks : row0'[q] \in {row0[q], row, NoRow}
    PROVE  RegistryInv'
<1> USE RegistryAssumption
<1>1. \A m : Legit(m) => Legit(m)'
    BY LegitStays
<1>2. ASSUME NEW q \in Tasks
      PROVE  /\ pc'[q] \in Handling => msg'[q] \in Message
             /\ msg'[q] \in Message => OwnKey(msg[q])'
             /\ pc'[q] \in Holding => held'[q] \in Entries
             /\ pc'[q] \in Accepted => Legit(msg[q].uuid)'
  <2>1. CASE q = t
    BY <2>1
  <2>2. CASE q # t
    <3>1. pc'[q] = pc[q] /\ msg'[q] = msg[q] /\ held'[q] = held[q]
        BY <2>2
    <3>2. msg[q] \in Message => OwnKey(msg[q])
        BY DEF RegistryInv, TasksSound
    <3>3. msg'[q] \in Message => OwnKey(msg[q])'
        BY <3>1, <3>2 DEF OwnKey
    <3>4. pc[q] \in Accepted => Legit(msg[q].uuid)
        BY DEF RegistryInv, TasksSound
    <3>5. pc'[q] \in Accepted => Legit(msg[q].uuid)'
        BY <3>1, <3>4, <1>1 DEF Legit
    <3> QED BY <3>1, <3>3, <3>5 DEF RegistryInv, TasksSound
  <2> QED BY <2>1, <2>2
<1>3. TasksSound'
    BY <1>2 DEF TasksSound
<1>4. ASSUME NEW q \in Tasks, row0'[q] # NoRow
      PROVE  RightfulKey(row0[q])' /\ row0'[q].uuid = row'.uuid
  <2>1. CASE row0'[q] = row0[q]
    <3>1. RightfulKey(row0[q]) /\ row0[q].uuid = row.uuid
        BY <1>4, <2>1 DEF RegistryInv, ReadsSound
    <3>2. row0[q] \in Row
        BY <1>4, <2>1 DEF RegistryInv, RegistryTypeOK
    <3>3. row.uuid # None
        BY <3>1, <3>2 DEF Row
    <3> QED BY <2>1, <3>1, <3>3 DEF RightfulKey
  <2>2. CASE row0'[q] = row
    <3>1. row \in Row
        BY <1>4, <2>2 DEF RegistryInv, RegistryTypeOK
    <3>2. row.uuid # None
        BY <3>1 DEF Row
    <3> QED BY <2>2, <3>2 DEF RightfulKey, RegistryInv, ForeignKeyNeedsRace
  <2> QED BY <1>4, <2>1, <2>2
<1>5. ReadsSound'
    BY <1>4 DEF ReadsSound
<1> QED BY <1>3, <1>5 DEF RegistryInv

\* Entries and a row that do not change stay rightful.
LEMMA EntriesStay ==
    ASSUME RegistryInv, UNCHANGED <<entry, row>>, sawEmpty \subseteq sawEmpty'
    PROVE  EntriesLegit' /\ ForeignKeyNeedsRace'
<1> QED BY DEF RegistryInv, EntriesLegit, ForeignKeyNeedsRace, RightfulKey, Legit

\* Only the entry e changes, into something rightful.
LEMMA EntryStored ==
    ASSUME RegistryInv, NEW e \in Entries, NEW x, UNCHANGED <<row, sawEmpty>>,
           entry' = [entry EXCEPT ![e] = x],
           x.uuid # None => Legit(x.uuid), RightfulKey(x)
    PROVE  EntriesLegit' /\ ForeignKeyNeedsRace'
<1>1. \A d \in Entries : entry'[d] = IF d = e THEN x ELSE entry[d]
    BY DEF RegistryInv, RegistryTypeOK
<1> QED BY <1>1 DEF RegistryInv, EntriesLegit, ForeignKeyNeedsRace, RightfulKey, Legit

LEMMA FreshEntry == ASSUME used # Entries, used \subseteq Entries PROVE Fresh \in Entries
<1> QED BY DEF Fresh

-----------------------------------------------------------------------------
LEMMA StartKeeps ==
    ASSUME RegistryInv, NEW t \in Tasks, NEW m \in Message \cup {NoMessage}, Start(t, m)
    PROVE  RegistryInv'
<1> USE RegistryAssumption
<1>1. RegistryTypeOK'
    BY DEF RegistryInv, RegistryTypeOK, Start, goto, Steps
<1>2. UNCHANGED <<held, row0, entry, row, sawEmpty>>
    BY DEF Start
<1>3. pc'[t] = "get" /\ msg'[t] = m
    BY DEF Start, goto, RegistryInv, RegistryTypeOK
<1>4. m \in Message => OwnKey(m)
    BY DEF Start, OwnKey, Message, NoMessage
<1>5. msg'[t] \in Message => OwnKey(msg[t])'
    BY <1>3, <1>4 DEF OwnKey
<1>6. \A q \in Tasks \ {t} : pc'[q] = pc[q] /\ msg'[q] = msg[q]
    BY DEF Start, goto, RegistryInv, RegistryTypeOK
<1>7. pc'[t] \notin Handling
    BY <1>3 DEF Handling, Holding, Accepted
<1> QED BY <1>1, <1>2, <1>5, <1>6, <1>7, MoveKeeps, EntriesStay DEF Handling, Holding

LEMMA GetFromMapKeeps ==
    ASSUME RegistryInv, NEW t \in Tasks, GetFromMap(t)
    PROVE  RegistryInv'
<1> USE RegistryAssumption
<1>1. RegistryTypeOK'
    BY DEF RegistryInv, RegistryTypeOK, GetFromMap, goto, Steps
<1>2. UNCHANGED <<msg, row0, entry, row, sawEmpty>>
    BY DEF GetFromMap
<1>3. \A q \in Tasks \ {t} : pc'[q] = pc[q] /\ held'[q] = held[q]
    BY DEF GetFromMap, goto, RegistryInv, RegistryTypeOK
<1>4. /\ pc'[t] \in {"load", "done", "check"}
      /\ pc'[t] = "check" => map # None /\ ~isLookup(t) /\ held'[t] = map
    BY DEF GetFromMap, goto, RegistryInv, RegistryTypeOK
<1>5. pc'[t] = "check" => msg[t] \in Message /\ held'[t] \in Entries
    BY <1>4 DEF isLookup, RegistryInv, RegistryTypeOK
<1>6. msg'[t] \in Message => OwnKey(msg[t])'
    BY <1>2 DEF OwnKey, RegistryInv, TasksSound
<1> QED BY <1>1, <1>2, <1>3, <1>4, <1>5, <1>6, MoveKeeps, EntriesStay DEF Handling, Holding, Accepted

LEMMA GetFromDbKeeps ==
    ASSUME RegistryInv, NEW t \in Tasks, NEW fails \in BOOLEAN, GetFromDb(t, fails)
    PROVE  RegistryInv'
<1> USE RegistryAssumption
<1>1. RegistryTypeOK'
    BY DEF RegistryInv, RegistryTypeOK, GetFromDb, goto, Steps
<1>2. UNCHANGED <<msg, held, entry, row, sawEmpty>>
    BY DEF GetFromDb
<1>3. \A q \in Tasks \ {t} : pc'[q] = pc[q]
    BY DEF GetFromDb, goto, RegistryInv, RegistryTypeOK
<1>4. pc'[t] \in {"publish", "done", "or"} /\ (pc'[t] = "or" => ~isLookup(t))
    BY DEF GetFromDb, goto, RegistryInv, RegistryTypeOK
<1>5. pc'[t] = "or" => msg[t] \in Message
    BY <1>4 DEF isLookup, RegistryInv, RegistryTypeOK
<1>6. msg'[t] \in Message => OwnKey(msg[t])'
    BY <1>2 DEF OwnKey, RegistryInv, TasksSound
<1>7. \A q \in Tasks : row0'[q] \in {row0[q], row, NoRow}
    BY DEF GetFromDb, RegistryInv, RegistryTypeOK
<1> QED BY <1>1, <1>2, <1>3, <1>4, <1>5, <1>6, <1>7, MoveKeeps, EntriesStay DEF Handling, Holding, Accepted

LEMMA PublishRowKeeps ==
    ASSUME RegistryInv, NEW t \in Tasks, PublishRow(t)
    PROVE  RegistryInv'
<1> USE RegistryAssumption
<1>0. Fresh \in Entries
    BY FreshEntry DEF PublishRow, RegistryInv, RegistryTypeOK
<1>a. row0[t] \in [guid : Entries \cup {None}, uuid : Uuids \cup {None},
                   pk : Pks \cup {None}, ip : Ips \cup {None}]
    BY DEF RegistryInv, RegistryTypeOK, Row, NoRow
<1>b. entry' = [entry EXCEPT ![Fresh] = row0[t]]
    BY DEF PublishRow
<1>1. RegistryTypeOK'
    BY <1>0, <1>a DEF RegistryInv, RegistryTypeOK, PublishRow, goto, Steps
<1>2. UNCHANGED <<msg, row, sawEmpty>>
    BY DEF PublishRow
<1>3. \A q \in Tasks \ {t} : pc'[q] = pc[q] /\ held'[q] = held[q]
    BY DEF PublishRow, goto, RegistryInv, RegistryTypeOK
<1>4. /\ pc'[t] \in {"done", "check"}
      /\ pc'[t] = "check" => ~isLookup(t) /\ held'[t] = Fresh
    BY DEF PublishRow, goto, RegistryInv, RegistryTypeOK
<1>5. pc'[t] = "check" => msg[t] \in Message /\ held'[t] \in Entries
    BY <1>0, <1>4 DEF isLookup, RegistryInv, RegistryTypeOK
<1>6. msg'[t] \in Message => OwnKey(msg[t])'
    BY <1>2 DEF OwnKey, RegistryInv, TasksSound
<1>7. \A q \in Tasks : row0'[q] \in {row0[q], row, NoRow}
    BY DEF PublishRow, RegistryInv, RegistryTypeOK
<1>8. RightfulKey(row0[t]) /\ (row0[t].uuid # None => Legit(row0[t].uuid))
    BY DEF RegistryInv, ReadsSound, RightfulKey, Legit, NoRow
<1>9. EntriesLegit' /\ ForeignKeyNeedsRace'
    BY <1>0, <1>2, <1>8, <1>b, EntryStored
<1> QED BY <1>1, <1>2, <1>3, <1>4, <1>5, <1>6, <1>7, <1>9, MoveKeeps DEF Handling, Holding, Accepted

LEMMA OrDefaultKeeps ==
    ASSUME RegistryInv, NEW t \in Tasks, OrDefault(t)
    PROVE  RegistryInv'
<1> USE RegistryAssumption
<1>0. map = None => Fresh \in Entries
    BY FreshEntry DEF OrDefault, RegistryInv, RegistryTypeOK
<1>a. NewEntry \in [guid : Entries \cup {None}, uuid : Uuids \cup {None},
                    pk : Pks \cup {None}, ip : Ips \cup {None}]
    BY DEF NewEntry, NoRow
<1>1. RegistryTypeOK'
    BY <1>0, <1>a DEF RegistryInv, RegistryTypeOK, OrDefault, goto, Steps
<1>2. UNCHANGED <<msg, row0, row, sawEmpty>>
    BY DEF OrDefault
<1>3. \A q \in Tasks \ {t} : pc'[q] = pc[q] /\ held'[q] = held[q]
    BY DEF OrDefault, goto, RegistryInv, RegistryTypeOK
<1>4. pc'[t] = "check" /\ held'[t] \in Entries
    BY <1>0 DEF OrDefault, goto, RegistryInv, RegistryTypeOK
<1>5. msg[t] \in Message
    BY DEF OrDefault, RegistryInv, TasksSound, Handling
<1>6. msg'[t] \in Message /\ OwnKey(msg[t])'
    BY <1>2, <1>5 DEF OwnKey, RegistryInv, TasksSound
<1>7. RightfulKey(NewEntry) /\ NewEntry.uuid = None
    BY DEF RightfulKey, NewEntry, NoRow
<1>8. EntriesLegit' /\ ForeignKeyNeedsRace'
  <2>1. CASE map # None
    BY <2>1, <1>2, EntriesStay DEF OrDefault
  <2>2. CASE map = None
    <3>1. entry' = [entry EXCEPT ![Fresh] = NewEntry]
        BY <2>2 DEF OrDefault
    <3> QED BY <2>2, <3>1, <1>0, <1>2, <1>7, EntryStored
  <2> QED BY <2>1, <2>2
<1> QED BY <1>1, <1>2, <1>3, <1>4, <1>6, <1>8, MoveKeeps DEF Handling, Holding, Accepted

LEMMA CheckKeeps ==
    ASSUME RegistryInv, NEW t \in Tasks, NEW limited \in BOOLEAN, NEW ws \in BOOLEAN,
           Check(t, limited, ws)
    PROVE  RegistryInv'
<1> USE RegistryAssumption
<1> DEFINE e == entry[held[t]]
<1>0. msg[t] \in Message /\ OwnKey(msg[t]) /\ held[t] \in Entries
    BY DEF Check, RegistryInv, TasksSound, Handling, Holding
<1>1. RegistryTypeOK'
  <2>1. sawEmpty' \subseteq Uuids
    BY <1>0 DEF Check, RegistryInv, RegistryTypeOK, Message
  <2> QED BY <2>1 DEF RegistryInv, RegistryTypeOK, Check, answered, goto, Steps
<1>2. UNCHANGED <<row0, entry, row>> /\ sawEmpty \subseteq sawEmpty'
    BY DEF Check
<1>3. \A q \in Tasks \ {t} : pc'[q] = pc[q] /\ held'[q] = held[q] /\ msg'[q] = msg[q]
    BY DEF Check, answered, goto, RegistryInv, RegistryTypeOK
<1>4. \/ pc'[t] = "done" /\ msg'[t] = NoMessage
      \/ /\ pc'[t] = "update" /\ UNCHANGED <<held, msg>>
         /\ e.uuid = None => msg[t].uuid \in sawEmpty'
         /\ e.uuid = None \/ e.uuid = msg[t].uuid
    BY DEF Check, answered, goto, RegistryInv, RegistryTypeOK
<1>5. pc'[t] = "update" => Legit(msg[t].uuid)'
  <2> SUFFICES ASSUME pc'[t] = "update" PROVE Legit(msg[t].uuid)'
    OBVIOUS
  <2>1. UNCHANGED <<held, msg>>
    BY <1>4
  <2>2. CASE e.uuid = None
    BY <1>4, <2>1, <2>2 DEF Legit
  <2>3. CASE e.uuid # None
    <3>1. Legit(e.uuid) /\ e.uuid = msg[t].uuid
        BY <1>0, <1>4, <2>3 DEF RegistryInv, EntriesLegit
    <3> QED BY <1>2, <2>1, <3>1 DEF Legit
  <2> QED BY <2>2, <2>3
<1>6. msg'[t] \in Message => OwnKey(msg[t])'
    BY <1>0, <1>4 DEF OwnKey, NoMessage, Message
<1>7. pc'[t] \in Handling => pc'[t] = "update" /\ msg'[t] \in Message /\ held'[t] \in Entries
    BY <1>0, <1>4 DEF Handling, Holding, Accepted
<1> QED BY <1>1, <1>2, <1>3, <1>5, <1>6, <1>7, MoveKeeps, EntriesStay DEF Handling, Holding

\* What an accepted request is known to be.
LEMMA AcceptedIsSound ==
    ASSUME RegistryInv, NEW t \in Tasks, pc[t] \in Accepted
    PROVE  /\ msg[t] \in Message /\ OwnKey(msg[t])
           /\ held[t] \in Entries /\ Legit(msg[t].uuid)
<1> QED BY DEF RegistryInv, TasksSound, Handling, Holding

LEMMA UpdateEntryKeeps ==
    ASSUME RegistryInv, NEW t \in Tasks, UpdateEntry(t)
    PROVE  RegistryInv'
<1> USE RegistryAssumption
<1> DEFINE x == [guid |-> entry[held[t]].guid, uuid |-> msg[t].uuid,
                 pk |-> msg[t].pk, ip |-> msg[t].ip]
<1>0. msg[t] \in Message /\ OwnKey(msg[t]) /\ held[t] \in Entries /\ Legit(msg[t].uuid)
    BY AcceptedIsSound DEF UpdateEntry, Accepted
<1>a. entry' = [entry EXCEPT ![held[t]] = x]
    BY DEF UpdateEntry
<1>1. RegistryTypeOK'
  <2>1. x \in [guid : Entries \cup {None}, uuid : Uuids \cup {None},
               pk : Pks \cup {None}, ip : Ips \cup {None}]
    BY <1>0 DEF RegistryInv, RegistryTypeOK, Message
  <2> QED BY <1>0, <1>a, <2>1 DEF RegistryInv, RegistryTypeOK, UpdateEntry, goto, Steps
<1>2. UNCHANGED <<msg, held, row0, row, sawEmpty>>
    BY DEF UpdateEntry
<1>3. \A q \in Tasks \ {t} : pc'[q] = pc[q]
    BY DEF UpdateEntry, goto, RegistryInv, RegistryTypeOK
<1>4. msg'[t] \in Message /\ OwnKey(msg[t])' /\ Legit(msg[t].uuid)'
    BY <1>0, <1>2 DEF OwnKey, Legit
<1>5. x.uuid # None => Legit(x.uuid)
    BY <1>0
<1>6. RightfulKey(x)
    BY <1>0 DEF RightfulKey, OwnKey
<1>7. EntriesLegit' /\ ForeignKeyNeedsRace'
    BY <1>0, <1>a, <1>2, <1>5, <1>6, EntryStored
<1> QED BY <1>0, <1>1, <1>2, <1>3, <1>4, <1>7, MoveKeeps

\* The request ends.
LEMMA AnsweredKeeps ==
    ASSUME RegistryInv, NEW t \in Tasks, RegistryTypeOK', answered(t),
           EntriesLegit', ForeignKeyNeedsRace', UNCHANGED <<row0, sawEmpty>>,
           row.uuid = None \/ row'.uuid = row.uuid
    PROVE  RegistryInv'
<1> USE RegistryAssumption
<1>1. \A q \in Tasks \ {t} : pc'[q] = pc[q] /\ msg'[q] = msg[q] /\ held'[q] = held[q]
    BY DEF answered, goto, RegistryInv, RegistryTypeOK
<1>2. pc'[t] = "done" /\ msg'[t] = NoMessage
    BY DEF answered, goto, RegistryInv, RegistryTypeOK
<1>3. msg'[t] \notin Message
    BY <1>2 DEF NoMessage, Message
<1> QED BY <1>1, <1>2, <1>3, MoveKeeps DEF Handling, Holding, Accepted

LEMMA InsertRowKeeps ==
    ASSUME RegistryInv, NEW t \in Tasks, NEW fails \in BOOLEAN, InsertRow(t, fails)
    PROVE  RegistryInv'
<1> USE RegistryAssumption
<1>0. msg[t] \in Message /\ OwnKey(msg[t]) /\ held[t] \in Entries /\ Legit(msg[t].uuid)
    BY AcceptedIsSound DEF InsertRow, Accepted
<1>1. UNCHANGED <<row0, entry, used, map, sawEmpty, overlap>>
    BY DEF InsertRow
<1>2. CASE fails \/ row # NoRow
  <2>1. answered(t) /\ failed' = TRUE /\ UNCHANGED row
    BY <1>2 DEF InsertRow
  <2>2. RegistryTypeOK'
    BY <1>1, <2>1 DEF RegistryInv, RegistryTypeOK, answered, goto, Steps
  <2> QED BY <1>1, <2>1, <2>2, AnsweredKeeps, EntriesStay
<1>3. CASE ~(fails \/ row # NoRow)
  <2>1. /\ row' = [guid |-> held[t], uuid |-> msg[t].uuid, pk |-> msg[t].pk, ip |-> msg[t].ip]
        /\ goto(t, "set_guid") /\ failed' = FALSE /\ UNCHANGED <<held, msg>> /\ row = NoRow
    BY <1>3 DEF InsertRow
  <2>2. row' \in Row
    BY <1>0, <2>1 DEF Row, Message
  <2>3. RegistryTypeOK'
    BY <1>1, <2>1, <2>2 DEF RegistryInv, RegistryTypeOK, goto, Steps
  <2>4. row.uuid = None
    BY <2>1 DEF NoRow
  <2>5. \A m : Legit(m) => Legit(m)'
    BY <1>1, <2>4, LegitStays
  <2>6. EntriesLegit'
    BY <1>1, <2>5 DEF RegistryInv, EntriesLegit, Legit
  <2>7. RightfulKey(row)'
    BY <1>0, <2>1 DEF RightfulKey, OwnKey
  <2>8. ForeignKeyNeedsRace'
    BY <1>1, <2>7 DEF RegistryInv, ForeignKeyNeedsRace, RightfulKey
  <2>9. msg'[t] \in Message /\ OwnKey(msg[t])' /\ Legit(msg[t].uuid)'
    BY <1>0, <2>1, <2>5 DEF OwnKey, Legit
  <2>10. \A q \in Tasks \ {t} : pc'[q] = pc[q]
    BY <2>1 DEF goto, RegistryInv, RegistryTypeOK
  <2> QED BY <1>0, <1>1, <2>1, <2>3, <2>4, <2>6, <2>8, <2>9, <2>10, MoveKeeps
<1> QED BY <1>2, <1>3

LEMMA SetGuidKeeps ==
    ASSUME RegistryInv, NEW t \in Tasks, SetGuid(t)
    PROVE  RegistryInv'
<1> USE RegistryAssumption
<1> DEFINE x == [entry[held[t]] EXCEPT !.guid = row.guid]
<1>0. held[t] \in Entries
    BY AcceptedIsSound DEF SetGuid, Accepted
<1>1. answered(t) /\ UNCHANGED <<row0, used, map, row, sawEmpty, overlap, failed>>
    BY DEF SetGuid
<1>2. entry' = [entry EXCEPT ![held[t]] = x]
    BY DEF SetGuid
<1>3. entry[held[t]] \in [guid : Entries \cup {None}, uuid : Uuids \cup {None},
                          pk : Pks \cup {None}, ip : Ips \cup {None}]
    BY <1>0 DEF RegistryInv, RegistryTypeOK
<1>4. row.guid \in Entries \cup {None}
    BY DEF RegistryInv, RegistryTypeOK, Row, NoRow
<1>5. /\ x \in [guid : Entries \cup {None}, uuid : Uuids \cup {None},
                pk : Pks \cup {None}, ip : Ips \cup {None}]
      /\ x.uuid = entry[held[t]].uuid /\ x.pk = entry[held[t]].pk
    BY <1>3, <1>4
<1>6. RegistryTypeOK'
    BY <1>0, <1>1, <1>2, <1>5 DEF RegistryInv, RegistryTypeOK, answered, goto, Steps
<1>7. RightfulKey(x) /\ (x.uuid # None => Legit(x.uuid))
    BY <1>0, <1>5 DEF RegistryInv, EntriesLegit, ForeignKeyNeedsRace, RightfulKey
<1>8. EntriesLegit' /\ ForeignKeyNeedsRace'
    BY <1>0, <1>1, <1>2, <1>7, EntryStored
<1> QED BY <1>1, <1>6, <1>8, AnsweredKeeps

LEMMA UpdateRowKeeps ==
    ASSUME RegistryInv, HeldSound, NEW t \in Tasks, NEW fails \in BOOLEAN, UpdateRow(t, fails)
    PROVE  RegistryInv'
<1> USE RegistryAssumption
<1>0. msg[t] \in Message /\ OwnKey(msg[t]) /\ held[t] \in Entries /\ Legit(msg[t].uuid)
    BY AcceptedIsSound DEF UpdateRow, Accepted
<1>1. answered(t) /\ UNCHANGED <<row0, entry, used, map, sawEmpty, overlap>>
    BY DEF UpdateRow
<1>2. failed' \in BOOLEAN
    BY DEF UpdateRow
<1>3. CASE UNCHANGED row
  <2>1. RegistryTypeOK'
    BY <1>1, <1>2, <1>3 DEF RegistryInv, RegistryTypeOK, answered, goto, Steps
  <2> QED BY <1>1, <1>3, <2>1, AnsweredKeeps, EntriesStay
<1>4. CASE ~UNCHANGED row
  <2>1. /\ row.guid = entry[held[t]].guid
        /\ row' = [guid |-> row.guid, uuid |-> row.uuid, pk |-> msg[t].pk, ip |-> msg[t].ip]
    BY <1>4 DEF UpdateRow
  <2>2. row.guid # None
    BY <2>1 DEF UpdateRow, HeldSound
  <2>3. row \in Row
    BY <2>2 DEF RegistryInv, RegistryTypeOK, NoRow
  <2>4. row' \in Row /\ row'.uuid = row.uuid
    BY <1>0, <2>1, <2>3 DEF Row, Message
  <2>5. RegistryTypeOK'
    BY <1>1, <1>2, <2>4 DEF RegistryInv, RegistryTypeOK, answered, goto, Steps
  <2>6. EntriesLegit'
    BY <1>1, <2>4 DEF RegistryInv, EntriesLegit, Legit
  <2>7. RightfulKey(row)'
    BY <1>0, <1>1, <2>1 DEF RightfulKey, OwnKey, Legit
  <2>8. ForeignKeyNeedsRace'
    BY <1>1, <2>7 DEF RegistryInv, ForeignKeyNeedsRace, RightfulKey
  <2> QED BY <1>1, <2>4, <2>5, <2>6, <2>8, AnsweredKeeps
<1> QED BY <1>3, <1>4

LEMMA RestartKeeps == ASSUME RegistryInv, Restart PROVE RegistryInv'
<1> USE RegistryAssumption
<1>1. RegistryTypeOK'
    BY DEF RegistryInv, RegistryTypeOK, Restart, Steps
<1>2. TasksSound'
    BY DEF Restart, TasksSound, Handling, Holding, Accepted, NoMessage, Message
<1>3. ReadsSound'
    BY DEF Restart, ReadsSound
<1>4. EntriesLegit' /\ ForeignKeyNeedsRace'
    BY EntriesStay DEF Restart
<1> QED BY <1>1, <1>2, <1>3, <1>4 DEF RegistryInv

-----------------------------------------------------------------------------
LEMMA HeldInitial == RegistryInit => HeldSound
<1> QED BY DEF RegistryInit, HeldSound

\* The steps that leave the entries and the row alone.
LEMMA HeldByMoves ==
    ASSUME RegistryInv, HeldSound, NEW t \in Tasks,
           \/ \E m \in Message \cup {NoMessage} : Start(t, m)
           \/ GetFromMap(t)
           \/ \E fails \in BOOLEAN : GetFromDb(t, fails)
           \/ \E limited, ws \in BOOLEAN : Check(t, limited, ws)
    PROVE  HeldSound'
<1>1. UNCHANGED <<entry, used, map, row>>
    BY DEF Start, GetFromMap, GetFromDb, Check
<1>2. \A q \in Tasks \ {t} : pc'[q] = pc[q] /\ held'[q] = held[q]
    BY DEF Start, GetFromMap, GetFromDb, Check, answered, goto, RegistryInv, RegistryTypeOK
<1>3. pc'[t] \notin {"set_guid", "update_row"}
    BY DEF Start, GetFromMap, GetFromDb, Check, answered, goto, RegistryInv, RegistryTypeOK
<1>4. held'[t] \in {held[t], map, None}
    BY DEF Start, GetFromMap, GetFromDb, Check, answered, RegistryInv, RegistryTypeOK
<1> QED BY <1>1, <1>2, <1>3, <1>4 DEF HeldSound

\* The steps that may allocate an entry: nobody holds it before.
LEMMA HeldByAllocation ==
    ASSUME RegistryInv, HeldSound, NEW t \in Tasks, PublishRow(t) \/ OrDefault(t)
    PROVE  HeldSound'
<1> USE RegistryAssumption
<1>1. row' = row /\ pc'[t] \notin {"set_guid", "update_row"}
    BY DEF PublishRow, OrDefault, goto, RegistryInv, RegistryTypeOK
<1>2. \A q \in Tasks \ {t} : pc'[q] = pc[q] /\ held'[q] = held[q]
    BY DEF PublishRow, OrDefault, goto, RegistryInv, RegistryTypeOK
<1>3. CASE UNCHANGED <<entry, used, map>> /\ held'[t] = map
    BY <1>1, <1>2, <1>3 DEF HeldSound
<1>4. CASE /\ used # Entries /\ used' = used \cup {Fresh} /\ map' = Fresh
           /\ held'[t] \in {None, Fresh}
           /\ \A d \in Entries : d # Fresh => entry'[d] = entry[d]
  <2>1. Fresh \in Entries /\ Fresh \notin used
    BY <1>4 DEF Fresh, RegistryInv, RegistryTypeOK
  <2>2. ASSUME NEW q \in Tasks, pc'[q] = "update_row" PROVE entry'[held'[q]].guid # None
    <3>1. q # t /\ pc[q] = "update_row" /\ held'[q] = held[q]
        BY <1>1, <1>2, <2>2
    <3>2. held[q] \in Entries
        BY <3>1, AcceptedIsSound DEF Accepted
    <3>3. held[q] # Fresh
        BY <2>1, <3>2 DEF HeldSound
    <3>4. entry'[held[q]] = entry[held[q]]
        BY <1>4, <3>2, <3>3
    <3> QED BY <3>1, <3>4 DEF HeldSound
  <2> QED BY <1>1, <1>2, <1>4, <2>2 DEF HeldSound
<1>5. CASE PublishRow(t)
    BY <1>4, <1>5 DEF PublishRow, RegistryInv, RegistryTypeOK
<1>6. CASE OrDefault(t)
  <2>1. CASE map # None
    BY <1>3, <1>6, <2>1 DEF OrDefault, RegistryInv, RegistryTypeOK
  <2>2. CASE map = None
    BY <1>4, <1>6, <2>2 DEF OrDefault, RegistryInv, RegistryTypeOK
  <2> QED BY <2>1, <2>2
<1> QED BY <1>5, <1>6

\* The steps of update_pk.
LEMMA HeldByUpdate ==
    ASSUME RegistryInv, HeldSound, NEW t \in Tasks,
           \/ UpdateEntry(t) \/ SetGuid(t)
           \/ \E fails \in BOOLEAN : InsertRow(t, fails) \/ UpdateRow(t, fails)
    PROVE  HeldSound'
<1> USE RegistryAssumption
<1>0. held[t] \in Entries
    BY AcceptedIsSound DEF UpdateEntry, SetGuid, InsertRow, UpdateRow, Accepted
<1>1. UNCHANGED <<used, map>>
    BY DEF UpdateEntry, SetGuid, InsertRow, UpdateRow
<1>2. \A q \in Tasks \ {t} : pc'[q] = pc[q] /\ held'[q] = held[q]
    BY DEF UpdateEntry, SetGuid, InsertRow, UpdateRow, answered, goto, RegistryInv, RegistryTypeOK
<1>3. held'[t] \in {held[t], None}
    BY DEF UpdateEntry, SetGuid, InsertRow, UpdateRow, answered, RegistryInv, RegistryTypeOK
<1>4. row # NoRow => row' # NoRow
  <2>1. CASE UpdateEntry(t) \/ SetGuid(t)
    BY <2>1 DEF UpdateEntry, SetGuid
  <2>2. ASSUME NEW fails \in BOOLEAN, InsertRow(t, fails) PROVE row # NoRow => row' # NoRow
    BY <2>2 DEF InsertRow
  <2>3. ASSUME NEW fails \in BOOLEAN, UpdateRow(t, fails) PROVE row # NoRow => row' # NoRow
    <3>1. row # NoRow => row.uuid # None
        BY DEF RegistryInv, RegistryTypeOK, Row
    <3>2. row'.uuid = row.uuid
        BY <2>3 DEF UpdateRow
    <3> QED BY <3>1, <3>2 DEF NoRow
  <2> QED BY <2>1, <2>2, <2>3
<1>5. \A d \in Entries : entry[d].guid # None => entry'[d].guid # None
  <2>1. CASE UpdateEntry(t)
    BY <2>1, <1>0 DEF UpdateEntry, RegistryInv, RegistryTypeOK
  <2>2. CASE SetGuid(t)
    <3>1. row # NoRow
        BY <2>2 DEF SetGuid, HeldSound
    <3>2. row.guid # None
        BY <3>1 DEF RegistryInv, RegistryTypeOK, Row
    <3> QED BY <2>2, <1>0, <3>2 DEF SetGuid, RegistryInv, RegistryTypeOK
  <2>3. CASE \E fails \in BOOLEAN : InsertRow(t, fails) \/ UpdateRow(t, fails)
    BY <2>3 DEF InsertRow, UpdateRow
  <2> QED BY <2>1, <2>2, <2>3
<1>6. pc'[t] = "set_guid" => row' # NoRow
  <2>1. CASE UpdateEntry(t) \/ SetGuid(t)
    BY <2>1 DEF UpdateEntry, SetGuid, answered, goto, RegistryInv, RegistryTypeOK
  <2>2. ASSUME NEW fails \in BOOLEAN, InsertRow(t, fails) PROVE pc'[t] = "set_guid" => row' # NoRow
    BY <2>2, <1>0 DEF InsertRow, answered, goto, RegistryInv, RegistryTypeOK, NoRow
  <2>3. ASSUME NEW fails \in BOOLEAN, UpdateRow(t, fails) PROVE pc'[t] # "set_guid"
    BY <2>3 DEF UpdateRow, answered, goto, RegistryInv, RegistryTypeOK
  <2> QED BY <2>1, <2>2, <2>3
<1>7. pc'[t] = "update_row" => held'[t] = held[t] /\ entry[held[t]].guid # None
    BY DEF UpdateEntry, SetGuid, InsertRow, UpdateRow, answered, goto, RegistryInv, RegistryTypeOK
<1>8. ASSUME NEW q \in Tasks, pc'[q] = "update_row" PROVE entry'[held'[q]].guid # None
  <2>1. CASE q = t
    BY <1>0, <1>5, <1>7, <1>8, <2>1
  <2>2. CASE q # t
    <3>1. pc[q] = "update_row" /\ held'[q] = held[q]
        BY <1>2, <1>8, <2>2
    <3>2. held[q] \in Entries
        BY <3>1, AcceptedIsSound DEF Accepted
    <3> QED BY <1>5, <3>1, <3>2 DEF HeldSound
  <2> QED BY <2>1, <2>2
<1> QED BY <1>1, <1>2, <1>3, <1>4, <1>6, <1>8 DEF HeldSound

-----------------------------------------------------------------------------
LEMMA RegistryInductive ==
    ASSUME RegistryInv, HeldSound, [RegistryNext]_registryVars
    PROVE  RegistryInv' /\ HeldSound'
<1>1. CASE UNCHANGED registryVars
    BY <1>1 DEF registryVars, RegistryInv, HeldSound, RegistryTypeOK, TasksSound, ReadsSound,
        EntriesLegit, ForeignKeyNeedsRace, RightfulKey, Legit, OwnKey
<1>2. CASE Restart
  <2>1. HeldSound'
    BY <1>2 DEF Restart, HeldSound
  <2> QED BY <1>2, <2>1, RestartKeeps
<1>3. ASSUME NEW t \in Tasks, NEW m \in Message \cup {NoMessage}, Start(t, m)
      PROVE  RegistryInv' /\ HeldSound'
    BY <1>3, StartKeeps, HeldByMoves
<1>4. ASSUME NEW t \in Tasks, GetFromMap(t) PROVE RegistryInv' /\ HeldSound'
    BY <1>4, GetFromMapKeeps, HeldByMoves
<1>5. ASSUME NEW t \in Tasks, NEW fails \in BOOLEAN, GetFromDb(t, fails)
      PROVE  RegistryInv' /\ HeldSound'
    BY <1>5, GetFromDbKeeps, HeldByMoves
<1>6. ASSUME NEW t \in Tasks, PublishRow(t) \/ OrDefault(t) PROVE RegistryInv' /\ HeldSound'
    BY <1>6, PublishRowKeeps, OrDefaultKeeps, HeldByAllocation
<1>7. ASSUME NEW t \in Tasks, NEW limited \in BOOLEAN, NEW ws \in BOOLEAN, Check(t, limited, ws)
      PROVE  RegistryInv' /\ HeldSound'
    BY <1>7, CheckKeeps, HeldByMoves
<1>8. ASSUME NEW t \in Tasks, UpdateEntry(t) \/ SetGuid(t) PROVE RegistryInv' /\ HeldSound'
    BY <1>8, UpdateEntryKeeps, SetGuidKeeps, HeldByUpdate
<1>9. ASSUME NEW t \in Tasks, NEW fails \in BOOLEAN, InsertRow(t, fails) \/ UpdateRow(t, fails)
      PROVE  RegistryInv' /\ HeldSound'
    BY <1>9, InsertRowKeeps, UpdateRowKeeps, HeldByUpdate
<1> QED BY <1>1, <1>2, <1>3, <1>4, <1>5, <1>6, <1>7, <1>8, <1>9 DEF RegistryNext

-----------------------------------------------------------------------------
(* The map and the table *)

\* The one task that runs moves: the others stay at rest.
LEMMA AloneMoves ==
    ASSUME RegistryInv, RunsAlone, NEW t \in Tasks, running(t), ~overlap,
           \A q \in Tasks \ {t} : pc'[q] = pc[q],
           running(t)' => StepAlone(t)',
           ~running(t)' => MapIsRow'
    PROVE  RunsAlone'
<1>1. \A q \in Tasks : q # t => ~running(q)
    BY DEF RunsAlone
<1>2. \A q \in Tasks : q # t => ~running(q)'
    BY <1>1 DEF running
<1>3. \A q, r \in Tasks : running(q)' /\ running(r)' => q = r
    BY <1>2
<1>4. \A q \in Tasks : running(q)' => StepAlone(q)'
    BY <1>2
<1>5. Quiet' => MapIsRow'
    BY DEF Quiet
<1> QED BY <1>3, <1>4, <1>5 DEF RunsAlone

LEMMA StartAlone ==
    ASSUME RegistryInv, RunsAlone, NEW t \in Tasks, NEW m \in Message \cup {NoMessage}, Start(t, m)
    PROVE  RunsAlone'
<1> SUFFICES ASSUME ~overlap' PROVE RunsAlone'
    BY DEF RunsAlone
<1>1. /\ ~overlap /\ \A q \in Tasks : ~running(q)
      /\ UNCHANGED <<entry, map, row, failed>>
    BY DEF Start
<1>2. MapIsRow'
    BY <1>1 DEF RunsAlone, Quiet, MapIsRow
<1>3. pc'[t] = "get" /\ \A q \in Tasks \ {t} : pc'[q] = pc[q]
    BY DEF Start, goto, RegistryInv, RegistryTypeOK
<1>4. \A q \in Tasks : q # t => ~running(q)'
    BY <1>1, <1>3 DEF running
<1>5. StepAlone(t)'
    BY <1>2, <1>3 DEF StepAlone, Holding, Accepted
<1> QED BY <1>2, <1>4, <1>5 DEF RunsAlone

\* PeerMap::get and get_or.
LEMMA GetAlone ==
    ASSUME RegistryInv, RunsAlone, NEW t \in Tasks,
           \/ GetFromMap(t)
           \/ \E fails \in BOOLEAN : GetFromDb(t, fails)
           \/ PublishRow(t) \/ OrDefault(t)
    PROVE  RunsAlone'
<1> USE RegistryAssumption
<1> SUFFICES ASSUME ~overlap' PROVE RunsAlone'
    BY DEF RunsAlone
<1>0. ~overlap /\ running(t) /\ UNCHANGED <<msg, row, failed>>
  <2>1. running(t)
    BY DEF GetFromMap, GetFromDb, PublishRow, OrDefault, running
  <2>2. UNCHANGED <<msg, row, failed>> /\ ~overlap
    BY DEF GetFromMap, GetFromDb, PublishRow, OrDefault
  <2> QED BY <2>1, <2>2
<1>1. StepAlone(t)
    BY <1>0 DEF RunsAlone
<1>2. \A q \in Tasks \ {t} : pc'[q] = pc[q]
    BY DEF GetFromMap, GetFromDb, PublishRow, OrDefault, goto, RegistryInv, RegistryTypeOK
<1>3. CASE GetFromMap(t)
  <2>1. UNCHANGED <<entry, map, row, row0>> /\ MapIsRow /\ MapIsRow'
    BY <1>0, <1>1, <1>3 DEF GetFromMap, StepAlone, MapIsRow
  <2>2. \/ pc'[t] = "load" /\ map = None
        \/ pc'[t] = "done"
        \/ pc'[t] = "check" /\ held'[t] = map
    BY <1>3 DEF GetFromMap, goto, RegistryInv, RegistryTypeOK
  <2>3. StepAlone(t)' \/ pc'[t] = "done"
    BY <2>1, <2>2 DEF StepAlone, Holding, Accepted
  <2> QED BY <1>0, <1>2, <2>1, <2>3, AloneMoves DEF running
<1>4. ASSUME NEW fails \in BOOLEAN, GetFromDb(t, fails) PROVE RunsAlone'
  <2>1. UNCHANGED <<entry, map, row>> /\ map = None /\ MapIsRow'
    BY <1>1, <1>4 DEF GetFromDb, StepAlone, MapIsRow
  <2>2. pc'[t] \in {"publish", "done", "or"} /\ (pc'[t] = "publish" => row0'[t] = row)
    BY <1>4, <2>1 DEF GetFromDb, goto, RegistryInv, RegistryTypeOK
  <2>3. StepAlone(t)'
    BY <2>1, <2>2 DEF StepAlone, Holding, Accepted
  <2> QED BY <1>0, <1>2, <2>1, <2>3, AloneMoves
<1>5. CASE PublishRow(t)
  <2>1. Fresh \in Entries /\ row0[t] = row
    BY <1>1, <1>5, FreshEntry DEF PublishRow, StepAlone, RegistryInv, RegistryTypeOK
  <2>2. map' = Fresh /\ entry'[Fresh] = row
    BY <1>5, <2>1 DEF PublishRow, RegistryInv, RegistryTypeOK
  <2>3. MapIsRow'
    <3>1. row.uuid = None => row = NewEntry
      BY DEF RegistryInv, RegistryTypeOK, Row, NewEntry
    <3> QED BY <1>0, <2>2, <3>1 DEF MapIsRow
  <2>4. \/ pc'[t] = "done"
        \/ pc'[t] = "check" /\ held'[t] = map'
    BY <1>5 DEF PublishRow, goto, RegistryInv, RegistryTypeOK
  <2>5. StepAlone(t)' \/ pc'[t] = "done"
    BY <2>3, <2>4 DEF StepAlone, Holding, Accepted
  <2> QED BY <1>0, <1>2, <2>3, <2>5, AloneMoves DEF running
<1>6. CASE OrDefault(t)
  <2>1. map = None /\ used # Entries /\ map' = Fresh /\ entry' = [entry EXCEPT ![Fresh] = NewEntry]
    BY <1>1, <1>6 DEF OrDefault, StepAlone
  <2>2. Fresh \in Entries
    BY <2>1, FreshEntry DEF RegistryInv, RegistryTypeOK
  <2>3. entry'[map'] = NewEntry
    BY <2>1, <2>2 DEF RegistryInv, RegistryTypeOK
  <2>4. MapIsRow'
    BY <2>3 DEF MapIsRow, NewEntry, NoRow
  <2>5. pc'[t] = "check" /\ held'[t] = map'
    BY <1>6, <2>1 DEF OrDefault, goto, RegistryInv, RegistryTypeOK
  <2>6. StepAlone(t)'
    BY <2>4, <2>5 DEF StepAlone, Holding, Accepted
  <2> QED BY <1>0, <1>2, <2>4, <2>6, AloneMoves
<1> QED BY <1>3, <1>4, <1>5, <1>6

\* handle_register_pk: a request goes on only if the entry is empty or names
\* its machine.
LEMMA CheckAlone ==
    ASSUME RegistryInv, RunsAlone, NEW t \in Tasks, NEW limited \in BOOLEAN, NEW ws \in BOOLEAN,
           Check(t, limited, ws)
    PROVE  RunsAlone'
<1> USE RegistryAssumption
<1> SUFFICES ASSUME ~overlap' PROVE RunsAlone'
    BY DEF RunsAlone
<1>0. ~overlap /\ running(t) /\ UNCHANGED <<entry, map, row, failed>> /\ pc[t] = "check"
    BY DEF Check, running
<1>1. StepAlone(t)
    BY <1>0 DEF RunsAlone
<1>2. \A q \in Tasks \ {t} : pc'[q] = pc[q]
    BY DEF Check, answered, goto, RegistryInv, RegistryTypeOK
<1>3. MapIsRow /\ MapIsRow' /\ held[t] = map /\ map \in Entries /\ map # None
    BY <1>0, <1>1 DEF StepAlone, MapIsRow, RegistryInv, TasksSound, Holding
<1>4. \/ pc'[t] = "done"
      \/ /\ pc'[t] = "update" /\ UNCHANGED <<held, msg>>
         /\ entry[map].uuid = None \/ entry[map].uuid = msg[t].uuid
    BY <1>3 DEF Check, answered, goto, RegistryInv, RegistryTypeOK
<1>5. entry[map].uuid = None => entry[map] = NewEntry
    BY <1>3 DEF MapIsRow
<1>6. StepAlone(t)' \/ pc'[t] = "done"
    BY <1>0, <1>3, <1>4, <1>5 DEF StepAlone, Holding, Accepted
<1> QED BY <1>0, <1>2, <1>3, <1>6, AloneMoves DEF running

\* PeerMap::update_pk: the entry and the row end up the same.
LEMMA UpdateAlone ==
    ASSUME RegistryInv, RunsAlone, NEW t \in Tasks,
           \/ UpdateEntry(t) \/ SetGuid(t)
           \/ \E fails \in BOOLEAN : InsertRow(t, fails) \/ UpdateRow(t, fails)
    PROVE  RunsAlone'
<1> USE RegistryAssumption
<1> SUFFICES ASSUME ~overlap' PROVE RunsAlone'
    BY DEF RunsAlone
<1>0. ~overlap /\ running(t) /\ UNCHANGED map
  <2>1. running(t)
    BY DEF UpdateEntry, SetGuid, InsertRow, UpdateRow, running
  <2>2. UNCHANGED map /\ ~overlap
    BY DEF UpdateEntry, SetGuid, InsertRow, UpdateRow
  <2> QED BY <2>1, <2>2
<1>1. StepAlone(t)
    BY <1>0 DEF RunsAlone
<1>2. \A q \in Tasks \ {t} : pc'[q] = pc[q]
    BY DEF UpdateEntry, SetGuid, InsertRow, UpdateRow, answered, goto, RegistryInv, RegistryTypeOK
<1>3. held[t] = map /\ map \in Entries /\ map # None /\ msg[t] \in Message
  <2>1. pc[t] \in Accepted
    BY DEF UpdateEntry, SetGuid, InsertRow, UpdateRow, Accepted
  <2> QED BY <1>1, <2>1, AcceptedIsSound DEF StepAlone, Holding, RegistryInv, TasksSound, Handling
<1>4. CASE UpdateEntry(t)
  <2>1. /\ pc[t] = "update" /\ UNCHANGED <<msg, held, row>>
        /\ entry' = [entry EXCEPT ![map] = [guid |-> entry[map].guid, uuid |-> msg[t].uuid,
                                            pk |-> msg[t].pk, ip |-> msg[t].ip]]
        /\ pc'[t] = IF entry[map].guid = None THEN "insert" ELSE "update_row"
    BY <1>3, <1>4 DEF UpdateEntry, goto, RegistryInv, RegistryTypeOK
  <2>2. entry'[map] = [guid |-> entry[map].guid, uuid |-> msg[t].uuid, pk |-> msg[t].pk, ip |-> msg[t].ip]
    BY <1>3, <2>1 DEF RegistryInv, RegistryTypeOK
  <2>3. MapIsRow /\ (entry[map] = NewEntry \/ entry[map].uuid = msg[t].uuid)
    BY <1>1, <2>1 DEF StepAlone
  <2>4. CASE entry[map].guid = None
    BY <1>0, <1>2, <1>3, <2>1, <2>2, <2>4, AloneMoves DEF StepAlone, Holding, Accepted, running
  <2>5. CASE entry[map].guid # None
    <3>1. entry[map].guid = row.guid /\ entry[map].uuid = row.uuid /\ entry[map] # NewEntry
      BY <1>3, <2>3, <2>5 DEF MapIsRow, NewEntry, NoRow
    <3>2. row.uuid = msg[t].uuid /\ entry'[map] = [guid |-> row.guid, uuid |-> row.uuid, pk |-> msg[t].pk, ip |-> msg[t].ip]
      BY <2>2, <2>3, <3>1
    <3>3. pc'[t] = "update_row"
      BY <2>1, <2>5
    <3>4. StepAlone(t)'
      BY <1>0, <1>3, <2>1, <3>2, <3>3 DEF StepAlone, Holding, Accepted
    <3>5. running(t)'
      BY <3>3 DEF running
    <3> QED BY <1>0, <1>2, <3>4, <3>5, AloneMoves
  <2> QED BY <2>4, <2>5
<1>5. CASE SetGuid(t)
  <2>1. /\ pc[t] = "set_guid" /\ UNCHANGED row /\ pc'[t] = "done"
        /\ entry' = [entry EXCEPT ![map].guid = row.guid]
    BY <1>3, <1>5 DEF SetGuid, answered, goto, RegistryInv, RegistryTypeOK
  <2>2. /\ entry[map] = [guid |-> None, uuid |-> msg[t].uuid, pk |-> msg[t].pk, ip |-> msg[t].ip]
        /\ row = [guid |-> map, uuid |-> msg[t].uuid, pk |-> msg[t].pk, ip |-> msg[t].ip]
    BY <1>1, <2>1 DEF StepAlone
  <2>3. entry'[map] = [entry[map] EXCEPT !.guid = map]
    BY <1>3, <2>1, <2>2 DEF RegistryInv, RegistryTypeOK
  <2>4. entry'[map] = row
    BY <2>2, <2>3
  <2>5. MapIsRow'
    BY <1>0, <1>3, <2>1, <2>2, <2>4 DEF MapIsRow, Message
  <2> QED BY <1>0, <1>2, <2>1, <2>5, AloneMoves DEF running
<1>6. ASSUME NEW fails \in BOOLEAN, InsertRow(t, fails), ~(fails \/ row # NoRow) PROVE RunsAlone'
  <2>1. /\ pc[t] = "insert" /\ UNCHANGED <<held, msg, entry>> /\ pc'[t] = "set_guid"
        /\ row' = [guid |-> map, uuid |-> msg[t].uuid, pk |-> msg[t].pk, ip |-> msg[t].ip]
    BY <1>3, <1>6 DEF InsertRow, goto, RegistryInv, RegistryTypeOK
  <2>2. StepAlone(t)'
    BY <1>0, <1>1, <1>3, <2>1 DEF StepAlone, Holding, Accepted
  <2> QED BY <1>0, <1>2, <2>1, <2>2, AloneMoves DEF running
<1>7. ASSUME NEW fails \in BOOLEAN, InsertRow(t, fails), fails \/ row # NoRow PROVE RunsAlone'
  <2>1. /\ failed' /\ UNCHANGED <<entry, row>> /\ pc'[t] = "done"
        /\ entry[map] = [guid |-> None, uuid |-> msg[t].uuid, pk |-> msg[t].pk, ip |-> msg[t].ip]
    BY <1>1, <1>7 DEF InsertRow, StepAlone, answered, goto, RegistryInv, RegistryTypeOK
  <2>2. MapIsRow'
    BY <1>0, <1>3, <2>1 DEF MapIsRow, Message
  <2> QED BY <1>0, <1>2, <2>1, <2>2, AloneMoves DEF running
<1>8. ASSUME NEW fails \in BOOLEAN, UpdateRow(t, fails) PROVE RunsAlone'
  <2>1. /\ row.uuid = msg[t].uuid
        /\ entry[map] = [guid |-> row.guid, uuid |-> row.uuid, pk |-> msg[t].pk, ip |-> msg[t].ip]
    BY <1>1, <1>8 DEF UpdateRow, StepAlone
  <2>2. entry[map].guid = row.guid /\ UNCHANGED entry /\ pc'[t] = "done" /\ failed' = fails
    BY <1>8, <2>1 DEF UpdateRow, answered, goto, RegistryInv, RegistryTypeOK
  <2>3. row' = IF fails THEN row
               ELSE [guid |-> row.guid, uuid |-> row.uuid, pk |-> msg[t].pk, ip |-> msg[t].ip]
    BY <1>3, <1>8, <2>2 DEF UpdateRow
  <2>4. MapIsRow'
    BY <1>0, <1>3, <2>1, <2>2, <2>3 DEF MapIsRow, Message
  <2> QED BY <1>0, <1>2, <2>2, <2>4, AloneMoves DEF running
<1> QED BY <1>4, <1>5, <1>6, <1>7, <1>8

LEMMA AloneInductive ==
    ASSUME RegistryInv, RunsAlone, [RegistryNext]_registryVars
    PROVE  RunsAlone'
<1>1. CASE UNCHANGED registryVars
    BY <1>1 DEF registryVars, RunsAlone, StepAlone, MapIsRow, Quiet, running
<1>2. CASE Restart
  <2>1. map' = None /\ \A t \in Tasks : pc'[t] \in {"new", "done"}
    BY <1>2 DEF Restart
  <2> QED BY <2>1 DEF RunsAlone, MapIsRow, running
<1> QED BY <1>1, <1>2, StartAlone, GetAlone, CheckAlone, UpdateAlone DEF RegistryNext

LEMMA RegistryInvariant == RegistrySpec => [](RegistryInv /\ RunsAlone)
<1>1. RegistryInit => RegistryInv /\ HeldSound /\ RunsAlone
    BY RegistryInitial, HeldInitial DEF RegistryInit, RunsAlone, MapIsRow, running
<1>2. (RegistryInv /\ HeldSound /\ RunsAlone) /\ [RegistryNext]_registryVars
        => (RegistryInv /\ HeldSound /\ RunsAlone)'
    BY RegistryInductive, AloneInductive
<1> QED BY <1>1, <1>2, PTL DEF RegistrySpec

\* handle_register_pk with PeerMap: however requests, look-ups, failures of the
\* database and restarts interleave, the key of a machine other than the one an
\* entry or the row names gets there only when that machine once found the id
\* unregistered.
THEOREM KeysOfOwners == RegistrySpec => []ForeignKeyNeedsRace
<1>1. RegistryInv /\ RunsAlone => ForeignKeyNeedsRace
    BY DEF RegistryInv
<1> QED BY <1>1, RegistryInvariant, PTL

\* As long as tasks did not overlap since the start and the last write went
\* through, the entry PeerMap keeps of a registered device is its row,
\* whatever failed before: update_pk writes all of it again, whichever of
\* insert and update it takes.
THEOREM MemoryFollowsTable == RegistrySpec => []MemoryIsTheRow
<1>1. RegistryInv /\ RunsAlone => MemoryIsTheRow
  <2> SUFFICES ASSUME RegistryInv, RunsAlone, Quiet, ~overlap, ~failed, map # None
               PROVE  entry[map].uuid = None \/ entry[map] = row
    BY DEF MemoryIsTheRow
  <2>1. entry[map] \in {row, NewEntry}
    BY DEF RunsAlone, MapIsRow
  <2> QED BY <2>1 DEF NewEntry, NoRow
<1> QED BY <1>1, RegistryInvariant, PTL

-----------------------------------------------------------------------------
(* The relay servers *)

LEMMA ListsAreSets == \A l \in Lists : l \in SUBSET Servers
<1> QED BY DEF Servers

LEMMA RotationInitial == RotationInit => RotationTypeOK
<1> SUFFICES ASSUME RotationInit PROVE RotationTypeOK
    OBVIOUS
<1>1. rx \in Seq(Data)
    BY DEF RotationInit
<1>2. Configured \in Lists /\ relay_servers \in SUBSET Servers
    BY RotationAssumption, ListsAreSets DEF RotationInit
<1>3. 0 \in 0 .. MaxCommands
    BY RotationAssumption
<1> QED BY <1>1, <1>2, <1>3 DEF RotationInit, RotationTypeOK

\* A message joins the queue.
LEMMA SendKeeps ==
    ASSUME RotationTypeOK, NEW kind, NEW rs, [kind |-> kind, rs |-> rs] \in Data, send(kind, rs)
    PROVE  rx' \in Seq(Data)
<1> QED BY DEF send, RotationTypeOK

\* The main loop takes a message.
LEMMA TakeKeeps ==
    ASSUME RotationTypeOK, rx # <<>>, rx' = Tail(rx)
    PROVE  /\ rx' \in Seq(Data)
           /\ Head(rx).kind = "RelayServers0" => Head(rx).rs \in Lists
           /\ Head(rx).kind = "RelayServers" => Head(rx).rs \in (SUBSET Servers) \ {{}}
<1>1. rx \in Seq(Data)
    BY DEF RotationTypeOK
<1>2. rx' \in Seq(Data) /\ Head(rx) \in Data
    BY <1>1
<1> QED BY <1>2 DEF Data

LEMMA RotationInductive ==
    ASSUME RotationTypeOK, [RotationNext]_rotationVars
    PROVE  RotationTypeOK'
<1> USE RotationAssumption
<1>0. /\ relay_servers0 \in Lists /\ relay_servers \in SUBSET Servers
      /\ check \in [Checks -> Lists \cup {{}}] /\ commands \in 0 .. MaxCommands
    BY DEF RotationTypeOK
<1>1. CASE UNCHANGED rotationVars
    BY <1>1 DEF rotationVars, RotationTypeOK
<1>2. ASSUME NEW l \in Lists, Command(l) PROVE RotationTypeOK'
  <2>1. [kind |-> "RelayServers0", rs |-> l] \in Data
    BY DEF Data
  <2>2. commands' \in 0 .. MaxCommands
    BY <1>0, <1>2 DEF Command
  <2> QED BY <1>2, <2>1, <2>2, SendKeeps DEF Command, RotationTypeOK
<1>3. CASE parse_relay_servers
  <2>1. Head(rx).rs \in Lists /\ rx' \in Seq(Data)
    BY <1>3, TakeKeeps DEF parse_relay_servers
  <2>2. Head(rx).rs \in SUBSET Servers
    BY <2>1, ListsAreSets
  <2> QED BY <1>0, <1>3, <2>1, <2>2 DEF parse_relay_servers, RotationTypeOK
<1>4. CASE TakeChecked
  <2>1. Head(rx).rs \in (SUBSET Servers) \ {{}} /\ rx' \in Seq(Data)
    BY <1>4, TakeKeeps DEF TakeChecked
  <2> QED BY <1>0, <1>4, <2>1 DEF TakeChecked, RotationTypeOK
<1>5. ASSUME NEW c \in Checks, StartCheck(c) PROVE RotationTypeOK'
    BY <1>0, <1>5 DEF StartCheck, RotationTypeOK
<1>6. ASSUME NEW c \in Checks, NEW up \in SUBSET Servers, check_relay_servers(c, up)
      PROVE  RotationTypeOK'
  <2>1. check' \in [Checks -> Lists \cup {{}}] /\ UNCHANGED <<relay_servers0, relay_servers, commands>>
    BY <1>0, <1>6 DEF check_relay_servers
  <2>2. rx' \in Seq(Data)
    <3>1. CASE up = {}
      BY <1>6, <3>1 DEF check_relay_servers, RotationTypeOK
    <3>2. CASE up # {}
      <4>1. send("RelayServers", up) /\ [kind |-> "RelayServers", rs |-> up] \in Data
        BY <1>6, <3>2 DEF check_relay_servers, Data
      <4> QED BY <4>1, SendKeeps
    <3> QED BY <3>1, <3>2
  <2> QED BY <1>0, <2>1, <2>2 DEF RotationTypeOK
<1> QED BY <1>1, <1>2, <1>3, <1>4, <1>5, <1>6 DEF RotationNext

LEMMA RotationInvariant == RotationSpec => []RotationTypeOK
<1> QED BY RotationInitial, RotationInductive, PTL DEF RotationSpec

-----------------------------------------------------------------------------
(* The server *)

\* The part that rests stutters, so the server runs both parts as specified.
LEMMA ServerRunsBoth == FairSpec => RegistrySpec /\ RotationSpec
<1>1. Init => RegistryInit /\ RotationInit
    BY DEF Init
<1>2. [Next]_vars => [RegistryNext]_registryVars /\ [RotationNext]_rotationVars
  <2> SUFFICES ASSUME [Next]_vars
               PROVE  [RegistryNext]_registryVars /\ [RotationNext]_rotationVars
    OBVIOUS
  <2>1. CASE part = "registry" /\ RegistryNext /\ UNCHANGED <<part, rotationVars>>
    BY <2>1
  <2>2. CASE part = "rotation" /\ RotationNext /\ UNCHANGED <<part, registryVars>>
    BY <2>2
  <2>3. CASE UNCHANGED vars
    BY <2>3 DEF vars
  <2> QED BY <2>1, <2>2, <2>3 DEF Next
<1> QED BY <1>1, <1>2, PTL DEF FairSpec, RegistrySpec, RotationSpec

\* hbbs keeps its map, its table and its relay lists in their types; a check
\* of an old list or a failed one never leaves a server that has a configured
\* list without a relay, and that list is always one an administrator sent
\* (check_relay_servers, parse_relay_servers).
THEOREM ServerTypeCorrect == FairSpec => []TypeOK
<1>1. RegistryInv /\ RunsAlone => RegistryTypeOK
    BY DEF RegistryInv
<1>2. RegistryTypeOK /\ RotationTypeOK <=> TypeOK
    BY DEF TypeOK
<1> QED BY <1>1, <1>2, ServerRunsBoth, RegistryInvariant, RotationInvariant, PTL
=============================================================================
