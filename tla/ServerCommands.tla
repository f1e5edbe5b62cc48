--------------------------- MODULE ServerCommands ---------------------------
(***************************************************************************)
(* Server commands of the admin API (src/api): SendCmd passes a command to *)
(* hbbs or hbbr over a loopback socket and then stores it in the table     *)
(* server_cmd_states; when the API starts, ReplayServerCmds sends the      *)
(* stored rows again, three seconds later, in the order of their ids.      *)
(* Two settings stand for all: hbbs's relay servers, a value that a        *)
(* command replaces and that hbbs forgets when it restarts, and hbbr's     *)
(* block list, which commands add to and remove from and hbbr keeps in a   *)
(* file of its own (module IpSetFile).                                     *)
(*                                                                         *)
(* want, unsure and gone are history.  want has the settings as            *)
(* administrators last applied them.  unsure names the settings whose last *)
(* command was not stored, ran together with another one, with a replay or *)
(* with a server's exit, was sent under the alias Ba or Br, or was         *)
(* outweighed by an older row.  gone names the settings that a server lost *)
(* in a restart of its own, which no replay follows.                       *)
(***************************************************************************)
EXTENDS Naturals

CONSTANTS
    Requests,       \* SendCmd handlers that run at a time
    Values,         \* relay-server lists an administrator sets
    Default,        \* the list hbbs starts with
    Ips,            \* addresses
    Options,        \* the options of blocklist-add and blocklist-remove
    All,            \* the option "all" of blocklist-remove
    MaxSends,       \* bound on the commands sent
    Faults          \* TRUE: sockets, statements and processes may fail

ASSUME CommandsAssumption ==
    /\ Options \subseteq ((SUBSET Ips) \cup {{All}}) \ {{}}
    /\ Default \notin Values /\ All \notin Ips /\ "rs" \notin Ips
    /\ MaxSends \in Nat /\ Faults \in BOOLEAN

VARIABLES
    live,       \* the settings of the running servers
    table,      \* server_cmd_states
    lastId,     \* the last id that the table gave out
    pc, cmd,    \* handler -> where it is and its command
    replay,     \* "off", "wait" (the three seconds) or "run"
    rows,       \* the rows the replay has still to send
    sends, want, unsure, gone, clean

commandsVars ==
    <<live, table, lastId, pc, cmd, replay, rows, sends, want, unsure, gone, clean>>

\* A command with its option; rs, Ba and Br are aliases that the servers
\* understand, and an administrator may send either name.
Command ==
    [name : {"relay-servers", "rs"}, opt : {{v} : v \in Values}]
    \cup [name : {"blocklist-add", "Ba"}, opt : Options \ {{All}}]
    \cup [name : {"blocklist-remove", "Br"}, opt : Options]

NoCommand == [name |-> "", opt |-> {}]

\* A stored command.
Row == [id : Nat \ {0}, cmd : Command]

\* What a server takes a command for ...
replaces(c) == c.name \in {"relay-servers", "rs"}
adds(c) == c.name \in {"blocklist-add", "Ba"}
removes(c) == c.name \in {"blocklist-remove", "Br"}

\* ... and the ones that PersistCmd, which looks at the suffix of the name,
\* keeps one row of.
single(c) == c.name \notin {"blocklist-add", "blocklist-remove"}

\* The settings a command is about.
items(c) == IF replaces(c) THEN {"rs"} ELSE IF c.opt = {All} THEN Ips ELSE c.opt

Settings == [rs : Values \cup {Default}, block : SUBSET Ips]

CommandsTypeOK ==
    /\ live \in Settings /\ want \in Settings
    /\ table \subseteq Row /\ lastId \in Nat
    /\ pc \in [Requests -> {"idle", "v4", "persist", "create"}]
    /\ cmd \in [Requests -> Command \cup {NoCommand}]
    /\ replay \in {"off", "wait", "run"}
    /\ rows \subseteq Row
    /\ sends \in 0 .. MaxSends
    /\ unsure \subseteq Ips \cup {"rs"} /\ gone \subseteq Ips \cup {"rs"}
    /\ clean \in [Requests -> BOOLEAN]

CommandsInit ==
    /\ live = [rs |-> Default, block |-> {}]
    /\ want = live
    /\ table = {} /\ lastId = 0 /\ rows = {}
    /\ pc = [r \in Requests |-> "idle"]
    /\ cmd = [r \in Requests |-> NoCommand]
    /\ replay = "wait"
    /\ sends = 0
    /\ unsure = {} /\ gone = {}
    /\ clean = [r \in Requests |-> FALSE]

-----------------------------------------------------------------------------
\* What hbbs and hbbr do with a command.
apply(s, c) ==
    CASE replaces(c) -> [s EXCEPT !.rs = CHOOSE v \in Values : c.opt = {v}]
      [] adds(c) -> [s EXCEPT !.block = @ \cup c.opt]
      [] removes(c) -> [s EXCEPT !.block = @ \ items(c)]

\* A socket attempt: answered, lost after the server applied the command (no
\* answer within two seconds), or refused.
attempt(c, outcome) ==
    IF outcome = "refused" THEN UNCHANGED <<live, want>>
    ELSE live' = apply(live, c) /\ want' = apply(want, c)

\* SendCmd arrives and tries the IPv6 loopback.
SendCmd(r, c, outcome) ==
    LET others == {q \in Requests \ {r} : pc[q] # "idle" /\ items(cmd[q]) \cap items(c) # {}}
    IN  /\ pc[r] = "idle" /\ sends < MaxSends
        /\ attempt(c, outcome)
        /\ pc' = [pc EXCEPT ![r] = IF outcome = "answered" THEN "persist" ELSE "v4"]
        /\ cmd' = [cmd EXCEPT ![r] = c]
        /\ sends' = sends + 1
        /\ unsure' = unsure \cup items(c)
        /\ clean' = [q \in Requests |->
                        IF q = r THEN others = {} /\ replay # "run"
                        ELSE clean[q] /\ q \notin others]
        /\ UNCHANGED <<table, lastId, replay, rows, gone>>

\* A request goes on to its next step, or is over.
goesTo(r, step) == pc' = [pc EXCEPT ![r] = step] /\ UNCHANGED <<cmd, clean>>

ends(r) ==
    /\ pc' = [pc EXCEPT ![r] = "idle"]
    /\ cmd' = [cmd EXCEPT ![r] = NoCommand]
    /\ clean' = [clean EXCEPT ![r] = FALSE]

\* The IPv6 attempt failed: the same command goes to the IPv4 loopback, also
\* when the first attempt was applied.  A second failure fails the request.
SendV4(r, outcome) ==
    /\ pc[r] = "v4"
    /\ attempt(cmd[r], outcome)
    /\ IF outcome = "answered" THEN goesTo(r, "persist") ELSE ends(r)
    /\ UNCHANGED <<table, lastId, replay, rows, sends, unsure, gone>>

\* The rows of t that add an address to the block list, and that take it out.
adding(t, ip) == {row \in t : adds(row.cmd) /\ ip \in row.cmd.opt}
removing(t, ip) == {row \in t : removes(row.cmd) /\ ip \in items(row.cmd)}

\* A row of t that only a removal under its full name takes away adds the
\* address, after every row that takes it out.
lasting(t, ip) ==
    \E row \in adding(t, ip) :
        ~single(row.cmd) /\ \A other \in removing(t, ip) : other.id < row.id

\* The settings that a stored command c makes certain, beside the rows t.  The
\* row of an alias is there only until the next command of that name; a removal
\* takes with it the rows that added exactly its option, and no others; an older
\* row of the same addition may precede a stored Br.
settled(c, t) ==
    {i \in items(c) :
        \/ replaces(c)
        \/ /\ c.name = "blocklist-remove"
           /\ \A row \in adding(t, i) : row.cmd = [name |-> "blocklist-add", opt |-> c.opt]
        \/ c.name = "blocklist-add" /\ (removing(t, i) = {} \/ lasting(t, i))}

\* The request ends with its command stored.
stored(r) ==
    LET sure == IF clean[r] THEN settled(cmd[r], table') ELSE {}
    IN  /\ ends(r)
        /\ unsure' = unsure \ sure
        /\ gone' = gone \ sure

BugRemovesRemovals(r) ==
    LET c == cmd[r]
        known == c.name = "blocklist-add" /\ \E row \in table : row.cmd = c
        goes(d) == IF single(c) THEN d.name = c.name
                   ELSE c.name = "blocklist-remove" /\ d = c
    IN  /\ pc[r] = "persist"
        /\ table' = {row \in table : ~goes(row.cmd)}
        /\ IF c.name = "blocklist-remove" \/ known
             THEN stored(r)
             ELSE goesTo(r, "create") /\ UNCHANGED <<unsure, gone>>
        /\ UNCHANGED <<live, lastId, replay, rows, sends, want>>

\* PersistCmd, first statement: a removal deletes the rows that added exactly
\* its option; an addition looks for its own row; anything else deletes the
\* rows of the command.
PersistCmd(r) ==
    LET c == cmd[r]
        known == c.name = "blocklist-add" /\ \E row \in table : row.cmd = c
        goes(d) == IF single(c) THEN d.name = c.name
                   ELSE c.name = "blocklist-remove" /\ d.name = "blocklist-add" /\ d.opt = c.opt
    IN  /\ pc[r] = "persist"
        /\ table' = {row \in table : ~goes(row.cmd)}
        /\ IF c.name = "blocklist-remove" \/ known
             THEN stored(r)
             ELSE goesTo(r, "create") /\ UNCHANGED <<unsure, gone>>
        /\ UNCHANGED <<live, lastId, replay, rows, sends, want>>

\* Its second statement: the new row, with the next id.
CreateRow(r) ==
    /\ pc[r] = "create"
    /\ lastId' = lastId + 1
    /\ table' = table \cup {[id |-> lastId', cmd |-> cmd[r]]}
    /\ stored(r)
    /\ UNCHANGED <<live, replay, rows, sends, want>>

\* A statement fails: a warning is logged and the request still succeeds.
\* The count of an addition's rows is not checked: a failed one reads as none.
PersistFails(r) ==
    /\ pc[r] \in {"persist", "create"}
    /\ IF pc[r] = "persist" /\ cmd[r].name = "blocklist-add"
         THEN goesTo(r, "create") ELSE ends(r)
    /\ UNCHANGED <<live, table, lastId, replay, rows, sends, want, unsure, gone>>

\* Servers start again, with what they do not keep as at first: hbbs its
\* relay servers, hbbr its block list when its file was not kept.
fallBack(lost) ==
    live' = [rs    |-> IF "rs" \in lost THEN Default ELSE live.rs,
             block |-> live.block \ lost]

\* One that exits alone is started again by the supervisor, and nothing is
\* replayed; what the API is sending or replaying meanwhile may be lost.
ServerExits(lost) ==
    /\ fallBack(lost)
    /\ gone' = IF replay = "wait" THEN gone ELSE gone \cup lost
    /\ clean' = [r \in Requests |-> clean[r] /\ items(cmd[r]) \cap lost = {}]
    /\ UNCHANGED <<table, lastId, pc, cmd, replay, rows, sends, want, unsure>>

\* The API restarts, alone or with the servers of its container: requests and
\* a running replay are gone, and a replay will follow.
Restart(lost) ==
    /\ fallBack(lost)
    /\ gone' = {}
    /\ pc' = [r \in Requests |-> "idle"]
    /\ cmd' = [r \in Requests |-> NoCommand]
    /\ replay' = "wait"
    /\ rows' = {}
    /\ clean' = [r \in Requests |-> FALSE]
    /\ UNCHANGED <<table, lastId, sends, want, unsure>>

\* The three seconds are over: the replay reads the whole table once.
ReplayServerCmds ==
    /\ replay = "wait"
    /\ replay' = "run"
    /\ rows' = table
    /\ clean' = [r \in Requests |-> FALSE]
    /\ UNCHANGED <<live, table, lastId, pc, cmd, sends, want, unsure, gone>>

BugAnyOrder(row, ok) ==
    /\ replay = "run"
    /\ rows' = rows \ {row}
    /\ live' = IF ok THEN apply(live, row.cmd) ELSE live
    /\ unsure' = IF ok THEN unsure ELSE unsure \cup items(row.cmd)
    /\ UNCHANGED <<table, lastId, pc, cmd, replay, sends, want, gone, clean>>

\* The next row, in the order of the ids, is sent again.  When the server is
\* not up yet a warning is logged and the row is skipped.
ReplayRow(row, ok) ==
    /\ replay = "run"
    /\ \A other \in rows : row.id <= other.id
    /\ rows' = rows \ {row}
    /\ live' = IF ok THEN apply(live, row.cmd) ELSE live
    /\ unsure' = IF ok THEN unsure ELSE unsure \cup items(row.cmd)
    /\ UNCHANGED <<table, lastId, pc, cmd, replay, sends, want, gone, clean>>

ReplayDone ==
    /\ replay = "run" /\ rows = {}
    /\ replay' = "off"
    /\ UNCHANGED <<live, table, lastId, pc, cmd, rows, sends, want, unsure, gone, clean>>

Outcomes == IF Faults THEN {"answered", "lost", "refused"} ELSE {"answered"}

\* The settings of hbbs, of hbbr, of both and of none.
Losses == {{}, {"rs"}, Ips, Ips \cup {"rs"}}

CommandsNext ==
    \/ \E r \in Requests :
        \/ \E c \in Command, o \in Outcomes : SendCmd(r, c, o)
        \/ \E o \in Outcomes : SendV4(r, o)
        \/ PersistCmd(r) \/ CreateRow(r)
        \/ Faults /\ PersistFails(r)
    \/ Faults /\ \E lost \in Losses : Restart(lost) \/ ServerExits(lost)
    \/ ReplayServerCmds
    \/ \E row \in rows, ok \in {TRUE, ~Faults} : ReplayRow(row, ok)
    \/ ReplayDone

CommandsSpec == CommandsInit /\ [][CommandsNext]_commandsVars

-----------------------------------------------------------------------------
Quiet == replay = "off" /\ \A r \in Requests : pc[r] = "idle"

\* Two settings agree on everything that is certain and not lost.
Agree(s, w) ==
    /\ "rs" \notin unsure \cup gone => s.rs = w.rs
    /\ s.block \ (unsure \cup gone) = w.block \ (unsure \cup gone)

\* The rows of t that set the relay servers, and the newest of them.
relayRows(t) == {row \in t : replaces(row.cmd)}
newest(t, row) == row \in relayRows(t) /\ \A other \in relayRows(t) : other.id <= row.id

\* What fresh servers would have after a replay of the table: the newest row
\* about a setting decides it.
Replayed ==
    [rs    |-> IF relayRows(table) = {} THEN Default
               ELSE CHOOSE v \in Values : \E row \in table : newest(table, row) /\ row.cmd.opt = {v},
     block |-> {ip \in Ips : \E row \in adding(table, ip) :
                                \A other \in removing(table, ip) : other.id < row.id}]

\* The table reflects the current settings and a replay reproduces them
\* exactly (src/api/model/server_cmd_state.go:13), for the settings whose last
\* command went out under its full name, was stored and ran alone: no other
\* command, failure, exit or restart meanwhile or later takes that back.
ReplayReproduces == Quiet => Agree(Replayed, live)

\* Such a setting survives: whichever of the API, hbbs and hbbr restart, the
\* servers have again what administrators last applied once the API has
\* started again and its replay is over.
SettingsSurvive == Quiet => Agree(live, want)

\* The same without the conditions, as src/api/model/server_cmd_state.go:13
\* puts it: the table always reflects the current settings and a replay
\* reproduces them exactly.
TableIsExact == Quiet => Replayed = live
=============================================================================
