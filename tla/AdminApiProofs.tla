--------------------------- MODULE AdminApiProofs ---------------------------
(***************************************************************************)
(* The stateful parts of the admin API for any number of requests,         *)
(* commands, addresses, thresholds and windows: a stored setting survives  *)
(* restarts, and the ban bounds the wrong passwords of a window.           *)
(***************************************************************************)
EXTENDS AdminApi, FiniteSetTheorems, TLAPS

(***************************************************************************)
(* Server commands.                                                        *)
(***************************************************************************)
\* The table numbers its rows.
RowsOrdered ==
    /\ \A row \in table : row.id <= lastId
    /\ \A t \in {table, rows} : \A a, b \in t : a.id = b.id => a = b
    /\ replay # "run" => rows = {}

\* The settings of a command at work are unsure, and a command that will make
\* them certain is alone with them.
CommandsAlone ==
    \A r \in Requests : pc[r] # "idle" =>
        /\ cmd[r] \in Command
        /\ items(cmd[r]) \subseteq unsure
        /\ pc[r] = "create" => cmd[r].name # "blocklist-remove"
        /\ clean[r] =>
            /\ replay # "run"
            /\ \A q \in Requests \ {r} :
                pc[q] # "idle" => items(cmd[q]) \cap items(cmd[r]) = {}

\* Settings s have what c sets.
Shows(s, c) ==
    /\ replaces(c) => c.opt = {s.rs}
    /\ adds(c) => c.opt \subseteq s.block
    /\ removes(c) => items(c) \cap s.block = {}

CommandsApplied ==
    \A r \in Requests :
        (pc[r] \in {"persist", "create"} /\ clean[r]) => Shows(live, cmd[r]) /\ Shows(want, cmd[r])

\* Rows t, sent to servers with the relay list d, end in list v.
Decides(t, d, v) ==
    IF relayRows(t) = {} THEN v = d
    ELSE \E row \in t : newest(t, row) /\ row.cmd.opt = {v}

\* Rows t, sent to servers with the block list b, leave ip in it, or out of
\* it, and other rows of an alias would not change that.
LeavesIn(t, b, ip) == lasting(t, ip) \/ (ip \in b /\ removing(t, ip) = {})
LeavesOut(t, b, ip) == adding(t, ip) = {} /\ ip \notin b

\* For a certain setting the table says what administrators want ...
TableSays ==
    /\ "rs" \notin unsure => Decides(table, Default, want.rs)
    /\ \A ip \in Ips \ unsure :
        IF ip \in want.block THEN lasting(table, ip) ELSE adding(table, ip) = {}

\* ... and so do the servers with the rows that a replay has yet to send,
\* unless a server has lost the setting.  Without a row of it the relay list
\* was never set.
Ahead == IF replay = "wait" THEN table ELSE rows

LiveSays ==
    /\ "rs" \notin unsure \cup gone => Decides(Ahead, live.rs, want.rs)
    /\ ("rs" \notin unsure /\ relayRows(table) = {}) => live.rs = Default /\ relayRows(rows) = {}
    /\ \A ip \in Ips \ unsure :
        IF ip \in want.block THEN ip \in gone \/ LeavesIn(Ahead, live.block, ip)
        ELSE LeavesOut(Ahead, live.block, ip)
    /\ replay = "wait" => gone = {}

CommandsInv ==
    /\ CommandsTypeOK
    /\ RowsOrdered
    /\ CommandsAlone
    /\ CommandsApplied
    /\ TableSays
    /\ LiveSays

\* What a command is about, and what the servers do with it.
LEMMA ItemsOf ==
    ASSUME NEW c \in Command
    PROVE  /\ items(c) \subseteq Ips \cup {"rs"}
           /\ "rs" \in items(c) <=> replaces(c)
           /\ replaces(c) => ~adds(c) /\ ~removes(c) /\ items(c) = {"rs"} /\ \E v \in Values : c.opt = {v}
           /\ adds(c) => ~removes(c) /\ c.opt \subseteq Ips /\ items(c) = c.opt
           /\ removes(c) => items(c) \subseteq Ips
           /\ replaces(c) \/ adds(c) \/ removes(c)
<1>1. CASE c \in [name : {"relay-servers", "rs"}, opt : {{v} : v \in Values}]
  BY <1>1, CommandsAssumption DEF items, replaces, adds, removes
<1>2. CASE c \in [name : {"blocklist-add", "Ba"}, opt : Options \ {{All}}]
  BY <1>2, CommandsAssumption DEF items, replaces, adds, removes
<1>3. CASE c \in [name : {"blocklist-remove", "Br"}, opt : Options]
  BY <1>3, CommandsAssumption DEF items, replaces, adds, removes
<1> QED
  BY <1>1, <1>2, <1>3 DEF Command

LEMMA ApplyOf ==
    ASSUME NEW c \in Command, NEW s \in Settings
    PROVE  /\ apply(s, c) \in Settings
           /\ Shows(apply(s, c), c)
           /\ "rs" \notin items(c) => apply(s, c).rs = s.rs
           /\ \A ip \in Ips \ items(c) : ip \in apply(s, c).block <=> ip \in s.block
<1> DEFINE t == apply(s, c)
<1>0. s = [rs |-> s.rs, block |-> s.block] /\ s.rs \in Values \cup {Default} /\ s.block \subseteq Ips
  BY DEF Settings
<1>1. CASE replaces(c)
  <2>1. PICK v \in Values : c.opt = {v}
    BY <1>1, ItemsOf
  <2> DEFINE w == CHOOSE x \in Values : c.opt = {x}
  <2>2. w = v
    BY <2>1
  <2>5. ~adds(c) /\ ~removes(c)
    BY <1>1, ItemsOf
  <2>6. t = [s EXCEPT !.rs = w]
    BY <1>1, <2>5 DEF apply
  <2> HIDE DEF w, t
  <2>3. t = [s EXCEPT !.rs = v]
    BY <2>2, <2>6
  <2>4. t = [rs |-> v, block |-> s.block]
    BY <1>0, <2>3
  <2> QED
    BY <1>0, <1>1, <2>1, <2>4, <2>5, ItemsOf DEF Settings, Shows, t
<1>2. CASE adds(c)
  <2>1. ~replaces(c) /\ ~removes(c)
    BY <1>2, ItemsOf
  <2>2. t = [s EXCEPT !.block = @ \cup c.opt]
    BY <1>2, <2>1 DEF apply
  <2>3. t = [rs |-> s.rs, block |-> s.block \cup c.opt]
    BY <1>0, <2>2
  <2> QED
    BY <1>0, <1>2, <2>1, <2>3, ItemsOf DEF Settings, Shows
<1>3. CASE removes(c)
  <2>1. ~replaces(c) /\ ~adds(c)
    BY <1>3, ItemsOf
  <2>2. t = [s EXCEPT !.block = @ \ items(c)]
    BY <1>3, <2>1 DEF apply
  <2>3. t = [rs |-> s.rs, block |-> s.block \ items(c)]
    BY <1>0, <2>2
  <2> QED
    BY <1>0, <1>3, <2>1, <2>3, ItemsOf DEF Settings, Shows
<1> QED
  BY <1>1, <1>2, <1>3, ItemsOf

\* Two settings that agree on what a command is about show it alike.
LEMMA ShowsKept ==
    ASSUME NEW c \in Command, NEW s \in Settings, NEW t \in Settings, Shows(s, c),
           "rs" \in items(c) => t.rs = s.rs,
           \A ip \in Ips \cap items(c) : ip \in t.block <=> ip \in s.block
    PROVE  Shows(t, c)
<1>1. t.block \subseteq Ips /\ s.block \subseteq Ips
  BY DEF Settings
<1> QED
  BY <1>1, ItemsOf DEF Shows

LEMMA AttemptOf ==
    ASSUME CommandsTypeOK, NEW c \in Command, NEW o \in Outcomes, attempt(c, o)
    PROVE  /\ live' \in Settings /\ want' \in Settings
           /\ "rs" \notin items(c) => live'.rs = live.rs /\ want'.rs = want.rs
           /\ \A ip \in Ips \ items(c) : /\ ip \in live'.block <=> ip \in live.block
                                         /\ ip \in want'.block <=> ip \in want.block
           /\ o = "answered" => Shows(live', c) /\ Shows(want', c)
<1>0. live \in Settings /\ want \in Settings
  BY DEF CommandsTypeOK
<1>1. CASE o = "refused"
  BY <1>0, <1>1 DEF attempt
<1>2. CASE o # "refused"
  <2>1. live' = apply(live, c) /\ want' = apply(want, c)
    BY <1>2 DEF attempt
  <2> QED
    BY <1>0, <2>1, ApplyOf
<1> QED
  BY <1>1, <1>2

\* What rows say of the relay list depends on their relay rows only.
LEMMA SaysKept ==
    ASSUME NEW t, NEW u, relayRows(t) = relayRows(u), NEW d, NEW v
    PROVE  Decides(t, d, v) <=> Decides(u, d, v)
BY DEF Decides, newest, relayRows

\* A step that leaves the table and the rows ahead alone, and the certain
\* settings too.
LEMMA SameRowsSay ==
    ASSUME CommandsInv, UNCHANGED table, Ahead' = Ahead, relayRows(rows') \subseteq relayRows(rows),
           unsure \subseteq unsure', gone \subseteq gone', replay' = "wait" => gone' = {},
           "rs" \notin unsure' =>
               /\ want'.rs = want.rs
               /\ "rs" \notin gone' => live'.rs = live.rs
               /\ live'.rs \in {live.rs, Default},
           \A ip \in Ips \ unsure' :
               /\ ip \in want'.block <=> ip \in want.block
               /\ ip \in live'.block => ip \in live.block
               /\ ip \in live.block => ip \in live'.block \/ ip \in gone'
    PROVE  TableSays' /\ LiveSays'
<1>0. TableSays /\ LiveSays
  BY DEF CommandsInv
<1>1. TableSays'
  <2>1. "rs" \notin unsure' => Decides(table, Default, want.rs)'
    <3> SUFFICES ASSUME "rs" \notin unsure' PROVE Decides(table, Default, want.rs)'
      OBVIOUS
    <3>1. Decides(table, Default, want.rs)
      BY <1>0 DEF TableSays
    <3> QED
      BY <3>1 DEF Decides, newest, relayRows, replaces
  <2>2. \A ip \in Ips \ unsure' :
          IF ip \in want.block THEN lasting(table, ip) ELSE adding(table, ip) = {}
    BY <1>0 DEF TableSays
  <2> QED
    BY <2>1, <2>2 DEF TableSays, lasting, adding, removing, adds, removes, single, items, replaces
<1>2. LiveSays'
  <2>1. "rs" \notin unsure' \cup gone' => Decides(Ahead, live.rs, want.rs)'
    <3> SUFFICES ASSUME "rs" \notin unsure' \cup gone' PROVE Decides(Ahead, live.rs, want.rs)'
      OBVIOUS
    <3>1. Decides(Ahead, live.rs, want.rs)
      BY <1>0 DEF LiveSays
    <3>2. live'.rs = live.rs /\ want'.rs = want.rs
      OBVIOUS
    <3> HIDE DEF Ahead
    <3> QED
      BY <3>1, <3>2 DEF Decides, newest, relayRows, replaces
  <2>2. ("rs" \notin unsure' /\ relayRows(table') = {}) => live'.rs = Default /\ relayRows(rows') = {}
    BY <1>0 DEF LiveSays
  <2>3. ASSUME NEW ip \in Ips \ unsure'
        PROVE  IF ip \in want'.block THEN ip \in gone' \/ LeavesIn(Ahead, live'.block, ip)
               ELSE LeavesOut(Ahead, live'.block, ip)
    <3>1. IF ip \in want.block THEN ip \in gone \/ LeavesIn(Ahead, live.block, ip)
          ELSE LeavesOut(Ahead, live.block, ip)
      BY <1>0, <2>3 DEF LiveSays
    <3> QED
      BY <2>3, <3>1 DEF LeavesIn, LeavesOut
  <2>4. relayRows(table)' = relayRows(table') /\ relayRows(rows)' = relayRows(rows')
    BY DEF relayRows, replaces
  <2>5. \A ip \in Ips \ unsure' :
            IF ip \in want'.block THEN ip \in gone' \/ LeavesIn(Ahead, live.block, ip)'
            ELSE LeavesOut(Ahead, live.block, ip)'
    <3> HIDE DEF Ahead
    <3> QED
      BY <2>3 DEF LeavesIn, LeavesOut, lasting, adding, removing, adds, removes, single, items, replaces
  <2> QED
    BY <2>1, <2>2, <2>4, <2>5 DEF LiveSays
<1> QED
  BY <1>1, <1>2

\* A command that is sent, or sent again, changes only settings that are
\* unsure from then on.
LEMMA SendKeepsSays ==
    ASSUME CommandsInv, NEW c \in Command, NEW o \in Outcomes, attempt(c, o),
           unsure' = unsure \cup items(c), UNCHANGED <<table, replay, rows, gone>>
    PROVE  TableSays' /\ LiveSays'
<1>0. CommandsTypeOK /\ LiveSays
  BY DEF CommandsInv
<1>1. Ahead' = Ahead /\ relayRows(rows') = relayRows(rows)
  BY DEF Ahead, relayRows
<1>2. "rs" \notin unsure' => live'.rs = live.rs /\ want'.rs = want.rs
  BY <1>0, AttemptOf
<1>3. \A ip \in Ips \ unsure' :
        /\ ip \in live'.block <=> ip \in live.block
        /\ ip \in want'.block <=> ip \in want.block
  BY <1>0, AttemptOf
<1>4. replay' = "wait" => gone' = {}
  BY <1>0 DEF LiveSays
<1> QED
  BY <1>1, <1>2, <1>3, <1>4, SameRowsSay

LEMMA SendCmdKeeps ==
    ASSUME CommandsInv, NEW r \in Requests, NEW c \in Command, NEW o \in Outcomes,
           SendCmd(r, c, o)
    PROVE  CommandsInv'
<1> DEFINE others == {q \in Requests \ {r} : pc[q] # "idle" /\ items(cmd[q]) \cap items(c) # {}}
<1>0. CommandsTypeOK /\ RowsOrdered /\ CommandsAlone /\ CommandsApplied
  BY DEF CommandsInv
<1>1. /\ pc[r] = "idle" /\ sends < MaxSends /\ attempt(c, o)
      /\ pc' = [pc EXCEPT ![r] = IF o = "answered" THEN "persist" ELSE "v4"]
      /\ cmd' = [cmd EXCEPT ![r] = c]
      /\ sends' = sends + 1
      /\ unsure' = unsure \cup items(c)
      /\ clean' = [q \in Requests |->
                      IF q = r THEN others = {} /\ replay # "run"
                      ELSE clean[q] /\ q \notin others]
      /\ UNCHANGED <<table, lastId, replay, rows, gone>>
  BY DEF SendCmd
<1> HIDE DEF others
<1>2. CommandsTypeOK'
  <2>1. clean' \in [Requests -> BOOLEAN]
    BY <1>0, <1>1 DEF CommandsTypeOK
  <2> QED
    BY <1>0, <1>1, <2>1, AttemptOf, ItemsOf, CommandsAssumption DEF CommandsTypeOK
<1>3. RowsOrdered'
  BY <1>0, <1>1 DEF RowsOrdered
<1>4. \A q \in Requests \ {r} : pc'[q] = pc[q] /\ cmd'[q] = cmd[q]
  BY <1>0, <1>1 DEF CommandsTypeOK
<1>5. pc'[r] \in {"persist", "v4"} /\ cmd'[r] = c /\ (pc'[r] = "persist" => o = "answered")
  BY <1>0, <1>1 DEF CommandsTypeOK
<1>6. CommandsAlone'
  <2> SUFFICES ASSUME NEW q \in Requests, pc'[q] # "idle"
               PROVE  /\ cmd'[q] \in Command
                      /\ items(cmd'[q]) \subseteq unsure'
                      /\ pc'[q] = "create" => cmd'[q].name # "blocklist-remove"
                      /\ clean'[q] =>
                          /\ replay' # "run"
                          /\ \A p \in Requests \ {q} :
                              pc'[p] # "idle" => items(cmd'[p]) \cap items(cmd'[q]) = {}
    BY DEF CommandsAlone, items, replaces
  <2>1. CASE q = r
    BY <1>1, <1>4, <1>5, <2>1 DEF others
  <2>2. CASE q # r
    <3>1. /\ cmd[q] \in Command /\ items(cmd[q]) \subseteq unsure
          /\ pc[q] = "create" => cmd[q].name # "blocklist-remove"
          /\ clean[q] =>
               /\ replay # "run"
               /\ \A p \in Requests \ {q} :
                    pc[p] # "idle" => items(cmd[p]) \cap items(cmd[q]) = {}
      BY <1>0, <1>4, <2>2 DEF CommandsAlone
    <3>2. clean'[q] => clean[q] /\ items(cmd[q]) \cap items(c) = {}
      BY <1>1, <1>4, <2>2 DEF others
    <3>3. clean'[q] => \A p \in Requests \ {q} :
                              pc'[p] # "idle" => items(cmd'[p]) \cap items(cmd'[q]) = {}
      BY <1>4, <1>5, <2>2, <3>1, <3>2
    <3> QED
      BY <1>1, <1>4, <2>2, <3>1, <3>2, <3>3
  <2> QED
    BY <2>1, <2>2
<1>7. CommandsApplied'
  <2> SUFFICES ASSUME NEW q \in Requests, pc'[q] \in {"persist", "create"}, clean'[q]
               PROVE  Shows(live', cmd'[q]) /\ Shows(want', cmd'[q])
    BY DEF CommandsApplied, Shows, items, replaces, adds, removes
  <2>1. CASE q = r
    BY <1>0, <1>1, <1>5, <2>1, AttemptOf
  <2>2. CASE q # r
    <3>1. clean[q] /\ items(cmd[q]) \cap items(c) = {}
      BY <1>1, <1>4, <2>2 DEF others
    <3>2. Shows(live, cmd[q]) /\ Shows(want, cmd[q]) /\ cmd[q] \in Command
      BY <1>0, <1>4, <2>2, <3>1 DEF CommandsApplied, CommandsAlone
    <3>3. /\ "rs" \in items(cmd[q]) => live'.rs = live.rs /\ want'.rs = want.rs
          /\ \A ip \in Ips \cap items(cmd[q]) : /\ ip \in live'.block <=> ip \in live.block
                                                /\ ip \in want'.block <=> ip \in want.block
      BY <1>0, <1>1, <3>1, AttemptOf
    <3>4. live \in Settings /\ want \in Settings /\ live' \in Settings /\ want' \in Settings
      BY <1>0, <1>2 DEF CommandsTypeOK
    <3> QED
      BY <1>4, <2>2, <3>2, <3>3, <3>4, ShowsKept
  <2> QED
    BY <2>1, <2>2
<1>8. TableSays' /\ LiveSays'
  BY <1>1, SendKeepsSays
<1> QED
  BY <1>2, <1>3, <1>6, <1>7, <1>8 DEF CommandsInv

\* A request goes on, or ends and takes the marks of its own settings with it.
LEMMA RequestMoves ==
    ASSUME CommandsInv, NEW r \in Requests, NEW p \in {"idle", "persist", "create"}, pc[r] # "idle",
           (p # "idle" /\ goesTo(r, p) /\ unsure' = unsure) \/ (p = "idle" /\ ends(r)),
           unsure' = unsure \/ (clean[r] /\ \E x : x \subseteq items(cmd[r]) /\ unsure' = unsure \ x),
           p = "create" => cmd[r].name # "blocklist-remove",
           UNCHANGED replay
    PROVE  /\ pc' \in [Requests -> {"idle", "v4", "persist", "create"}]
           /\ cmd' \in [Requests -> Command \cup {NoCommand}]
           /\ clean' \in [Requests -> BOOLEAN]
           /\ \A q \in Requests \ {r} : pc'[q] = pc[q] /\ cmd'[q] = cmd[q] /\ clean'[q] = clean[q]
           /\ pc'[r] = p
           /\ p # "idle" => cmd'[r] = cmd[r] /\ clean'[r] = clean[r]
           /\ CommandsAlone'
<1>0. CommandsTypeOK /\ CommandsAlone
  BY DEF CommandsInv
<1>1. \A q \in Requests \ {r} : pc'[q] = pc[q] /\ cmd'[q] = cmd[q] /\ clean'[q] = clean[q]
  BY <1>0 DEF CommandsTypeOK, goesTo, ends
<1>2. pc'[r] = p /\ (p # "idle" => cmd'[r] = cmd[r] /\ clean'[r] = clean[r])
  BY <1>0 DEF CommandsTypeOK, goesTo, ends
<1>3. /\ pc' \in [Requests -> {"idle", "v4", "persist", "create"}]
      /\ cmd' \in [Requests -> Command \cup {NoCommand}]
      /\ clean' \in [Requests -> BOOLEAN]
  BY <1>0 DEF CommandsTypeOK, goesTo, ends
<1>4. \A q \in Requests : pc'[q] # "idle" => pc[q] # "idle" /\ cmd'[q] = cmd[q] /\ clean'[q] = clean[q]
  BY <1>1, <1>2
<1>5. CommandsAlone'
  <2> SUFFICES ASSUME NEW q \in Requests, pc'[q] # "idle"
               PROVE  /\ cmd[q] \in Command
                      /\ items(cmd[q]) \subseteq unsure'
                      /\ pc'[q] = "create" => cmd[q].name # "blocklist-remove"
                      /\ clean[q] =>
                          /\ replay # "run"
                          /\ \A s \in Requests \ {q} :
                              pc'[s] # "idle" => items(cmd[s]) \cap items(cmd[q]) = {}
    BY <1>4 DEF CommandsAlone, items, replaces
  <2>1. items(cmd[q]) \subseteq unsure'
    <3>1. items(cmd[q]) \subseteq unsure
      BY <1>0, <1>4 DEF CommandsAlone
    <3>2. CASE unsure' = unsure
      BY <3>1, <3>2
    <3>3. CASE unsure' # unsure
      <4>1. q # r /\ clean[r]
        BY <1>2, <3>3
      <4>2. items(cmd[q]) \cap items(cmd[r]) = {}
        BY <1>0, <1>4, <4>1 DEF CommandsAlone
      <4> QED
        BY <3>1, <3>3, <4>2
    <3> QED
      BY <3>2, <3>3
  <2>2. pc'[q] = "create" => cmd[q].name # "blocklist-remove"
    BY <1>0, <1>1, <1>2, <1>4 DEF CommandsAlone
  <2> QED
    BY <1>0, <1>4, <2>1, <2>2 DEF CommandsAlone
<1> QED
  BY <1>1, <1>2, <1>3, <1>5

\* ... and the commands that were applied still are.
LEMMA RequestMovesApplied ==
    ASSUME CommandsInv, NEW r \in Requests, NEW p \in {"idle", "create"},
           pc[r] \in {"persist", "create"},
           \A q \in Requests \ {r} : pc'[q] = pc[q] /\ cmd'[q] = cmd[q] /\ clean'[q] = clean[q],
           pc'[r] = p,
           p # "idle" => cmd'[r] = cmd[r] /\ clean'[r] = clean[r],
           UNCHANGED <<live, want>>
    PROVE  CommandsApplied'
<1> SUFFICES ASSUME NEW q \in Requests, pc'[q] \in {"persist", "create"}, clean'[q]
             PROVE  Shows(live, cmd'[q]) /\ Shows(want, cmd'[q])
  BY DEF CommandsApplied, Shows, items, replaces, adds, removes
<1>1. pc[q] \in {"persist", "create"} /\ clean[q] /\ cmd'[q] = cmd[q]
  OBVIOUS
<1> QED
  BY <1>1 DEF CommandsInv, CommandsApplied

LEMMA SendV4Keeps ==
    ASSUME CommandsInv, NEW r \in Requests, NEW o \in Outcomes, SendV4(r, o)
    PROVE  CommandsInv'
<1> DEFINE c == cmd[r]
           p == IF o = "answered" THEN "persist" ELSE "idle"
<1>0. CommandsTypeOK /\ RowsOrdered /\ CommandsAlone /\ CommandsApplied
  BY DEF CommandsInv
<1>1. /\ pc[r] = "v4" /\ attempt(c, o)
      /\ IF o = "answered" THEN goesTo(r, "persist") ELSE ends(r)
      /\ UNCHANGED <<table, lastId, replay, rows, sends, unsure, gone>>
  BY DEF SendV4
<1>2. c \in Command /\ items(c) \subseteq unsure
  BY <1>0, <1>1 DEF CommandsAlone
<1>3. /\ p \in {"idle", "persist", "create"}
      /\ (p # "idle" /\ goesTo(r, p)) \/ (p = "idle" /\ ends(r))
      /\ p # "create"
  BY <1>1
<1> HIDE DEF c, p, CommandsInv
<1>4. /\ pc' \in [Requests -> {"idle", "v4", "persist", "create"}]
      /\ cmd' \in [Requests -> Command \cup {NoCommand}]
      /\ clean' \in [Requests -> BOOLEAN]
      /\ \A q \in Requests \ {r} : pc'[q] = pc[q] /\ cmd'[q] = cmd[q] /\ clean'[q] = clean[q]
      /\ pc'[r] = p
      /\ p # "idle" => cmd'[r] = cmd[r] /\ clean'[r] = clean[r]
      /\ CommandsAlone'
  BY <1>1, <1>3, RequestMoves
<1>5. CommandsTypeOK'
  BY <1>0, <1>1, <1>2, <1>4, AttemptOf DEF CommandsTypeOK
<1>6. RowsOrdered'
  BY <1>0, <1>1 DEF RowsOrdered
<1>7. CommandsApplied'
  <2> SUFFICES ASSUME NEW q \in Requests, pc'[q] \in {"persist", "create"}, clean'[q]
               PROVE  Shows(live', cmd'[q]) /\ Shows(want', cmd'[q])
    BY DEF CommandsApplied, Shows, items, replaces, adds, removes
  <2>1. CASE q = r
    <3>1. o = "answered" /\ cmd'[q] = c
      BY <1>4, <2>1 DEF p, c
    <3> QED
      BY <1>0, <1>1, <1>2, <3>1, AttemptOf
  <2>2. CASE q # r
    <3>0. pc'[q] = pc[q] /\ cmd'[q] = cmd[q] /\ clean[q]
      BY <1>4, <2>2
    <3>1. Shows(live, cmd[q]) /\ Shows(want, cmd[q]) /\ cmd[q] \in Command
      BY <1>0, <3>0 DEF CommandsApplied, CommandsAlone
    <3>2. items(cmd[q]) \cap items(c) = {}
      BY <1>0, <1>1, <2>2, <3>0 DEF CommandsAlone, c
    <3>3. /\ "rs" \in items(cmd[q]) => live'.rs = live.rs /\ want'.rs = want.rs
          /\ \A ip \in Ips \cap items(cmd[q]) : /\ ip \in live'.block <=> ip \in live.block
                                                /\ ip \in want'.block <=> ip \in want.block
      BY <1>0, <1>1, <1>2, <3>2, AttemptOf
    <3>4. live \in Settings /\ want \in Settings /\ live' \in Settings /\ want' \in Settings
      BY <1>0, <1>5 DEF CommandsTypeOK
    <3> QED
      BY <3>0, <3>1, <3>3, <3>4, ShowsKept
  <2> QED
    BY <2>1, <2>2
<1>8. TableSays' /\ LiveSays'
  <2>1. unsure' = unsure \cup items(c)
    BY <1>1, <1>2
  <2> QED
    BY <1>1, <1>2, <2>1, SendKeepsSays
<1> QED
  BY <1>4, <1>5, <1>6, <1>7, <1>8 DEF CommandsInv

LEMMA PersistFailsKeeps ==
    ASSUME CommandsInv, NEW r \in Requests, PersistFails(r)
    PROVE  CommandsInv'
<1> DEFINE p == IF pc[r] = "persist" /\ cmd[r].name = "blocklist-add" THEN "create" ELSE "idle"
<1>0. CommandsTypeOK /\ RowsOrdered /\ LiveSays
  BY DEF CommandsInv
<1>1. /\ pc[r] \in {"persist", "create"}
      /\ (p # "idle" /\ goesTo(r, p)) \/ (p = "idle" /\ ends(r))
      /\ UNCHANGED <<live, table, lastId, replay, rows, sends, want, unsure, gone>>
      /\ p \in {"idle", "create"}
      /\ p = "create" => cmd[r].name # "blocklist-remove"
  BY DEF PersistFails
<1> HIDE DEF p, CommandsInv
<1>2. /\ pc' \in [Requests -> {"idle", "v4", "persist", "create"}]
      /\ cmd' \in [Requests -> Command \cup {NoCommand}]
      /\ clean' \in [Requests -> BOOLEAN]
      /\ \A q \in Requests \ {r} : pc'[q] = pc[q] /\ cmd'[q] = cmd[q] /\ clean'[q] = clean[q]
      /\ pc'[r] = p
      /\ p # "idle" => cmd'[r] = cmd[r] /\ clean'[r] = clean[r]
      /\ CommandsAlone'
  BY <1>1, RequestMoves
<1>3. CommandsTypeOK'
  BY <1>0, <1>1, <1>2 DEF CommandsTypeOK
<1>4. RowsOrdered'
  BY <1>0, <1>1 DEF RowsOrdered
<1>5. TableSays' /\ LiveSays'
  <2>1. Ahead' = Ahead /\ relayRows(rows') = relayRows(rows)
    BY <1>1 DEF Ahead, relayRows
  <2>2. replay' = "wait" => gone' = {}
    BY <1>0, <1>1 DEF LiveSays
  <2> QED
    BY <1>1, <2>1, <2>2, SameRowsSay
<1>6. CommandsApplied'
  BY <1>1, <1>2, RequestMovesApplied
<1> QED
  BY <1>2, <1>3, <1>4, <1>5, <1>6 DEF CommandsInv

\* A new table says what is wanted when each setting that is certain was so
\* before and the table says the same of it, or it has become so with no row
\* of a replay left.
LEMMA SaysAgain ==
    ASSUME CommandsInv, UNCHANGED <<live, want, replay, rows>>, gone' \subseteq gone,
           "rs" \notin unsure' =>
               \/ "rs" \notin unsure /\ relayRows(table') = relayRows(table) /\ ("rs" \in gone => "rs" \in gone')
               \/ /\ relayRows(table') # {}
                  /\ \A d : Decides(table', d, want.rs)
                  /\ live.rs = want.rs
                  /\ replay # "wait" => rows = {},
           \A ip \in Ips \ unsure' :
               \/ /\ ip \notin unsure /\ (ip \in gone => ip \in gone')
                  /\ lasting(table, ip) => lasting(table', ip)
                  /\ adding(table', ip) \subseteq adding(table, ip)
                  /\ removing(table', ip) \subseteq removing(table, ip)
               \/ /\ replay # "wait" => rows = {}
                  /\ IF ip \in want.block THEN lasting(table', ip) /\ ip \in live.block
                     ELSE adding(table', ip) = {} /\ ip \notin live.block
    PROVE  TableSays' /\ LiveSays'
<1> DEFINE ahead == IF replay = "wait" THEN table' ELSE rows
<1>0. TableSays /\ LiveSays
  BY DEF CommandsInv
<1>1. "rs" \notin unsure' => Decides(table', Default, want.rs)
  <2> SUFFICES ASSUME "rs" \notin unsure', "rs" \notin unsure, relayRows(table') = relayRows(table)
               PROVE  Decides(table', Default, want.rs)
    OBVIOUS
  <2>1. Decides(table, Default, want.rs)
    BY <1>0 DEF TableSays
  <2> QED
    BY <2>1, SaysKept
<1>2. "rs" \notin unsure' \cup gone' => Decides(ahead, live.rs, want.rs)
  <2> SUFFICES ASSUME "rs" \notin unsure' \cup gone' PROVE Decides(ahead, live.rs, want.rs)
    OBVIOUS
  <2>1. CASE "rs" \notin unsure /\ relayRows(table') = relayRows(table) /\ ("rs" \in gone => "rs" \in gone')
    <3>1. Decides(Ahead, live.rs, want.rs)
      BY <1>0, <2>1 DEF LiveSays
    <3>2. relayRows(ahead) = relayRows(Ahead)
      BY <2>1 DEF Ahead
    <3> QED
      BY <3>1, <3>2, SaysKept
  <2>2. CASE /\ \A d : Decides(table', d, want.rs)
             /\ live.rs = want.rs
             /\ replay # "wait" => rows = {}
    <3>1. rows = {} => Decides(rows, live.rs, want.rs)
      BY <2>2 DEF Decides, relayRows
    <3> QED
      BY <2>2, <3>1
  <2> QED
    BY <2>1, <2>2
<1>3. ("rs" \notin unsure' /\ relayRows(table') = {}) => live.rs = Default /\ relayRows(rows) = {}
  BY <1>0 DEF LiveSays
<1>4. ASSUME NEW ip \in Ips \ unsure'
      PROVE  IF ip \in want.block
             THEN lasting(table', ip) /\ (ip \in gone' \/ LeavesIn(ahead, live.block, ip))
             ELSE adding(table', ip) = {} /\ LeavesOut(ahead, live.block, ip)
  <2>1. CASE /\ ip \notin unsure /\ (ip \in gone => ip \in gone')
             /\ lasting(table, ip) => lasting(table', ip)
             /\ adding(table', ip) \subseteq adding(table, ip)
             /\ removing(table', ip) \subseteq removing(table, ip)
    <3>1. IF ip \in want.block THEN lasting(table, ip) ELSE adding(table, ip) = {}
      BY <1>0, <1>4, <2>1 DEF TableSays
    <3>2. IF ip \in want.block THEN ip \in gone \/ LeavesIn(Ahead, live.block, ip)
          ELSE LeavesOut(Ahead, live.block, ip)
      BY <1>0, <1>4, <2>1 DEF LiveSays
    <3>3. CASE replay = "wait"
      BY <2>1, <3>1, <3>2, <3>3 DEF LeavesIn, LeavesOut, Ahead
    <3>4. CASE replay # "wait"
      BY <2>1, <3>1, <3>2, <3>4 DEF LeavesIn, LeavesOut, Ahead
    <3> QED
      BY <3>3, <3>4
  <2>2. CASE /\ replay # "wait" => rows = {}
             /\ IF ip \in want.block THEN lasting(table', ip) /\ ip \in live.block
                ELSE adding(table', ip) = {} /\ ip \notin live.block
    <3>1. rows = {} => adding(rows, ip) = {} /\ removing(rows, ip) = {}
      BY DEF adding, removing
    <3> QED
      BY <2>2, <3>1 DEF LeavesIn, LeavesOut
  <2> QED
    BY <1>4, <2>1, <2>2
<1>5. Ahead' = ahead
  BY DEF Ahead
<1>6. relayRows(table)' = relayRows(table') /\ relayRows(rows)' = relayRows(rows')
  BY DEF relayRows, replaces
<1> HIDE DEF ahead
<1>7. TableSays'
  <2>1. \A ip \in Ips \ unsure' :
          IF ip \in want.block THEN lasting(table', ip) ELSE adding(table', ip) = {}
    BY <1>4
  <2>2. "rs" \notin unsure' => Decides(table, Default, want.rs)'
    BY <1>1 DEF Decides, newest, relayRows, replaces
  <2> QED
    BY <2>1, <2>2 DEF TableSays, lasting, adding, removing, adds, removes, single, items, replaces
<1>8. LiveSays'
  <2>1. "rs" \notin unsure' \cup gone' => Decides(Ahead, live.rs, want.rs)'
    BY <1>2, <1>5 DEF Decides, newest, relayRows, replaces
  <2>2. \A ip \in Ips \ unsure' :
            IF ip \in want'.block THEN ip \in gone' \/ LeavesIn(Ahead, live.block, ip)'
            ELSE LeavesOut(Ahead, live.block, ip)'
    <3>1. \A ip \in Ips \ unsure' :
            IF ip \in want.block THEN ip \in gone' \/ LeavesIn(ahead, live.block, ip)
            ELSE LeavesOut(ahead, live.block, ip)
      BY <1>4
    <3> QED
      BY <1>5, <3>1 DEF LeavesIn, LeavesOut, lasting, adding, removing, adds, removes, single, items,
                        replaces
  <2>3. replay' = "wait" => gone' = {}
    BY <1>0 DEF LiveSays
  <2> QED
    BY <1>3, <1>6, <2>1, <2>2, <2>3 DEF LiveSays
<1> QED
  BY <1>7, <1>8

\* A command that was stored: what it has made certain it shows.
LEMMA StoredSettles ==
    ASSUME CommandsInv, NEW r \in Requests, pc[r] \in {"persist", "create"}, stored(r),
           cmd[r].name = "blocklist-add" => \E row \in table' : row.cmd = cmd[r],
           cmd[r].name = "blocklist-remove" =>
               \A row \in table' : row.cmd # [name |-> "blocklist-add", opt |-> cmd[r].opt]
    PROVE  \E sure : /\ sure \subseteq items(cmd[r])
                     /\ unsure' = unsure \ sure /\ gone' = gone \ sure
                     /\ unsure' = unsure \/ (clean[r] /\ \E x : x \subseteq items(cmd[r]) /\ unsure' = unsure \ x)
                     /\ "rs" \in sure => replaces(cmd[r]) /\ cmd[r].opt = {live.rs} /\ cmd[r].opt = {want.rs}
                     /\ \A ip \in Ips \cap sure :
                            IF ip \in want.block THEN lasting(table', ip) /\ ip \in live.block
                            ELSE adding(table', ip) = {} /\ ip \notin live.block
                     /\ sure # {} => (replay # "wait" => rows = {})
<1> DEFINE c == cmd[r]
           sure == IF clean[r] THEN settled(c, table') ELSE {}
<1>0. CommandsTypeOK /\ RowsOrdered /\ CommandsAlone /\ CommandsApplied
  BY DEF CommandsInv
<1>1. unsure' = unsure \ sure /\ gone' = gone \ sure
  BY DEF stored
<1>2. c \in Command
  BY <1>0 DEF CommandsAlone
<1>3. clean[r] => replay # "run" /\ Shows(live, c) /\ Shows(want, c)
  BY <1>0 DEF CommandsAlone, CommandsApplied
<1>4. sure \subseteq items(c)
  BY DEF settled
<1>5. \A i \in sure :
        /\ clean[r]
        /\ \/ replaces(c)
           \/ c.name = "blocklist-remove" /\ adding(table', i) = {}
           \/ c.name = "blocklist-add" /\ lasting(table', i)
  <2> SUFFICES ASSUME NEW i \in sure, ~replaces(c)
               PROVE  \/ c.name = "blocklist-remove" /\ adding(table', i) = {}
                      \/ c.name = "blocklist-add" /\ lasting(table', i)
    OBVIOUS
  <2>1. /\ i \in items(c)
        /\ \/ /\ c.name = "blocklist-remove"
              /\ \A row \in adding(table', i) : row.cmd = [name |-> "blocklist-add", opt |-> c.opt]
           \/ c.name = "blocklist-add" /\ (removing(table', i) = {} \/ lasting(table', i))
    BY DEF settled
  <2>2. CASE c.name = "blocklist-remove"
    BY <2>1, <2>2 DEF adding
  <2>3. CASE c.name = "blocklist-add"
    <3>1. adds(c) /\ ~single(c)
      BY <2>3 DEF adds, single
    <3>2. i \in c.opt
      BY <1>2, <2>1, <3>1, ItemsOf
    <3>3. PICK row \in table' : row.cmd = c
      BY <2>3
    <3>4. row \in adding(table', i)
      BY <3>1, <3>2, <3>3 DEF adding
    <3> QED
      BY <2>1, <2>3, <3>1, <3>3, <3>4 DEF lasting
  <2> QED
    BY <2>1, <2>2, <2>3
<1>6. sure # {} => clean[r]
  OBVIOUS
<1> HIDE DEF sure, c
<1>7. "rs" \in sure => replaces(c) /\ c.opt = {live.rs} /\ c.opt = {want.rs}
  BY <1>2, <1>3, <1>4, <1>6, ItemsOf DEF Shows
<1>8. ASSUME NEW ip \in Ips \cap sure
      PROVE  IF ip \in want.block THEN lasting(table', ip) /\ ip \in live.block
             ELSE adding(table', ip) = {} /\ ip \notin live.block
  <2>1. clean[r] /\ ip \in items(c) /\ ~replaces(c)
    BY <1>2, <1>4, <1>5, <1>8, ItemsOf, CommandsAssumption
  <2>2. CASE c.name = "blocklist-remove" /\ adding(table', ip) = {}
    <3>1. removes(c)
      BY <2>2 DEF removes
    <3> QED
      BY <1>3, <2>1, <2>2, <3>1 DEF Shows
  <2>3. CASE c.name = "blocklist-add" /\ lasting(table', ip)
    <3>1. adds(c)
      BY <2>3 DEF adds
    <3>2. ip \in c.opt
      BY <1>2, <2>1, <3>1, ItemsOf
    <3> QED
      BY <1>3, <2>1, <2>3, <3>1, <3>2 DEF Shows
  <2> QED
    BY <1>5, <1>8, <2>1, <2>2, <2>3
<1>9. sure # {} => (replay # "wait" => rows = {})
  BY <1>0, <1>3, <1>6 DEF RowsOrdered
<1>10. unsure' = unsure \/ (clean[r] /\ \E x : x \subseteq items(c) /\ unsure' = unsure \ x)
  BY <1>1, <1>4, <1>6
<1> QED
  BY <1>1, <1>4, <1>7, <1>8, <1>9, <1>10 DEF c

\* The rows a request's first statement deletes are about its settings only,
\* or rows of an alias.
LEMMA PersistCmdKeeps ==
    ASSUME CommandsInv, NEW r \in Requests, PersistCmd(r)
    PROVE  CommandsInv'
<1> DEFINE c == cmd[r]
           known == c.name = "blocklist-add" /\ \E row \in table : row.cmd = c
           goes(d) == IF single(c) THEN d.name = c.name
                      ELSE c.name = "blocklist-remove" /\ d.name = "blocklist-add" /\ d.opt = c.opt
           ended == c.name = "blocklist-remove" \/ known
<1>0. CommandsTypeOK /\ RowsOrdered /\ CommandsAlone /\ CommandsApplied
  BY DEF CommandsInv
<1>1. /\ pc[r] = "persist"
      /\ table' = {row \in table : ~goes(row.cmd)}
      /\ IF ended THEN stored(r) ELSE goesTo(r, "create") /\ UNCHANGED <<unsure, gone>>
      /\ UNCHANGED <<live, lastId, replay, rows, sends, want>>
  BY DEF PersistCmd
<1>2. c \in Command /\ items(c) \subseteq unsure
  BY <1>0, <1>1 DEF CommandsAlone
<1> HIDE DEF CommandsInv, ended
<1>3. PICK sure :
        /\ sure \subseteq items(c)
        /\ unsure' = unsure \ sure /\ gone' = gone \ sure
        /\ unsure' = unsure \/ (clean[r] /\ \E x : x \subseteq items(cmd[r]) /\ unsure' = unsure \ x)
        /\ "rs" \in sure => replaces(c) /\ ended
        /\ \A ip \in Ips \cap sure :
               IF ip \in want.block THEN lasting(table', ip) /\ ip \in live.block
               ELSE adding(table', ip) = {} /\ ip \notin live.block
        /\ sure # {} => (replay # "wait" => rows = {})
  <2>1. CASE ended
    <3>1. c.name = "blocklist-add" => \E row \in table' : row.cmd = c
      BY <1>1, <2>1 DEF ended, single
    <3>2. c.name = "blocklist-remove" =>
              \A row \in table' : row.cmd # [name |-> "blocklist-add", opt |-> c.opt]
      BY <1>1 DEF single
    <3> QED
      BY <1>1, <2>1, <3>1, <3>2, StoredSettles
  <2>2. CASE ~ended
    <3> WITNESS {}
    <3> QED
      BY <1>1, <2>2
  <2> QED
    BY <2>1, <2>2
<1>4. "rs" \notin sure
  <2>1. replaces(c) => ~ended
    BY DEF replaces, ended
  <2> QED
    BY <1>3, <2>1
<1> DEFINE p == IF ended THEN "idle" ELSE "create"
<1>5. /\ p \in {"idle", "create"}
      /\ (p # "idle" /\ goesTo(r, p) /\ unsure' = unsure) \/ (p = "idle" /\ ends(r))
      /\ p = "create" => cmd[r].name # "blocklist-remove"
  BY <1>1 DEF stored, ended
<1> HIDE DEF c, known, goes, p
<1>6. /\ pc' \in [Requests -> {"idle", "v4", "persist", "create"}]
      /\ cmd' \in [Requests -> Command \cup {NoCommand}]
      /\ clean' \in [Requests -> BOOLEAN]
      /\ \A q \in Requests \ {r} : pc'[q] = pc[q] /\ cmd'[q] = cmd[q] /\ clean'[q] = clean[q]
      /\ pc'[r] = p
      /\ p # "idle" => cmd'[r] = cmd[r] /\ clean'[r] = clean[r]
      /\ CommandsAlone'
  BY <1>1, <1>3, <1>5, RequestMoves
<1>7. CommandsTypeOK'
  BY <1>0, <1>1, <1>3, <1>6 DEF CommandsTypeOK
<1>8. RowsOrdered'
  BY <1>0, <1>1 DEF RowsOrdered
<1>9. CommandsApplied'
  BY <1>1, <1>5, <1>6, RequestMovesApplied
<1>10. ASSUME "rs" \notin unsure'
       PROVE  "rs" \notin unsure /\ relayRows(table') = relayRows(table) /\ ("rs" \in gone => "rs" \in gone')
  <2>1. "rs" \notin unsure
    BY <1>3, <1>4, <1>10
  <2>2. ~replaces(c)
    BY <1>2, <2>1, ItemsOf
  <2>3. \A row \in table : replaces(row.cmd) => ~goes(row.cmd)
    BY <2>2 DEF goes, replaces, single
  <2> QED
    BY <1>1, <1>3, <1>4, <2>1, <2>3 DEF relayRows
<1>11. ASSUME NEW ip \in Ips \ unsure'
       PROVE  \/ /\ ip \notin unsure /\ (ip \in gone => ip \in gone')
                 /\ lasting(table, ip) => lasting(table', ip)
                 /\ adding(table', ip) \subseteq adding(table, ip)
                 /\ removing(table', ip) \subseteq removing(table, ip)
              \/ /\ replay # "wait" => rows = {}
                 /\ IF ip \in want.block THEN lasting(table', ip) /\ ip \in live.block
                    ELSE adding(table', ip) = {} /\ ip \notin live.block
  <2>1. CASE ip \in sure
    BY <1>3, <1>11, <2>1
  <2>2. CASE ip \notin sure
    <3>1. ip \notin unsure /\ ip \notin items(c) /\ (ip \in gone => ip \in gone')
      BY <1>2, <1>3, <1>11, <2>2
    <3>2. table' \subseteq table
      BY <1>1
    <3>3. adding(table', ip) \subseteq adding(table, ip) /\ removing(table', ip) \subseteq removing(table, ip)
      BY <3>2 DEF adding, removing
    <3>4. ASSUME NEW row \in adding(table, ip), ~single(row.cmd)
          PROVE  row \in adding(table', ip)
      <4>1. row \in table /\ adds(row.cmd) /\ ip \in row.cmd.opt
        BY <3>4 DEF adding
      <4>2. ~goes(row.cmd)
        <5>1. CASE single(c)
          BY <3>4, <5>1 DEF goes, single
        <5>2. CASE ~single(c) /\ c.name = "blocklist-remove"
          <6>1. ip \notin c.opt
            <7>1. removes(c) /\ items(c) \subseteq Ips
              BY <1>2, <5>2, ItemsOf DEF removes
            <7>2. ~replaces(c)
              BY <1>2, <7>1, ItemsOf
            <7> QED
              BY <1>11, <3>1, <7>2 DEF items
          <6> QED
            BY <4>1, <5>2, <6>1 DEF goes
        <5>3. CASE ~single(c) /\ c.name # "blocklist-remove"
          BY <5>3 DEF goes
        <5> QED
          BY <5>1, <5>2, <5>3
      <4> QED
        BY <1>1, <4>1, <4>2 DEF adding
    <3>5. lasting(table, ip) => lasting(table', ip)
      BY <3>3, <3>4 DEF lasting
    <3> QED
      BY <3>1, <3>3, <3>5
  <2> QED
    BY <2>1, <2>2
<1>12. TableSays' /\ LiveSays'
  <2>1. gone' \subseteq gone
    BY <1>3
  <2> QED
    BY <1>1, <1>10, <1>11, <2>1, SaysAgain
<1> QED
  BY <1>6, <1>7, <1>8, <1>9, <1>12 DEF CommandsInv

LEMMA CreateRowKeeps ==
    ASSUME CommandsInv, NEW r \in Requests, CreateRow(r)
    PROVE  CommandsInv'
<1> DEFINE c == cmd[r]
           new == [id |-> lastId + 1, cmd |-> c]
<1>0. CommandsTypeOK /\ RowsOrdered /\ CommandsAlone /\ CommandsApplied
  BY DEF CommandsInv
<1>1. /\ pc[r] = "create"
      /\ lastId' = lastId + 1
      /\ table' = table \cup {new}
      /\ stored(r)
      /\ UNCHANGED <<live, replay, rows, sends, want>>
  BY DEF CreateRow
<1>2. c \in Command /\ items(c) \subseteq unsure
  BY <1>0, <1>1 DEF CommandsAlone
<1> HIDE DEF CommandsInv
<1>3. PICK sure :
        /\ sure \subseteq items(c)
        /\ unsure' = unsure \ sure /\ gone' = gone \ sure
        /\ unsure' = unsure \/ (clean[r] /\ \E x : x \subseteq items(cmd[r]) /\ unsure' = unsure \ x)
        /\ "rs" \in sure => replaces(c) /\ c.opt = {live.rs} /\ c.opt = {want.rs}
        /\ \A ip \in Ips \cap sure :
               IF ip \in want.block THEN lasting(table', ip) /\ ip \in live.block
               ELSE adding(table', ip) = {} /\ ip \notin live.block
        /\ sure # {} => (replay # "wait" => rows = {})
  <2>1. c.name # "blocklist-remove"
    BY <1>0, <1>1 DEF CommandsAlone
  <2>2. new \in table' /\ new.cmd = c
    BY <1>1
  <2> QED
    BY <1>1, <2>1, <2>2, StoredSettles
<1>4. ends(r)
  BY <1>1 DEF stored
<1>5. new.id = lastId + 1 /\ new.cmd = c /\ lastId \in Nat /\ \A row \in table : row.id \in Nat
  BY <1>0 DEF CommandsTypeOK, Row
<1>6. new \in Row
  BY <1>2, <1>5 DEF Row
<1> HIDE DEF c, new
<1>7. /\ pc' \in [Requests -> {"idle", "v4", "persist", "create"}]
      /\ cmd' \in [Requests -> Command \cup {NoCommand}]
      /\ clean' \in [Requests -> BOOLEAN]
      /\ \A q \in Requests \ {r} : pc'[q] = pc[q] /\ cmd'[q] = cmd[q] /\ clean'[q] = clean[q]
      /\ pc'[r] = "idle"
      /\ CommandsAlone'
  BY <1>1, <1>3, <1>4, RequestMoves
<1>8. CommandsTypeOK'
  BY <1>0, <1>1, <1>3, <1>5, <1>6, <1>7 DEF CommandsTypeOK
<1>9. \A row \in table : row.id < new.id
  BY <1>0, <1>5 DEF RowsOrdered
<1>10. RowsOrdered'
  BY <1>0, <1>1, <1>5, <1>9 DEF RowsOrdered
<1>11. CommandsApplied'
  BY <1>1, <1>7, RequestMovesApplied
<1>12. ASSUME "rs" \notin unsure'
       PROVE  \/ "rs" \notin unsure /\ relayRows(table') = relayRows(table) /\ ("rs" \in gone => "rs" \in gone')
              \/ /\ relayRows(table') # {}
                 /\ \A d : Decides(table', d, want.rs)
                 /\ live.rs = want.rs
                 /\ replay # "wait" => rows = {}
  <2>1. CASE "rs" \in sure
    <3>1. newest(table', new) /\ new \in table'
      BY <1>1, <1>3, <1>5, <1>9, <2>1 DEF newest, relayRows
    <3>2. relayRows(table') # {} /\ \A d : Decides(table', d, want.rs)
      BY <1>3, <1>5, <2>1, <3>1 DEF Decides, newest
    <3>3. live.rs = want.rs
      BY <1>3, <2>1
    <3> QED
      BY <1>3, <2>1, <3>2, <3>3
  <2>2. CASE "rs" \notin sure
    <3>1. "rs" \notin unsure /\ ~replaces(c)
      BY <1>2, <1>3, <1>12, <2>2, ItemsOf
    <3>2. relayRows(table') = relayRows(table)
      BY <1>1, <1>5, <3>1 DEF relayRows
    <3> QED
      BY <1>3, <2>2, <3>1, <3>2
  <2> QED
    BY <2>1, <2>2
<1>13. ASSUME NEW ip \in Ips \ unsure'
       PROVE  \/ /\ ip \notin unsure /\ (ip \in gone => ip \in gone')
                 /\ lasting(table, ip) => lasting(table', ip)
                 /\ adding(table', ip) \subseteq adding(table, ip)
                 /\ removing(table', ip) \subseteq removing(table, ip)
              \/ /\ replay # "wait" => rows = {}
                 /\ IF ip \in want.block THEN lasting(table', ip) /\ ip \in live.block
                    ELSE adding(table', ip) = {} /\ ip \notin live.block
  <2>1. CASE ip \in sure
    BY <1>3, <1>13, <2>1
  <2>2. CASE ip \notin sure
    <3>1. ip \notin unsure /\ ip \notin items(c) /\ (ip \in gone => ip \in gone')
      BY <1>2, <1>3, <1>13, <2>2
    <3>2. ~(adds(c) /\ ip \in c.opt)
      BY <1>2, <3>1, ItemsOf
    <3>3. adding(table', ip) = adding(table, ip)
      BY <1>1, <1>5, <3>2 DEF adding
    <3>4. removing(table', ip) = removing(table, ip)
      BY <1>1, <1>5, <3>1 DEF removing
    <3> QED
      BY <3>1, <3>3, <3>4 DEF lasting
  <2> QED
    BY <2>1, <2>2
<1>14. TableSays' /\ LiveSays'
  <2>1. gone' \subseteq gone
    BY <1>3
  <2> QED
    BY <1>1, <1>12, <1>13, <2>1, SaysAgain
<1> QED
  BY <1>7, <1>8, <1>10, <1>11, <1>14 DEF CommandsInv

\* What falls back stays a settings record.
LEMMA FallBackOf ==
    ASSUME CommandsTypeOK, NEW lost \in Losses, fallBack(lost)
    PROVE  /\ live' \in Settings
           /\ live'.rs \in {live.rs, Default}
           /\ "rs" \notin lost => live'.rs = live.rs
           /\ "rs" \in lost => live'.rs = Default
           /\ live'.block = live.block \ lost
           /\ lost \subseteq Ips \cup {"rs"}
<1>1. live \in Settings
  BY DEF CommandsTypeOK
<1>2. live' = [rs    |-> IF "rs" \in lost THEN Default ELSE live.rs,
               block |-> live.block \ lost]
  BY DEF fallBack
<1>3. lost \subseteq Ips \cup {"rs"}
  BY DEF Losses
<1> QED
  BY <1>1, <1>2, <1>3 DEF Settings

LEMMA ServerExitsKeeps ==
    ASSUME CommandsInv, NEW lost \in Losses, ServerExits(lost)
    PROVE  CommandsInv'
<1>0. CommandsTypeOK /\ RowsOrdered /\ CommandsAlone /\ CommandsApplied /\ TableSays /\ LiveSays
  BY DEF CommandsInv
<1>1. /\ fallBack(lost)
      /\ gone' = IF replay = "wait" THEN gone ELSE gone \cup lost
      /\ clean' = [r \in Requests |-> clean[r] /\ items(cmd[r]) \cap lost = {}]
      /\ UNCHANGED <<table, lastId, pc, cmd, replay, rows, sends, want, unsure>>
  BY DEF ServerExits
<1>2. /\ live' \in Settings /\ live'.rs \in {live.rs, Default}
      /\ "rs" \notin lost => live'.rs = live.rs
      /\ "rs" \in lost => live'.rs = Default
      /\ live'.block = live.block \ lost
      /\ lost \subseteq Ips \cup {"rs"}
  BY <1>0, <1>1, FallBackOf
<1>3. CommandsTypeOK'
  BY <1>0, <1>1, <1>2 DEF CommandsTypeOK
<1>4. RowsOrdered'
  BY <1>0, <1>1 DEF RowsOrdered
<1>5. \A r \in Requests : clean'[r] => clean[r] /\ items(cmd[r]) \cap lost = {}
  BY <1>0, <1>1 DEF CommandsTypeOK
<1>6. CommandsAlone'
  BY <1>0, <1>1, <1>5 DEF CommandsAlone, items, replaces
<1>7. CommandsApplied'
  <2> SUFFICES ASSUME NEW r \in Requests, pc[r] \in {"persist", "create"}, clean'[r]
               PROVE  Shows(live', cmd[r]) /\ Shows(want, cmd[r])
    BY <1>1 DEF CommandsApplied, Shows, items, replaces, adds, removes
  <2>1. Shows(live, cmd[r]) /\ Shows(want, cmd[r]) /\ cmd[r] \in Command
    BY <1>0, <1>5 DEF CommandsApplied, CommandsAlone
  <2>2. live \in Settings
    BY <1>0 DEF CommandsTypeOK
  <2> QED
    BY <1>2, <1>5, <2>1, <2>2, ShowsKept
<1>8. Ahead' = Ahead
  BY <1>1 DEF Ahead
<1>9. CASE replay # "wait"
  <2>1. TableSays' /\ LiveSays'
    <3>1. "rs" \notin unsure' => /\ want'.rs = want.rs
                                 /\ "rs" \notin gone' => live'.rs = live.rs
                                 /\ live'.rs \in {live.rs, Default}
      BY <1>1, <1>2, <1>9
    <3>2. \A ip \in Ips \ unsure' :
            /\ ip \in want'.block <=> ip \in want.block
            /\ ip \in live'.block => ip \in live.block
            /\ ip \in live.block => ip \in live'.block \/ ip \in gone'
      BY <1>1, <1>2, <1>9
    <3>3. relayRows(rows') = relayRows(rows)
      BY <1>1
    <3> QED
      BY <1>1, <1>8, <1>9, <3>1, <3>2, <3>3, SameRowsSay
  <2> QED
    BY <1>3, <1>4, <1>6, <1>7, <2>1 DEF CommandsInv
<1>10. CASE replay = "wait"
  <2>1. gone' = {} /\ gone = {} /\ Ahead = table
    BY <1>0, <1>1, <1>10 DEF LiveSays, Ahead
  <2>2. TableSays'
    BY <1>0, <1>1 DEF TableSays, Decides, newest, relayRows, lasting, adding, removing, adds, removes,
                      single, items, replaces
  <2>3. "rs" \notin unsure => Decides(table, live'.rs, want.rs)
    <3> SUFFICES ASSUME "rs" \notin unsure PROVE Decides(table, live'.rs, want.rs)
      OBVIOUS
    <3>1. Decides(table, Default, want.rs) /\ Decides(table, live.rs, want.rs)
      BY <1>0, <2>1 DEF TableSays, LiveSays
    <3> QED
      BY <1>2, <3>1
  <2>4. \A ip \in Ips \ unsure :
          IF ip \in want.block THEN LeavesIn(table, live'.block, ip)
          ELSE LeavesOut(table, live'.block, ip)
    BY <1>0, <1>2, <2>1 DEF TableSays, LiveSays, LeavesIn, LeavesOut
  <2>5. LiveSays'
    <3>1. "rs" \notin unsure' \cup gone' => Decides(Ahead, live.rs, want.rs)'
      BY <1>1, <1>8, <2>1, <2>3 DEF Decides, newest, relayRows, replaces
    <3>2. ("rs" \notin unsure' /\ relayRows(table)' = {}) => live'.rs = Default /\ relayRows(rows)' = {}
      BY <1>0, <1>1, <1>2 DEF LiveSays, relayRows, replaces
    <3>3. \A ip \in Ips \ unsure' :
            IF ip \in want'.block THEN LeavesIn(Ahead, live.block, ip)'
            ELSE LeavesOut(Ahead, live.block, ip)'
      BY <1>1, <1>8, <2>1, <2>4 DEF LeavesIn, LeavesOut, lasting, adding, removing, adds, removes,
                                   single, items, replaces
    <3> QED
      BY <2>1, <3>1, <3>2, <3>3 DEF LiveSays
  <2> QED
    BY <1>3, <1>4, <1>6, <1>7, <2>2, <2>5 DEF CommandsInv
<1> QED
  BY <1>9, <1>10

\* A restart of the API puts the whole table ahead again.
LEMMA RestartKeeps ==
    ASSUME CommandsInv, NEW lost \in Losses, Restart(lost)
    PROVE  CommandsInv'
<1>0. CommandsTypeOK /\ RowsOrdered /\ TableSays /\ LiveSays
  BY DEF CommandsInv
<1>1. /\ fallBack(lost)
      /\ gone' = {}
      /\ pc' = [r \in Requests |-> "idle"]
      /\ cmd' = [r \in Requests |-> NoCommand]
      /\ replay' = "wait"
      /\ rows' = {}
      /\ clean' = [r \in Requests |-> FALSE]
      /\ UNCHANGED <<table, lastId, sends, want, unsure>>
  BY DEF Restart
<1>2. /\ live' \in Settings /\ live'.rs \in {live.rs, Default}
      /\ live'.block = live.block \ lost
  BY <1>0, <1>1, FallBackOf
<1>3. CommandsTypeOK'
  BY <1>0, <1>1, <1>2 DEF CommandsTypeOK
<1>4. RowsOrdered'
  BY <1>0, <1>1 DEF RowsOrdered
<1>5. CommandsAlone' /\ CommandsApplied'
  BY <1>1 DEF CommandsAlone, CommandsApplied
<1>6. TableSays'
  BY <1>0, <1>1 DEF TableSays, Decides, newest, relayRows, lasting, adding, removing, adds, removes,
                    single, items, replaces
<1>7. Ahead' = table
  BY <1>1 DEF Ahead
<1>8. "rs" \notin unsure => Decides(table, live'.rs, want.rs)
  <2> SUFFICES ASSUME "rs" \notin unsure PROVE Decides(table, live'.rs, want.rs)
    OBVIOUS
  <2>1. Decides(table, Default, want.rs)
    BY <1>0 DEF TableSays
  <2>2. CASE relayRows(table) = {}
    BY <1>0, <1>2, <2>1, <2>2 DEF LiveSays
  <2>3. CASE relayRows(table) # {}
    BY <2>1, <2>3 DEF Decides
  <2> QED
    BY <2>2, <2>3
<1>9. \A ip \in Ips \ unsure :
        IF ip \in want.block THEN LeavesIn(table, live'.block, ip)
        ELSE LeavesOut(table, live'.block, ip)
  BY <1>0, <1>2 DEF TableSays, LiveSays, LeavesIn, LeavesOut
<1>10. LiveSays'
  <2>1. "rs" \notin unsure' => Decides(Ahead, live.rs, want.rs)'
    BY <1>1, <1>7, <1>8 DEF Decides, newest, relayRows, replaces
  <2>2. ("rs" \notin unsure' /\ relayRows(table)' = {}) => live'.rs = Default /\ relayRows(rows)' = {}
    BY <1>0, <1>1, <1>2 DEF LiveSays, relayRows, replaces
  <2>3. \A ip \in Ips \ unsure' :
          IF ip \in want'.block THEN LeavesIn(Ahead, live.block, ip)'
          ELSE LeavesOut(Ahead, live.block, ip)'
    BY <1>1, <1>7, <1>9 DEF LeavesIn, LeavesOut, lasting, adding, removing, adds, removes, single,
                            items, replaces
  <2> QED
    BY <1>1, <2>1, <2>2, <2>3 DEF LiveSays
<1> QED
  BY <1>3, <1>4, <1>5, <1>6, <1>10 DEF CommandsInv

LEMMA ReplayServerCmdsKeeps ==
    ASSUME CommandsInv, ReplayServerCmds
    PROVE  CommandsInv'
<1>0. CommandsTypeOK /\ RowsOrdered /\ CommandsAlone /\ TableSays /\ LiveSays
  BY DEF CommandsInv
<1>1. /\ replay = "wait" /\ replay' = "run" /\ rows' = table
      /\ clean' = [r \in Requests |-> FALSE]
      /\ UNCHANGED <<live, table, lastId, pc, cmd, sends, want, unsure, gone>>
  BY DEF ReplayServerCmds
<1>2. CommandsTypeOK'
  BY <1>0, <1>1 DEF CommandsTypeOK
<1>3. RowsOrdered'
  BY <1>0, <1>1 DEF RowsOrdered
<1>4. CommandsAlone' /\ CommandsApplied'
  BY <1>0, <1>1 DEF CommandsAlone, CommandsApplied, items, replaces
<1>5. Ahead' = Ahead
  BY <1>1 DEF Ahead
<1>6. TableSays'
  BY <1>0, <1>1 DEF TableSays, Decides, newest, relayRows, lasting, adding, removing, adds, removes,
                    single, items, replaces
<1>7. LiveSays'
  <2>1. "rs" \notin unsure' \cup gone' => Decides(Ahead, live.rs, want.rs)'
    BY <1>0, <1>1, <1>5 DEF LiveSays, Decides, newest, relayRows, replaces
  <2>2. ("rs" \notin unsure' /\ relayRows(table)' = {}) => live'.rs = Default /\ relayRows(rows)' = {}
    BY <1>0, <1>1 DEF LiveSays, relayRows, replaces
  <2>3. \A ip \in Ips \ unsure' :
          IF ip \in want'.block THEN ip \in gone' \/ LeavesIn(Ahead, live.block, ip)'
          ELSE LeavesOut(Ahead, live.block, ip)'
    BY <1>0, <1>1, <1>5 DEF LiveSays, LeavesIn, LeavesOut, lasting, adding, removing, adds, removes,
                            single, items, replaces
  <2> QED
    BY <1>1, <2>1, <2>2, <2>3 DEF LiveSays
<1> QED
  BY <1>2, <1>3, <1>4, <1>6, <1>7 DEF CommandsInv

LEMMA ReplayDoneKeeps ==
    ASSUME CommandsInv, ReplayDone
    PROVE  CommandsInv'
<1>0. CommandsTypeOK /\ RowsOrdered /\ CommandsAlone /\ CommandsApplied /\ TableSays /\ LiveSays
  BY DEF CommandsInv
<1>1. /\ replay = "run" /\ rows = {} /\ replay' = "off"
      /\ UNCHANGED <<live, table, lastId, pc, cmd, rows, sends, want, unsure, gone, clean>>
  BY DEF ReplayDone
<1>2. CommandsTypeOK'
  BY <1>0, <1>1 DEF CommandsTypeOK
<1>3. RowsOrdered'
  BY <1>0, <1>1 DEF RowsOrdered
<1>4. CommandsAlone' /\ CommandsApplied'
  BY <1>0, <1>1 DEF CommandsAlone, CommandsApplied, Shows, items, replaces, adds, removes
<1>5. Ahead' = Ahead /\ relayRows(rows') = relayRows(rows)
  BY <1>1 DEF Ahead, relayRows
<1>6. TableSays' /\ LiveSays'
  BY <1>1, <1>5, SameRowsSay
<1> QED
  BY <1>2, <1>3, <1>4, <1>6 DEF CommandsInv

\* The rows are sent in the order of their ids, so the newest one is last.
LEMMA ReplayRowKeeps ==
    ASSUME CommandsInv, NEW row \in rows, NEW ok \in BOOLEAN, ReplayRow(row, ok)
    PROVE  CommandsInv'
<1> DEFINE c == row.cmd
<1>0. CommandsTypeOK /\ RowsOrdered /\ CommandsAlone /\ TableSays /\ LiveSays
  BY DEF CommandsInv
<1>1. /\ replay = "run"
      /\ \A other \in rows : row.id <= other.id
      /\ rows' = rows \ {row}
      /\ live' = IF ok THEN apply(live, c) ELSE live
      /\ unsure' = IF ok THEN unsure ELSE unsure \cup items(c)
      /\ UNCHANGED <<table, lastId, pc, cmd, replay, sends, want, gone, clean>>
  BY DEF ReplayRow
<1>2. c \in Command /\ live \in Settings
  BY <1>0 DEF CommandsTypeOK, Row
<1>3. \A x \in rows : x.id \in Nat
  BY <1>0 DEF CommandsTypeOK, Row
<1>4. Ahead = rows /\ Ahead' = rows'
  BY <1>1 DEF Ahead
<1> HIDE DEF c
<1>5. live' \in Settings
  BY <1>1, <1>2, ApplyOf
<1>6. CommandsTypeOK'
  BY <1>0, <1>1, <1>2, <1>5, ItemsOf DEF CommandsTypeOK
<1>7. RowsOrdered'
  BY <1>0, <1>1 DEF RowsOrdered
<1>8. \A r \in Requests : pc[r] # "idle" => ~clean[r]
  BY <1>0, <1>1 DEF CommandsAlone
<1>9. CommandsAlone'
  <2>1. unsure \subseteq unsure'
    BY <1>1
  <2> QED
    BY <1>0, <1>1, <1>8, <2>1 DEF CommandsAlone, items, replaces
<1>10. CommandsApplied'
  BY <1>1, <1>8 DEF CommandsApplied
<1>11. TableSays'
  BY <1>0, <1>1 DEF TableSays, Decides, newest, relayRows, lasting, adding, removing, adds, removes,
                    single, items, replaces
<1>12. "rs" \notin unsure' \cup gone => Decides(rows', live'.rs, want.rs)
  <2> SUFFICES ASSUME "rs" \notin unsure' \cup gone PROVE Decides(rows', live'.rs, want.rs)
    OBVIOUS
  <2>1. Decides(rows, live.rs, want.rs)
    BY <1>0, <1>1, <1>4 DEF LiveSays
  <2>2. CASE ~replaces(c)
    <3>1. "rs" \notin items(c)
      BY <1>2, <2>2, ItemsOf
    <3>2. live'.rs = live.rs
      BY <1>1, <1>2, <3>1, ApplyOf
    <3>3. relayRows(rows') = relayRows(rows)
      BY <1>1, <2>2 DEF relayRows, c
    <3> QED
      BY <2>1, <3>2, <3>3, SaysKept
  <2>3. CASE replaces(c)
    <3>1. ok
      BY <1>1, <1>2, <2>3, ItemsOf
    <3>2. c.opt = {live'.rs}
      BY <1>1, <1>2, <2>3, <3>1, ApplyOf DEF Shows
    <3>3. row \in relayRows(rows)
      BY <2>3 DEF relayRows, c
    <3>4. PICK top \in rows : newest(rows, top) /\ top.cmd.opt = {want.rs}
      BY <2>1, <3>3 DEF Decides
    <3>5. CASE top = row
      <4>1. live'.rs = want.rs
        BY <3>2, <3>4, <3>5 DEF c
      <4>2. relayRows(rows') = {}
        <5> SUFFICES ASSUME NEW x \in rows, x # row, replaces(x.cmd) PROVE FALSE
          BY <1>1 DEF relayRows
        <5>1. x.id <= row.id /\ row.id <= x.id
          BY <1>1, <3>4, <3>5 DEF newest, relayRows
        <5>2. x.id = row.id
          BY <1>3, <5>1
        <5> QED
          BY <1>0, <5>2 DEF RowsOrdered
      <4> QED
        BY <4>1, <4>2 DEF Decides
    <3>6. CASE top # row
      <4>1. newest(rows', top) /\ top \in rows'
        BY <1>1, <3>4, <3>6 DEF newest, relayRows
      <4>2. relayRows(rows') # {}
        BY <4>1 DEF newest
      <4> QED
        BY <3>4, <4>1, <4>2 DEF Decides
    <3> QED
      BY <3>5, <3>6
  <2> QED
    BY <2>2, <2>3
<1>13. ASSUME "rs" \notin unsure', relayRows(table) = {}
       PROVE  live'.rs = Default /\ relayRows(rows') = {}
  <2>1. live.rs = Default /\ relayRows(rows) = {}
    BY <1>0, <1>1, <1>13 DEF LiveSays
  <2>2. ~replaces(c)
    BY <2>1 DEF relayRows, c
  <2>3. live'.rs = live.rs
    BY <1>1, <1>2, <2>2, ApplyOf, ItemsOf
  <2> QED
    BY <1>1, <2>1, <2>3 DEF relayRows
<1>14. ASSUME NEW ip \in Ips \ unsure'
       PROVE  IF ip \in want.block THEN ip \in gone \/ LeavesIn(rows', live'.block, ip)
              ELSE LeavesOut(rows', live'.block, ip)
  <2>0. IF ip \in want.block THEN ip \in gone \/ LeavesIn(rows, live.block, ip)
        ELSE LeavesOut(rows, live.block, ip)
    BY <1>0, <1>1, <1>4, <1>14 DEF LiveSays
  <2>1. /\ adding(rows', ip) = adding(rows, ip) \ {row}
        /\ removing(rows', ip) = removing(rows, ip) \ {row}
    BY <1>1 DEF adding, removing
  <2>2. CASE ip \notin items(c)
    <3>1. ip \in live'.block <=> ip \in live.block
      BY <1>1, <1>2, <2>2, ApplyOf
    <3>2. row \notin adding(rows, ip) /\ row \notin removing(rows, ip)
      BY <1>2, <2>2, ItemsOf DEF adding, removing, c
    <3>3. adding(rows', ip) = adding(rows, ip) /\ removing(rows', ip) = removing(rows, ip)
      BY <2>1, <3>2
    <3> QED
      BY <2>0, <3>1, <3>3 DEF LeavesIn, LeavesOut, lasting
  <2>3. CASE ip \in items(c) /\ adds(c)
    <3>1. ok /\ ip \in c.opt
      BY <1>1, <1>2, <1>14, <2>3, ItemsOf
    <3>2. ip \in live'.block
      BY <1>1, <1>2, <2>3, <3>1, ApplyOf DEF Shows
    <3>3. row \in adding(rows, ip)
      BY <2>3, <3>1 DEF adding, c
    <3>4. ASSUME ip \in want.block, ip \notin gone
          PROVE  LeavesIn(rows', live'.block, ip)
      <4>1. CASE removing(rows, ip) = {}
        BY <2>1, <3>2, <4>1 DEF LeavesIn
      <4>2. CASE removing(rows, ip) # {}
        <5>1. PICK a \in adding(rows, ip) :
                ~single(a.cmd) /\ \A other \in removing(rows, ip) : other.id < a.id
          BY <2>0, <3>4, <4>2 DEF LeavesIn, lasting
        <5>2. PICK b \in removing(rows, ip) : TRUE
          BY <4>2
        <5>3. a # row
          <6>1. row.id <= b.id /\ b.id < a.id /\ b.id \in Nat /\ a.id \in Nat /\ row.id \in Nat
            BY <1>1, <1>3, <5>1, <5>2 DEF removing, adding
          <6> QED
            BY <6>1
        <5> QED
          BY <2>1, <5>1, <5>3 DEF LeavesIn, lasting
      <4> QED
        BY <4>1, <4>2
    <3>5. ip \in want.block
      BY <2>0, <3>3 DEF LeavesOut
    <3> QED
      BY <3>4, <3>5
  <2>4. CASE ip \in items(c) /\ removes(c)
    <3>1. ok
      BY <1>1, <1>14, <2>4
    <3>2. ip \notin live'.block
      BY <1>1, <1>2, <2>4, <3>1, ApplyOf DEF Shows
    <3>3. row \in removing(rows, ip) /\ row \notin adding(rows, ip)
      BY <1>2, <2>4, ItemsOf DEF adding, removing, c
    <3> QED
      BY <2>0, <2>1, <3>2, <3>3 DEF LeavesIn, LeavesOut, lasting
  <2> QED
    BY <1>2, <1>14, <2>2, <2>3, <2>4, ItemsOf, CommandsAssumption
<1>15. LiveSays'
  <2>1. "rs" \notin unsure' \cup gone' => Decides(Ahead, live.rs, want.rs)'
    BY <1>1, <1>4, <1>12 DEF Decides, newest, relayRows, replaces
  <2>2. ("rs" \notin unsure' /\ relayRows(table)' = {}) => live'.rs = Default /\ relayRows(rows)' = {}
    BY <1>1, <1>13 DEF relayRows, replaces
  <2>3. \A ip \in Ips \ unsure' :
          IF ip \in want'.block THEN ip \in gone' \/ LeavesIn(Ahead, live.block, ip)'
          ELSE LeavesOut(Ahead, live.block, ip)'
    BY <1>1, <1>4, <1>14 DEF LeavesIn, LeavesOut, lasting, adding, removing, adds, removes, single,
                             items, replaces
  <2> QED
    BY <1>1, <2>1, <2>2, <2>3 DEF LiveSays
<1> QED
  BY <1>6, <1>7, <1>9, <1>10, <1>11, <1>15 DEF CommandsInv

LEMMA CommandsInitInv == CommandsInit => CommandsInv
<1> SUFFICES ASSUME CommandsInit PROVE CommandsInv
  OBVIOUS
<1>1. CommandsTypeOK
  BY CommandsAssumption DEF CommandsInit, CommandsTypeOK, Settings
<1>2. RowsOrdered
  BY DEF CommandsInit, RowsOrdered
<1>3. CommandsAlone /\ CommandsApplied
  BY DEF CommandsInit, CommandsAlone, CommandsApplied
<1>4. TableSays /\ LiveSays
  BY DEF CommandsInit, TableSays, LiveSays, Ahead, Decides, relayRows, adding, LeavesOut
<1> QED
  BY <1>1, <1>2, <1>3, <1>4 DEF CommandsInv

LEMMA CommandsStepInv == CommandsInv /\ [CommandsNext]_commandsVars => CommandsInv'
<1> SUFFICES ASSUME CommandsInv, [CommandsNext]_commandsVars PROVE CommandsInv'
  OBVIOUS
<1>1. ASSUME NEW r \in Requests, NEW c \in Command, NEW o \in Outcomes, SendCmd(r, c, o)
      PROVE  CommandsInv'
  BY <1>1, SendCmdKeeps
<1>2. ASSUME NEW r \in Requests, NEW o \in Outcomes, SendV4(r, o)
      PROVE  CommandsInv'
  BY <1>2, SendV4Keeps
<1>3. ASSUME NEW r \in Requests, PersistCmd(r) \/ CreateRow(r) \/ PersistFails(r)
      PROVE  CommandsInv'
  BY <1>3, PersistCmdKeeps, CreateRowKeeps, PersistFailsKeeps
<1>4. ASSUME NEW lost \in Losses, Restart(lost) \/ ServerExits(lost)
      PROVE  CommandsInv'
  BY <1>4, RestartKeeps, ServerExitsKeeps
<1>5. CASE ReplayServerCmds
  BY <1>5, ReplayServerCmdsKeeps
<1>6. ASSUME NEW row \in rows, NEW ok \in {TRUE, ~Faults}, ReplayRow(row, ok)
      PROVE  CommandsInv'
  BY <1>6, ReplayRowKeeps, CommandsAssumption
<1>7. CASE ReplayDone
  BY <1>7, ReplayDoneKeeps
<1>8. CASE UNCHANGED commandsVars
  <2>1. /\ UNCHANGED <<live, table, lastId, pc, cmd, replay, rows>>
        /\ UNCHANGED <<sends, want, unsure, gone, clean>>
    BY <1>8 DEF commandsVars
  <2>2. CommandsTypeOK' /\ RowsOrdered'
    BY <2>1 DEF CommandsInv, CommandsTypeOK, RowsOrdered
  <2>3. CommandsAlone' /\ CommandsApplied'
    BY <2>1 DEF CommandsInv, CommandsAlone, CommandsApplied, Shows
  <2>4. TableSays'
    BY <2>1 DEF CommandsInv, TableSays, Decides, newest, relayRows, lasting, adding, removing
  <2>5. LiveSays'
    BY <2>1 DEF CommandsInv, LiveSays, Ahead, Decides, newest, relayRows, LeavesIn, LeavesOut,
                lasting, adding, removing
  <2> QED
    BY <2>2, <2>3, <2>4, <2>5 DEF CommandsInv
<1> QED
  BY <1>1, <1>2, <1>3, <1>4, <1>5, <1>6, <1>7, <1>8 DEF CommandsNext

LEMMA CommandsKeepInv == CommandsSpec => []CommandsInv
BY CommandsInitInv, CommandsStepInv, PTL DEF CommandsSpec

\* Whatever commands, aliases, failed statements, exits, restarts and replays
\* come before or after: the servers have again what administrators last
\* applied once the API has started and its replay is over, for every setting
\* whose last command was sent under its full name, stored and ran alone
\* (SendCmd, PersistCmd and ReplayServerCmds).
THEOREM StoredSettingsSurvive == CommandsSpec => []SettingsSurvive
<1>1. CommandsInv => SettingsSurvive
  <2> SUFFICES ASSUME CommandsInv, Quiet PROVE Agree(live, want)
    BY DEF SettingsSurvive
  <2>1. CommandsTypeOK /\ RowsOrdered /\ LiveSays
    BY DEF CommandsInv
  <2>2. Ahead = {}
    BY <2>1 DEF Quiet, RowsOrdered, Ahead
  <2>3. "rs" \notin unsure \cup gone => live.rs = want.rs
    BY <2>1, <2>2 DEF LiveSays, Decides, relayRows
  <2>4. \A ip \in Ips \ (unsure \cup gone) : ip \in want.block <=> ip \in live.block
    BY <2>1, <2>2 DEF LiveSays, LeavesIn, LeavesOut, lasting, adding
  <2>5. live.block \subseteq Ips /\ want.block \subseteq Ips
    BY <2>1 DEF CommandsTypeOK, Settings
  <2> QED
    BY <2>3, <2>4, <2>5 DEF Agree
<1> QED
  BY <1>1, CommandsKeepInv, PTL

\* The table of server commands reflects these settings of the running
\* servers, so that a replay on fresh servers reproduces them (PersistCmd).
THEOREM TableReproduces == CommandsSpec => []ReplayReproduces
<1>1. CommandsInv => ReplayReproduces
  <2> SUFFICES ASSUME CommandsInv, Quiet PROVE Agree(Replayed, live)
    BY DEF ReplayReproduces
  <2>1. CommandsTypeOK /\ RowsOrdered /\ TableSays /\ LiveSays
    BY DEF CommandsInv
  <2>2. Ahead = {}
    BY <2>1 DEF Quiet, RowsOrdered, Ahead
  <2>3. ASSUME "rs" \notin unsure \cup gone PROVE Replayed.rs = live.rs
    <3>1. live.rs = want.rs /\ Decides(table, Default, want.rs)
      BY <2>1, <2>2, <2>3 DEF LiveSays, TableSays, Decides, relayRows
    <3>2. CASE relayRows(table) = {}
      BY <3>1, <3>2 DEF Replayed, Decides
    <3>3. CASE relayRows(table) # {}
      <4>1. PICK top \in table : newest(table, top) /\ top.cmd.opt = {want.rs}
        BY <3>1, <3>3 DEF Decides
      <4> DEFINE P(v) == \E row \in table : newest(table, row) /\ row.cmd.opt = {v}
      <4>2. want.rs \in Values
        <5>1. top.cmd \in Command /\ replaces(top.cmd)
          BY <2>1, <4>1 DEF CommandsTypeOK, Row, newest, relayRows
        <5>2. PICK v \in Values : top.cmd.opt = {v}
          BY <5>1, ItemsOf
        <5> QED
          BY <4>1, <5>2
      <4>3. \A v \in Values : P(v) => v = want.rs
        <5> SUFFICES ASSUME NEW v \in Values, NEW row \in table, newest(table, row),
                            row.cmd.opt = {v}
                     PROVE  v = want.rs
          OBVIOUS
        <5>1. row.id \in Nat /\ top.id \in Nat
          BY <2>1 DEF CommandsTypeOK, Row
        <5>2. row.id <= top.id /\ top.id <= row.id
          BY <4>1 DEF newest
        <5>3. row = top
          BY <2>1, <5>1, <5>2 DEF RowsOrdered
        <5> QED
          BY <4>1, <5>3
      <4>4. P(want.rs)
        BY <4>1
      <4>5. Replayed.rs = CHOOSE v \in Values : P(v)
        BY <3>3 DEF Replayed
      <4> HIDE DEF P
      <4>6. (CHOOSE v \in Values : P(v)) = want.rs
        BY <4>2, <4>3, <4>4
      <4> QED
        BY <3>1, <4>5, <4>6
    <3> QED
      BY <3>2, <3>3
  <2>4. \A ip : ip \in Replayed.block <=>
            ip \in Ips /\ \E row \in adding(table, ip) :
                              \A other \in removing(table, ip) : other.id < row.id
    BY DEF Replayed
  <2>5. ASSUME NEW ip \in Ips \ (unsure \cup gone)
        PROVE  ip \in Replayed.block <=> ip \in live.block
    <3>1. IF ip \in want.block THEN lasting(table, ip) ELSE adding(table, ip) = {}
      BY <2>1, <2>5 DEF TableSays
    <3>2. ip \in want.block <=> ip \in live.block
      BY <2>1, <2>2, <2>5 DEF LiveSays, LeavesIn, LeavesOut, lasting, adding
    <3> QED
      BY <2>4, <2>5, <3>1, <3>2 DEF lasting
  <2>6. live.block \subseteq Ips
    BY <2>1 DEF CommandsTypeOK, Settings
  <2>7. Replayed.block \subseteq Ips
    BY <2>4
  <2> QED
    BY <2>3, <2>5, <2>6, <2>7 DEF Agree
<1> QED
  BY <1>1, CommandsKeepInv, PTL

(***************************************************************************)
(* The login limiter.                                                      *)
(***************************************************************************)
\* The requests that may still try a password, and those that have tried a
\* wrong one that is not recorded yet.
Trying == {r \in Logins : phase[r] \in {"admin", "client", "form", "password"}}
Failed == {r \in Logins : phase[r] = "wrong"}

\* The stamps are finitely many, and a guess is of the current window.
StampsFinite ==
    /\ IsFiniteSet(attempts) /\ IsFiniteSet(guesses)
    /\ \A g \in guesses : now - AttemptsWindow < g[1] /\ g[1] <= now

Others == Cardinality(Logins) - 1

\* During a ban no request joins those that may still try; each try turns one
\* of them into a guess.
BanHolds ==
    isBanned =>
        /\ Cardinality(guesses) + Cardinality(Trying) <= BanThreshold + 2 * Others
        /\ Cardinality(After(guesses, bannedUntil - BanDuration)) + Cardinality(Trying) <= Others

\* The guesses outside u are recorded, at the time of the guess or later, or
\* about to be.
Counted(u) ==
    \A c \in Int :
        now - AttemptsWindow <= c
            => Cardinality(After(guesses \ u, c))
                <= Cardinality(After(attempts, c)) + Cardinality(Failed)

\* Without a ban all guesses are counted but those made during the last one.
CountHolds ==
    /\ Cardinality(attempts) < BanThreshold
    /\ ~isBanned => \E u \in SUBSET guesses : Cardinality(u) <= Others /\ Counted(u)

Bounding == BanThreshold > 0 /\ BanDuration >= AttemptsWindow

GuessInv ==
    /\ StampsFinite
    /\ Bounding => BanHolds /\ CountHolds

LimiterInv == LimiterTypeOK /\ GuessInv

\* A stamp is new, and of this instant.
LEMMA StampIsNew ==
    ASSUME NEW s, IsFiniteSet(s)
    PROVE  stamp(s) \notin s /\ stamp(s)[1] = now /\ stamp(s)[2] \in Nat /\ stamp(s) = <<now, stamp(s)[2]>>
<1> DEFINE n == Cardinality(s)
<1>1. n \in Nat
  BY FS_CardinalityType
<1>2. \E k \in 0 .. n : <<now, k>> \notin s
  <2> SUFFICES ASSUME \A k \in 0 .. n : <<now, k>> \in s PROVE FALSE
    OBVIOUS
  <2> DEFINE f == [k \in 0 .. n |-> <<now, k>>]
  <2>1. f \in [0 .. n -> s]
    OBVIOUS
  <2>2. IsFiniteSet(0 .. n) /\ Cardinality(0 .. n) = n + 1
    BY <1>1, FS_Interval
  <2>3. Cardinality(s) < Cardinality(0 .. n)
    BY <1>1, <2>2
  <2>4. \E x, y \in 0 .. n : x # y /\ f[x] = f[y]
    BY <2>1, <2>2, <2>3, FS_PigeonHole
  <2> QED
    BY <2>4
<1> DEFINE k0 == CHOOSE k \in 0 .. n : <<now, k>> \notin s
<1>3. k0 \in 0 .. n /\ <<now, k0>> \notin s
  BY <1>2
<1>4. stamp(s) = <<now, k0>>
  BY DEF stamp
<1> HIDE DEF k0
<1> QED
  BY <1>1, <1>3, <1>4

LEMMA SubsetSize ==
    ASSUME NEW s, IsFiniteSet(s), NEW t, t \subseteq s
    PROVE  /\ IsFiniteSet(t) /\ Cardinality(t) \in Nat /\ Cardinality(s) \in Nat
           /\ Cardinality(t) <= Cardinality(s)
BY FS_Subset, FS_CardinalityType

LEMMA AfterIsPart ==
    ASSUME NEW s, NEW c
    PROVE  After(s, c) \subseteq s
BY DEF After

\* The requests are finitely many, and no more than all are at work.
WorkBounded ==
    /\ Others \in Nat
    /\ IsFiniteSet(Trying) /\ Cardinality(Trying) \in Nat
    /\ IsFiniteSet(Failed) /\ Cardinality(Failed) \in Nat
    /\ Cardinality(Trying) + Cardinality(Failed) <= Others + 1
    /\ \A r \in Logins : phase[r] = "idle" => Cardinality(Trying) + Cardinality(Failed) <= Others

LEMMA WorkIsBounded == WorkBounded
<1>1. Trying \subseteq Logins /\ Failed \subseteq Logins /\ Trying \cap Failed = {}
  BY DEF Trying, Failed
<1>2. IsFiniteSet(Logins) /\ Logins # {}
  BY LimiterAssumption
<1>3. /\ IsFiniteSet(Trying) /\ Cardinality(Trying) \in Nat
      /\ IsFiniteSet(Failed) /\ Cardinality(Failed) \in Nat
      /\ Cardinality(Logins) \in Nat /\ Cardinality(Failed) <= Cardinality(Logins)
  BY <1>1, <1>2, SubsetSize
<1>4. Cardinality(Logins) # 0
  BY <1>2, FS_EmptySet
<1>5. /\ IsFiniteSet(Trying \cup Failed)
      /\ Cardinality(Trying \cup Failed) = Cardinality(Trying) + Cardinality(Failed)
  BY <1>1, <1>3, FS_Union, FS_EmptySet
<1>6. Cardinality(Trying \cup Failed) <= Cardinality(Logins)
  BY <1>1, <1>2, SubsetSize
<1>7. ASSUME NEW r \in Logins, phase[r] = "idle"
      PROVE  Cardinality(Trying \cup Failed) <= Cardinality(Logins) - 1
  <2>1. Trying \cup Failed \subseteq Logins \ {r}
    BY <1>7 DEF Trying, Failed
  <2>2. IsFiniteSet(Logins \ {r}) /\ Cardinality(Logins \ {r}) = Cardinality(Logins) - 1
    BY <1>2, FS_RemoveElement
  <2> QED
    BY <2>1, <2>2, SubsetSize
<1>8. Others \in Nat /\ Cardinality(Logins) = Others + 1
  BY <1>3, <1>4 DEF Others
<1>9. Cardinality(Trying) + Cardinality(Failed) <= Others + 1
  BY <1>5, <1>6, <1>8
<1>10. \A r \in Logins : phase[r] = "idle" => Cardinality(Trying) + Cardinality(Failed) <= Others
  BY <1>5, <1>7, <1>8
<1> QED
  BY <1>3, <1>8, <1>9, <1>10 DEF WorkBounded

LEMMA WorkStaysBounded == WorkBounded'
BY WorkIsBounded, PTL

\* A step that may prune the failures and lift a ban that is over.
LEMMA CalmStep ==
    ASSUME LimiterInv, UNCHANGED <<now, guesses>>, LimiterTypeOK',
           attempts' = attempts \/ attempts' = pruneAttempts(attempts),
           bannedUntil' = bannedUntil \/ bannedUntil' = liftBan,
           Failed' = Failed, isBanned => Trying' \subseteq Trying
    PROVE  GuessInv'
<1>0. LimiterTypeOK /\ StampsFinite /\ (Bounding => BanHolds /\ CountHolds)
  BY DEF LimiterInv, GuessInv
<1>1. attempts' \subseteq attempts
  BY DEF pruneAttempts, After
<1>2. StampsFinite'
  BY <1>0, <1>1, SubsetSize DEF StampsFinite
<1>3. now \in Nat /\ isBanned' = isBanned /\ (isBanned => bannedUntil' = bannedUntil)
  BY <1>0 DEF LimiterTypeOK, Times, isBanned, liftBan, Never
<1>4. ASSUME Bounding PROVE BanHolds'
  <2> SUFFICES ASSUME isBanned'
               PROVE  /\ Cardinality(guesses) + Cardinality(Trying') <= BanThreshold + 2 * Others
                      /\ Cardinality(After(guesses, bannedUntil' - BanDuration))
                            + Cardinality(Trying') <= Others
    BY DEF BanHolds, Others, After
  <2>1. /\ Cardinality(guesses) + Cardinality(Trying) <= BanThreshold + 2 * Others
        /\ Cardinality(After(guesses, bannedUntil - BanDuration)) + Cardinality(Trying) <= Others
    BY <1>0, <1>3, <1>4 DEF BanHolds
  <2>2. /\ Cardinality(Trying') \in Nat /\ Cardinality(Trying) \in Nat
        /\ Cardinality(Trying') <= Cardinality(Trying)
    BY <1>3, WorkIsBounded, SubsetSize DEF WorkBounded
  <2>3. Cardinality(guesses) \in Nat /\ Others \in Nat /\ BanThreshold \in Nat
    BY <1>0, WorkIsBounded, FS_CardinalityType, LimiterAssumption DEF StampsFinite, WorkBounded
  <2>4. Cardinality(After(guesses, bannedUntil - BanDuration)) \in Nat
    BY <1>0, AfterIsPart, SubsetSize DEF StampsFinite
  <2> QED
    BY <1>3, <2>1, <2>2, <2>3, <2>4
<1>5. ASSUME Bounding PROVE CountHolds'
  <2>1. Cardinality(attempts') < BanThreshold
    <3>1. /\ Cardinality(attempts) < BanThreshold
          /\ Cardinality(attempts') <= Cardinality(attempts)
          /\ Cardinality(attempts') \in Nat /\ Cardinality(attempts) \in Nat /\ BanThreshold \in Nat
      BY <1>0, <1>1, <1>5, SubsetSize, LimiterAssumption DEF CountHolds, StampsFinite
    <3> QED
      BY <3>1
  <2>2. ASSUME ~isBanned'
        PROVE  \E u \in SUBSET guesses' : Cardinality(u) <= Others' /\ Counted(u)'
    <3>1. PICK u \in SUBSET guesses : Cardinality(u) <= Others /\ Counted(u)
      BY <1>0, <1>3, <1>5, <2>2 DEF CountHolds
    <3>2. ASSUME NEW c \in Int, now - AttemptsWindow <= c
          PROVE  After(attempts', c) = After(attempts, c)
      <4>1. \A a \in attempts : a[1] \in Int
        BY <1>0 DEF LimiterTypeOK, Times
      <4> QED
        BY <1>3, <3>2, <4>1, LimiterAssumption DEF pruneAttempts, After
    <3>3. Counted(u)'
      BY <3>1, <3>2 DEF Counted
    <3> QED
      BY <3>1, <3>3 DEF Others
  <2> QED
    BY <2>1, <2>2 DEF CountHolds
<1>6. Bounding' = Bounding
  BY DEF Bounding
<1> QED
  BY <1>2, <1>4, <1>5, <1>6 DEF GuessInv

\* A failure is recorded: of a request that had tried a password, or not.
LEMMA RecordStep ==
    ASSUME LimiterInv, UNCHANGED <<now, guesses>>, RecordFailedAttempt,
           Trying' \subseteq Trying, Cardinality(Failed) <= Cardinality(Failed') + 1,
           isBanned \/ isDisabled \/ Cardinality(Trying') + Cardinality(Failed') <= Others
    PROVE  GuessInv'
<1> DEFINE kept == pruneAttempts(attempts)
           valid == kept \cup {stamp(kept)}
           ban == BanThreshold > 0 /\ Cardinality(valid) >= BanThreshold
<1>0. LimiterTypeOK /\ StampsFinite /\ (Bounding => BanHolds /\ CountHolds)
  BY DEF LimiterInv, GuessInv
<1>1. /\ now \in Nat /\ AttemptsWindow \in Nat /\ BanDuration \in Nat /\ BanThreshold \in Nat
      /\ \A a \in attempts : a[1] \in Int
      /\ \A g \in guesses : g[1] \in Int
  BY <1>0, LimiterAssumption DEF LimiterTypeOK, Times
<1>2. /\ Others \in Nat /\ Cardinality(Trying) \in Nat /\ Cardinality(Failed) \in Nat
      /\ Cardinality(Trying') \in Nat /\ Cardinality(Failed') \in Nat
      /\ Cardinality(Trying') <= Cardinality(Trying)
  BY WorkIsBounded, WorkStaysBounded, SubsetSize DEF WorkBounded
<1>3. /\ IsFiniteSet(kept) /\ kept \subseteq attempts
      /\ Cardinality(kept) \in Nat /\ Cardinality(attempts) \in Nat
      /\ Cardinality(kept) <= Cardinality(attempts)
  BY <1>0, AfterIsPart, SubsetSize DEF pruneAttempts, StampsFinite
<1>4. /\ stamp(kept) \notin kept /\ stamp(kept)[1] = now
      /\ IsFiniteSet(valid) /\ Cardinality(valid) = Cardinality(kept) + 1
  BY <1>3, StampIsNew, FS_AddElement
<1>5. Bounding' = Bounding /\ Others' = Others
  BY DEF Bounding, Others
<1>6. CASE isDisabled \/ isBanned
  <2>1. attempts' = attempts /\ bannedUntil' = bannedUntil
    BY <1>6 DEF RecordFailedAttempt
  <2>2. StampsFinite' /\ isBanned' = isBanned
    BY <1>0, <2>1 DEF StampsFinite, isBanned
  <2>3. ASSUME Bounding PROVE BanHolds' /\ CountHolds'
    <3>1. isBanned
      BY <1>1, <1>6, <2>3 DEF isDisabled, Bounding
    <3>2. BanHolds /\ CountHolds
      BY <1>0, <2>3
    <3>3. Cardinality(guesses) \in Nat /\ Cardinality(After(guesses, bannedUntil - BanDuration)) \in Nat
      BY <1>0, AfterIsPart, SubsetSize DEF StampsFinite
    <3>4. /\ Cardinality(guesses) + Cardinality(Trying') <= BanThreshold + 2 * Others
          /\ Cardinality(After(guesses, bannedUntil - BanDuration)) + Cardinality(Trying') <= Others
      BY <1>1, <1>2, <3>1, <3>2, <3>3 DEF BanHolds
    <3> QED
      BY <1>5, <2>1, <2>2, <3>1, <3>2, <3>4 DEF BanHolds, CountHolds, After
  <2> QED
    BY <1>5, <2>2, <2>3 DEF GuessInv
<1>7. CASE ~isDisabled /\ ~isBanned
  <2>1. /\ attempts' = IF ban THEN {} ELSE valid
        /\ bannedUntil' = IF ban THEN now + BanDuration ELSE Never
    BY <1>7 DEF RecordFailedAttempt
  <2> HIDE DEF kept, valid
  <2>2. StampsFinite'
    BY <1>0, <1>4, <2>1, FS_EmptySet DEF StampsFinite
  <2>3. Cardinality(Trying') + Cardinality(Failed') <= Others
    BY <1>7
  <2>4. ASSUME Bounding PROVE BanHolds' /\ CountHolds'
    <3>1. CountHolds
      BY <1>0, <2>4
    <3>2. PICK u \in SUBSET guesses : Cardinality(u) <= Others /\ Counted(u)
      BY <1>7, <3>1 DEF CountHolds
    <3>3. CASE ban
      <4>1. attempts' = {} /\ bannedUntil' = now + BanDuration
        BY <2>1, <3>3
      <4>2. isBanned'
        BY <1>1, <4>1 DEF isBanned, Never
      <4>3. After(guesses \ u, now - AttemptsWindow) = guesses \ u
        BY <1>0 DEF StampsFinite, After
      <4>4. Cardinality(guesses \ u) <= Cardinality(After(attempts, now - AttemptsWindow)) + Cardinality(Failed)
        <5> DEFINE cut == now - AttemptsWindow
        <5>1. cut \in Int /\ now - AttemptsWindow <= cut
          BY <1>1
        <5>2. Cardinality(After(guesses \ u, cut)) <= Cardinality(After(attempts, cut)) + Cardinality(Failed)
          <6> HIDE DEF cut
          <6> QED
            BY <3>2, <5>1 DEF Counted
        <5> QED
          BY <4>3, <5>2
      <4>5. /\ Cardinality(guesses) \in Nat /\ Cardinality(u) \in Nat /\ Cardinality(guesses \ u) \in Nat
            /\ Cardinality(guesses) = Cardinality(u) + Cardinality(guesses \ u)
        <5>1. IsFiniteSet(u) /\ IsFiniteSet(guesses \ u) /\ IsFiniteSet(guesses)
          BY <1>0, SubsetSize DEF StampsFinite
        <5>2. /\ Cardinality(u \cup (guesses \ u))
                    = Cardinality(u) + Cardinality(guesses \ u) - Cardinality(u \cap (guesses \ u))
          BY <5>1, FS_Union
        <5>3. u \cup (guesses \ u) = guesses /\ u \cap (guesses \ u) = {}
          OBVIOUS
        <5>4. Cardinality(u \cap (guesses \ u)) = 0
          BY <5>3, FS_EmptySet
        <5>5. Cardinality(u) \in Nat /\ Cardinality(guesses \ u) \in Nat /\ Cardinality(guesses) \in Nat
          BY <5>1, FS_CardinalityType
        <5>6. Cardinality(guesses) = Cardinality(u) + Cardinality(guesses \ u) - 0
          BY <5>2, <5>3, <5>4
        <5> QED
          BY <5>5, <5>6
      <4>6. Cardinality(After(attempts, now - AttemptsWindow)) = Cardinality(kept)
        BY DEF kept, pruneAttempts
      <4>7. Cardinality(attempts) < BanThreshold
        BY <3>1 DEF CountHolds
      <4>8. Cardinality(guesses) + Cardinality(Trying') <= BanThreshold + 2 * Others
        BY <1>1, <1>2, <1>3, <2>3, <3>2, <4>4, <4>5, <4>6, <4>7
      <4>9. bannedUntil' - BanDuration = now
        BY <1>1, <4>1
      <4>10. After(guesses, now) = {}
        BY <1>0, <1>1 DEF StampsFinite, After
      <4>11. Cardinality(After(guesses, bannedUntil' - BanDuration)) + Cardinality(Trying') <= Others
        <5>1. Cardinality(After(guesses, bannedUntil' - BanDuration)) = 0
          BY <4>9, <4>10, FS_EmptySet
        <5> QED
          BY <1>2, <2>3, <5>1
      <4>12. BanHolds'
        BY <1>5, <4>8, <4>11 DEF BanHolds, After
      <4>13. CountHolds'
        BY <1>1, <2>4, <4>1, <4>2, FS_EmptySet DEF CountHolds, Bounding
      <4> QED
        BY <4>12, <4>13
    <3>4. CASE ~ban
      <4>1. attempts' = valid /\ bannedUntil' = Never
        BY <2>1, <3>4
      <4>2. ~isBanned'
        BY <1>1, <4>1 DEF isBanned, Never
      <4>3. Cardinality(attempts') < BanThreshold
        BY <1>1, <1>3, <1>4, <2>4, <3>4, <4>1 DEF Bounding
      <4>4. ASSUME NEW c \in Int, now - AttemptsWindow <= c
            PROVE  Cardinality(After(guesses \ u, c)) <= Cardinality(After(valid, c)) + Cardinality(Failed')
        <5>0. IsFiniteSet(After(valid, c)) /\ Cardinality(After(valid, c)) \in Nat
          BY <1>4, AfterIsPart, SubsetSize
        <5>1. CASE now <= c
          <6>1. After(guesses \ u, c) = {}
            BY <1>0, <1>1, <5>1 DEF StampsFinite, After
          <6> QED
            BY <1>2, <5>0, <6>1, FS_EmptySet
        <5>2. CASE c < now
          <6>1. After(kept, c) = After(attempts, c)
            BY <1>1, <4>4 DEF kept, pruneAttempts, After
          <6>2. After(valid, c) = After(attempts, c) \cup {stamp(kept)}
            BY <1>4, <5>2, <6>1 DEF valid, After
          <6>3. IsFiniteSet(After(attempts, c)) /\ Cardinality(After(attempts, c)) \in Nat
            BY <1>0, AfterIsPart, SubsetSize DEF StampsFinite
          <6>4. stamp(kept) \notin After(attempts, c)
            BY <1>4, <6>1, AfterIsPart
          <6>5. Cardinality(After(valid, c)) = Cardinality(After(attempts, c)) + 1
            BY <6>2, <6>3, <6>4, FS_AddElement
          <6>6. Cardinality(After(guesses \ u, c)) <= Cardinality(After(attempts, c)) + Cardinality(Failed)
            BY <3>2, <4>4 DEF Counted
          <6>7. Cardinality(After(guesses \ u, c)) \in Nat
            <7>1. IsFiniteSet(guesses) /\ After(guesses \ u, c) \subseteq guesses
              BY <1>0 DEF StampsFinite, After
            <7> QED
              BY <7>1, SubsetSize
          <6> QED
            BY <1>2, <6>3, <6>5, <6>6, <6>7
        <5> QED
          BY <1>1, <5>1, <5>2
      <4>5. Counted(u)'
        BY <4>1, <4>4 DEF Counted, After
      <4>6. CountHolds'
        BY <1>5, <3>2, <4>3, <4>5 DEF CountHolds
      <4> QED
        BY <4>2, <4>6 DEF BanHolds
    <3> QED
      BY <3>3, <3>4
  <2> QED
    BY <1>5, <2>2, <2>4 DEF GuessInv
<1> QED
  BY <1>6, <1>7

\* How a request that moves counts.
LEMMA RequestGoes ==
    ASSUME LimiterTypeOK, NEW r \in Logins, NEW p, goto(r, p)
    PROVE  /\ phase'[r] = p
           /\ Trying' = IF p \in {"admin", "client", "form", "password"}
                          THEN Trying \cup {r} ELSE Trying \ {r}
           /\ Failed' = IF p = "wrong" THEN Failed \cup {r} ELSE Failed \ {r}
BY DEF LimiterTypeOK, goto, Trying, Failed

LEMMA WrongPasswordKeeps ==
    ASSUME LimiterInv, NEW r \in Logins, WrongPassword(r)
    PROVE  GuessInv'
<1> DEFINE new == stamp(guesses)
<1>0. LimiterTypeOK /\ StampsFinite /\ (Bounding => BanHolds /\ CountHolds)
  BY DEF LimiterInv, GuessInv
<1>1. /\ phase[r] = "password" /\ guesses' = guesses \cup {new} /\ goto(r, "wrong")
      /\ UNCHANGED <<now, attempts, bannedUntil, captchas, needCaptcha>>
  BY DEF WrongPassword
<1>2. now \in Nat /\ AttemptsWindow \in Nat \ {0} /\ BanThreshold \in Nat /\ BanDuration \in Nat
  BY <1>0, LimiterAssumption DEF LimiterTypeOK, Times
<1>3. new[1] = now /\ IsFiniteSet(guesses)
  BY <1>0, StampIsNew DEF StampsFinite
<1> HIDE DEF new
<1>4. r \in Trying /\ r \notin Failed /\ Trying' = Trying \ {r} /\ Failed' = Failed \cup {r}
  BY <1>0, <1>1, RequestGoes DEF Trying, Failed
<1>5. /\ Cardinality(Trying') = Cardinality(Trying) - 1
      /\ Cardinality(Failed') = Cardinality(Failed) + 1
      /\ Cardinality(Trying) \in Nat /\ Cardinality(Failed) \in Nat /\ Others \in Nat
  BY <1>4, WorkIsBounded, FS_RemoveElement, FS_AddElement DEF WorkBounded
<1>6. ASSUME NEW s, NEW t, s \subseteq guesses, t \subseteq s \cup {new}
      PROVE  /\ Cardinality(t) <= Cardinality(s) + 1
             /\ Cardinality(t) \in Nat /\ Cardinality(s) \in Nat
  <2>1. IsFiniteSet(s) /\ Cardinality(s) \in Nat
    BY <1>3, <1>6, SubsetSize
  <2>2. /\ IsFiniteSet(s \cup {new})
        /\ Cardinality(s \cup {new}) = IF new \in s THEN Cardinality(s) ELSE Cardinality(s) + 1
    BY <2>1, FS_AddElement
  <2>3. Cardinality(t) \in Nat /\ Cardinality(t) <= Cardinality(s \cup {new})
    BY <1>6, <2>2, SubsetSize
  <2> QED
    BY <2>1, <2>2, <2>3
<1>7. StampsFinite'
  BY <1>0, <1>1, <1>2, <1>3, FS_AddElement DEF StampsFinite
<1>8. Bounding' = Bounding /\ Others' = Others /\ isBanned' = isBanned
  BY <1>1 DEF Bounding, Others, isBanned
<1>9. ASSUME Bounding PROVE BanHolds'
  <2> SUFFICES ASSUME isBanned
               PROVE  /\ Cardinality(guesses') + Cardinality(Trying') <= BanThreshold + 2 * Others
                      /\ Cardinality(After(guesses', bannedUntil - BanDuration))
                            + Cardinality(Trying') <= Others
    BY <1>1, <1>8 DEF BanHolds, After
  <2>1. /\ Cardinality(guesses) + Cardinality(Trying) <= BanThreshold + 2 * Others
        /\ Cardinality(After(guesses, bannedUntil - BanDuration)) + Cardinality(Trying) <= Others
    BY <1>0, <1>9 DEF BanHolds
  <2>2. /\ Cardinality(guesses') <= Cardinality(guesses) + 1
        /\ Cardinality(guesses') \in Nat /\ Cardinality(guesses) \in Nat
    BY <1>1, <1>6
  <2> DEFINE old == After(guesses, bannedUntil - BanDuration)
             young == After(guesses', bannedUntil - BanDuration)
  <2>3. old \subseteq guesses /\ young \subseteq old \cup {new}
    BY <1>1 DEF After
  <2>4. /\ Cardinality(young) <= Cardinality(old) + 1
        /\ Cardinality(young) \in Nat /\ Cardinality(old) \in Nat
    BY <1>6, <2>3
  <2> HIDE DEF old, young
  <2>5. Cardinality(guesses') + Cardinality(Trying') <= BanThreshold + 2 * Others
    BY <1>2, <1>5, <2>1, <2>2
  <2>6. Cardinality(old) + Cardinality(Trying) <= Others
    BY <2>1 DEF old
  <2>7. Cardinality(young) + Cardinality(Trying') <= Others
    BY <1>5, <2>4, <2>6
  <2> QED
    BY <2>5, <2>7 DEF young
<1>10. ASSUME Bounding PROVE CountHolds'
  <2>1. Cardinality(attempts') < BanThreshold
    BY <1>0, <1>1, <1>10 DEF CountHolds
  <2>2. ASSUME ~isBanned
        PROVE  \E u \in SUBSET guesses' : Cardinality(u) <= Others /\ Counted(u)'
    <3>1. PICK u \in SUBSET guesses : Cardinality(u) <= Others /\ Counted(u)
      BY <1>0, <1>10, <2>2 DEF CountHolds
    <3>2. ASSUME NEW c \in Int, now - AttemptsWindow <= c
          PROVE  Cardinality(After(guesses' \ u, c)) <= Cardinality(After(attempts, c)) + Cardinality(Failed')
      <4> DEFINE old == After(guesses \ u, c)
                 young == After(guesses' \ u, c)
      <4>1. old \subseteq guesses /\ young \subseteq old \cup {new}
        BY <1>1 DEF After
      <4>2. /\ Cardinality(young) <= Cardinality(old) + 1
            /\ Cardinality(young) \in Nat /\ Cardinality(old) \in Nat
        BY <1>6, <4>1
      <4>3. Cardinality(old) <= Cardinality(After(attempts, c)) + Cardinality(Failed)
        BY <3>1, <3>2 DEF Counted
      <4>4. Cardinality(After(attempts, c)) \in Nat
        BY <1>0, AfterIsPart, SubsetSize DEF StampsFinite
      <4> HIDE DEF old, young
      <4>5. Cardinality(young) <= Cardinality(After(attempts, c)) + Cardinality(Failed')
        BY <1>5, <4>2, <4>3, <4>4
      <4> QED
        BY <4>5 DEF young
    <3>3. Counted(u)'
      BY <1>1, <3>2 DEF Counted, After
    <3> QED
      BY <1>1, <3>1, <3>3
  <2> QED
    BY <1>8, <2>1, <2>2 DEF CountHolds
<1> QED
  BY <1>7, <1>8, <1>9, <1>10 DEF GuessInv

LEMMA LoggedInKeeps ==
    ASSUME LimiterInv, NEW r \in Logins, NEW forgets \in BOOLEAN, LoggedIn(r, forgets),
           LimiterTypeOK'
    PROVE  GuessInv'
<1>0. LimiterTypeOK
  BY DEF LimiterInv
<1>1. Trying' = Trying \ {r} /\ Failed' = Failed /\ phase'[r] = "idle"
  BY <1>0, RequestGoes DEF LoggedIn, Failed
<1>2. CASE ~forgets
  <2>1. UNCHANGED <<now, guesses, attempts, bannedUntil>>
    BY <1>2 DEF LoggedIn
  <2> QED
    BY <1>1, <2>1, CalmStep
<1>3. CASE forgets
  <2>1. guesses' = {} /\ attempts' = {} /\ now' = now
    BY <1>3 DEF LoggedIn
  <2>2. StampsFinite'
    BY <2>1, FS_EmptySet DEF StampsFinite
  <2>3. /\ Others' \in Nat /\ Others' = Others /\ BanThreshold \in Nat
        /\ Cardinality(Trying') \in Nat /\ Cardinality(Failed') \in Nat
        /\ Cardinality(Trying') + Cardinality(Failed') <= Others'
    BY <1>1, WorkStaysBounded, LimiterAssumption DEF WorkBounded, Others
  <2>4. \A s : s \subseteq {} => Cardinality(s) = 0
    BY FS_EmptySet
  <2>5. \A c : Cardinality(After({}, c)) = 0
    BY <2>4, AfterIsPart
  <2>6. Cardinality({}) = 0 /\ Cardinality(guesses') = 0 /\ Cardinality(attempts') = 0
    BY <2>1, FS_EmptySet
  <2>7. BanHolds'
    <3>1. Cardinality(After(guesses', bannedUntil' - BanDuration)) = 0
      BY <2>1, <2>5
    <3>2. Cardinality(guesses') + Cardinality(Trying') <= BanThreshold + 2 * Others'
      BY <2>3, <2>6
    <3>3. Cardinality(After(guesses', bannedUntil' - BanDuration)) + Cardinality(Trying') <= Others'
      BY <2>3, <3>1
    <3> QED
      BY <3>2, <3>3 DEF BanHolds, After
  <2>8. ASSUME Bounding PROVE CountHolds'
    <3>1. ASSUME NEW c \in Int
          PROVE  Cardinality(After(guesses' \ {}, c)) <= Cardinality(After(attempts', c)) + Cardinality(Failed')
      <4>1. guesses' \ {} = {}
        BY <2>1
      <4> QED
        BY <2>1, <2>3, <2>5, <4>1
    <3>2. Counted({})'
      BY <3>1 DEF Counted, After
    <3>3. {} \in SUBSET guesses' /\ Cardinality({}) <= Others'
      BY <2>3, <2>6
    <3>4. Cardinality(attempts') < BanThreshold
      BY <2>3, <2>6, <2>8 DEF Bounding
    <3> QED
      BY <3>2, <3>3, <3>4 DEF CountHolds
  <2>9. Bounding' = Bounding
    BY DEF Bounding
  <2> QED
    BY <2>2, <2>7, <2>8, <2>9 DEF GuessInv
<1> QED
  BY <1>2, <1>3

\* The clock moves: guesses leave the window no later than their records do,
\* and what is left of them when a ban ends was made during the ban.
LEMMA TickKeeps ==
    ASSUME LimiterInv, Tick
    PROVE  GuessInv'
<1>0. LimiterTypeOK /\ StampsFinite /\ (Bounding => BanHolds /\ CountHolds)
  BY DEF LimiterInv, GuessInv
<1>1. /\ now' = now + 1 /\ guesses' = After(guesses, now' - AttemptsWindow)
      /\ UNCHANGED <<attempts, bannedUntil, captchas, phase, needCaptcha>>
  BY DEF Tick
<1>2. /\ now \in Nat /\ AttemptsWindow \in Nat /\ BanDuration \in Nat /\ BanThreshold \in Nat
      /\ bannedUntil \in Int
      /\ \A g \in guesses : g[1] \in Int
  BY <1>0, LimiterAssumption DEF LimiterTypeOK, Times, Never
<1>3. guesses' \subseteq guesses /\ IsFiniteSet(guesses) /\ IsFiniteSet(guesses')
  BY <1>0, <1>1, AfterIsPart, SubsetSize DEF StampsFinite
<1>4. StampsFinite'
  BY <1>0, <1>1, <1>2, <1>3 DEF StampsFinite, After
<1>5. Trying' = Trying /\ Failed' = Failed /\ Others' = Others /\ Bounding' = Bounding
  BY <1>1 DEF Trying, Failed, Others, Bounding
<1>6. isBanned' => isBanned
  BY <1>1, <1>2 DEF isBanned, Never
<1>7. Others \in Nat /\ Cardinality(Trying) \in Nat /\ Cardinality(Failed) \in Nat
  BY WorkIsBounded DEF WorkBounded
<1>8. ASSUME Bounding PROVE BanHolds'
  <2> SUFFICES ASSUME isBanned'
               PROVE  /\ Cardinality(guesses') + Cardinality(Trying) <= BanThreshold + 2 * Others
                      /\ Cardinality(After(guesses', bannedUntil - BanDuration))
                            + Cardinality(Trying) <= Others
    BY <1>1, <1>5 DEF BanHolds, After
  <2> DEFINE old == After(guesses, bannedUntil - BanDuration)
             young == After(guesses', bannedUntil - BanDuration)
  <2>1. /\ Cardinality(guesses) + Cardinality(Trying) <= BanThreshold + 2 * Others
        /\ Cardinality(old) + Cardinality(Trying) <= Others
    BY <1>0, <1>6, <1>8 DEF BanHolds
  <2>2. young \subseteq old /\ old \subseteq guesses
    BY <1>3 DEF After
  <2>3. /\ Cardinality(young) <= Cardinality(old) /\ Cardinality(young) \in Nat /\ Cardinality(old) \in Nat
        /\ Cardinality(guesses') <= Cardinality(guesses)
        /\ Cardinality(guesses') \in Nat /\ Cardinality(guesses) \in Nat
    BY <1>3, <2>2, SubsetSize
  <2> HIDE DEF old, young
  <2>4. Cardinality(guesses') + Cardinality(Trying) <= BanThreshold + 2 * Others
    BY <1>2, <1>7, <2>1, <2>3
  <2>5. Cardinality(young) + Cardinality(Trying) <= Others
    BY <1>7, <2>1, <2>3
  <2> QED
    BY <2>4, <2>5 DEF young
<1>9. ASSUME Bounding PROVE CountHolds'
  <2> DEFINE Covered ==
        \E u \in SUBSET guesses' :
            /\ Cardinality(u) <= Others
            /\ \A c \in Int :
                now' - AttemptsWindow <= c
                    => Cardinality(After(guesses' \ u, c))
                         <= Cardinality(After(attempts, c)) + Cardinality(Failed)
  <2>1. Cardinality(attempts') < BanThreshold
    BY <1>0, <1>1, <1>9 DEF CountHolds
  <2>2. ASSUME ~isBanned', ~isBanned
        PROVE  Covered
    <3>1. PICK v \in SUBSET guesses : Cardinality(v) <= Others /\ Counted(v)
      BY <1>0, <1>9, <2>2 DEF CountHolds
    <3> DEFINE u == v \cap guesses'
    <3>2. Cardinality(u) <= Others
      <4>1. IsFiniteSet(v) /\ u \subseteq v
        BY <1>3, SubsetSize
      <4>2. Cardinality(u) <= Cardinality(v) /\ Cardinality(u) \in Nat /\ Cardinality(v) \in Nat
        BY <4>1, SubsetSize
      <4> QED
        BY <1>7, <3>1, <4>2
    <3>3. ASSUME NEW c \in Int, now' - AttemptsWindow <= c
          PROVE  Cardinality(After(guesses' \ u, c)) <= Cardinality(After(attempts, c)) + Cardinality(Failed)
      <4> DEFINE old == After(guesses \ v, c)
                 young == After(guesses' \ u, c)
      <4>1. old \subseteq guesses /\ young \subseteq old
        BY <1>3 DEF After
      <4>2. IsFiniteSet(old)
        BY <1>3, <4>1, SubsetSize
      <4>3. Cardinality(young) <= Cardinality(old) /\ Cardinality(young) \in Nat /\ Cardinality(old) \in Nat
        BY <4>1, <4>2, SubsetSize
      <4>4. now - AttemptsWindow <= c
        BY <1>1, <1>2, <3>3
      <4>5. Cardinality(old) <= Cardinality(After(attempts, c)) + Cardinality(Failed)
        BY <3>1, <4>4 DEF Counted
      <4>6. Cardinality(After(attempts, c)) \in Nat
        BY <1>0, AfterIsPart, SubsetSize DEF StampsFinite
      <4> HIDE DEF old, young
      <4>7. Cardinality(young) <= Cardinality(After(attempts, c)) + Cardinality(Failed)
        BY <1>7, <4>3, <4>5, <4>6
      <4> QED
        BY <4>7 DEF young
    <3> QED
      BY <3>2, <3>3
  <2>3. ASSUME ~isBanned', isBanned
        PROVE  Covered
    <3>1. bannedUntil = now
      BY <1>1, <1>2, <2>3 DEF isBanned, Never
    <3> DEFINE old == After(guesses, bannedUntil - BanDuration)
    <3>2. guesses' \subseteq old
      BY <1>1, <1>2, <1>9, <3>1 DEF After, Bounding
    <3>3. Cardinality(old) + Cardinality(Trying) <= Others
      BY <1>0, <1>9, <2>3 DEF BanHolds
    <3>4. IsFiniteSet(old)
      BY <1>3, AfterIsPart, SubsetSize
    <3>5. Cardinality(guesses') <= Cardinality(old) /\ Cardinality(guesses') \in Nat /\ Cardinality(old) \in Nat
      BY <3>2, <3>4, SubsetSize
    <3> HIDE DEF old
    <3>6. Cardinality(guesses') <= Others
      BY <1>7, <3>3, <3>5
    <3>7. ASSUME NEW c \in Int
          PROVE  Cardinality(After(guesses' \ guesses', c)) <= Cardinality(After(attempts, c)) + Cardinality(Failed)
      <4>1. After(guesses' \ guesses', c) = {}
        BY DEF After
      <4>2. Cardinality(After(guesses' \ guesses', c)) = 0
        BY <4>1, FS_EmptySet
      <4>3. Cardinality(After(attempts, c)) \in Nat
        BY <1>0, AfterIsPart, SubsetSize DEF StampsFinite
      <4> QED
        BY <1>7, <4>2, <4>3
    <3> QED
      BY <3>6, <3>7
  <2>4. ~isBanned' => \E u \in SUBSET guesses' : Cardinality(u) <= Others /\ Counted(u)'
    BY <1>1, <1>5, <2>2, <2>3 DEF Counted, After
  <2> QED
    BY <1>5, <2>1, <2>4 DEF CountHolds
<1> QED
  BY <1>4, <1>5, <1>8, <1>9 DEF GuessInv

\* The type of the limiter's own state after a record or a check.
LEMMA RecordTyped ==
    ASSUME LimiterTypeOK, StampsFinite, RecordFailedAttempt
    PROVE  /\ attempts' \subseteq Times \X Nat
           /\ bannedUntil' \in Times \cup (MaxTime .. MaxTime + BanDuration) \cup {Never}
<1> DEFINE kept == pruneAttempts(attempts)
           valid == kept \cup {stamp(kept)}
           ban == BanThreshold > 0 /\ Cardinality(valid) >= BanThreshold
<1>1. kept \subseteq attempts /\ IsFiniteSet(kept)
  BY AfterIsPart, SubsetSize DEF pruneAttempts, StampsFinite
<1>2. /\ stamp(kept) = <<now, stamp(kept)[2]>> /\ stamp(kept)[2] \in Nat
  BY <1>1, StampIsNew
<1>3. stamp(kept) \in Times \X Nat
  BY <1>2 DEF LimiterTypeOK
<1>4. valid \subseteq Times \X Nat
  BY <1>1, <1>3 DEF LimiterTypeOK
<1>5. now + BanDuration \in Times \cup (MaxTime .. MaxTime + BanDuration)
  BY LimiterAssumption DEF LimiterTypeOK, Times
<1> HIDE DEF valid
<1>6. CASE isDisabled \/ isBanned
  BY <1>6 DEF RecordFailedAttempt, LimiterTypeOK
<1>7. CASE ~isDisabled /\ ~isBanned
  <2>1. /\ attempts' = IF ban THEN {} ELSE valid
        /\ bannedUntil' = IF ban THEN now + BanDuration ELSE Never
    BY <1>7 DEF RecordFailedAttempt, valid
  <2> QED
    BY <1>4, <1>5, <2>1
<1> QED
  BY <1>6, <1>7

LEMMA CheckedFacts ==
    ASSUME LimiterTypeOK, NEW banned \in BOOLEAN, NEW need \in BOOLEAN, checked(banned, need)
    PROVE  /\ attempts' = attempts \/ attempts' = pruneAttempts(attempts)
           /\ bannedUntil' = bannedUntil \/ bannedUntil' = liftBan
           /\ attempts' \subseteq Times \X Nat
           /\ bannedUntil' \in Times \cup (MaxTime .. MaxTime + BanDuration) \cup {Never}
           /\ isDisabled \/ banned = isBanned
<1>1. pruneAttempts(attempts) \subseteq attempts
  BY AfterIsPart DEF pruneAttempts
<1>2. liftBan = bannedUntil \/ liftBan = Never
  BY DEF liftBan
<1> QED
  BY <1>1, <1>2 DEF checked, LimiterTypeOK

LEMMA GoTyped ==
    ASSUME LimiterTypeOK, NEW r \in Logins,
           NEW p \in {"idle", "admin", "client", "form", "password", "wrong"}, goto(r, p)
    PROVE  phase' \in [Logins -> {"idle", "admin", "client", "form", "password", "wrong"}]
BY DEF LimiterTypeOK, goto

LEMMA LimiterKeeps ==
    ASSUME LimiterInv, NEW r \in Logins, NEW route \in {"admin", "client"}, Limiter(r, route)
    PROVE  LimiterInv'
<1>0. LimiterTypeOK
  BY DEF LimiterInv
<1>1. PICK banned \in BOOLEAN, need \in BOOLEAN :
        checked(banned, need) /\ goto(r, IF banned THEN "idle" ELSE route)
  BY DEF Limiter
<1> DEFINE p == IF banned THEN "idle" ELSE route
<1>2. phase[r] = "idle" /\ UNCHANGED <<now, captchas, needCaptcha, guesses>> /\ goto(r, p)
  BY <1>1 DEF Limiter
<1>3. p \in {"idle", "admin", "client"} /\ (banned => p = "idle")
  OBVIOUS
<1> HIDE DEF p
<1>4. LimiterTypeOK'
  BY <1>0, <1>1, <1>2, <1>3, CheckedFacts, GoTyped DEF LimiterTypeOK
<1>5. r \notin Trying /\ r \notin Failed
  BY <1>2 DEF Trying, Failed
<1>6. Failed' = Failed /\ (banned => Trying' = Trying)
  BY <1>0, <1>2, <1>3, <1>5, RequestGoes
<1>7. CASE ~isDisabled
  <2>1. isBanned => Trying' \subseteq Trying
    BY <1>0, <1>1, <1>6, <1>7, CheckedFacts
  <2> QED
    BY <1>0, <1>1, <1>2, <1>4, <1>6, <2>1, CheckedFacts, CalmStep DEF LimiterInv
<1>8. CASE isDisabled
  <2>1. ~Bounding
    BY <1>8, LimiterAssumption DEF isDisabled, Bounding
  <2>2. attempts' \subseteq attempts
    BY <1>0, <1>1, CheckedFacts, AfterIsPart DEF pruneAttempts
  <2>3. StampsFinite'
    BY <1>2, <2>2, SubsetSize DEF LimiterInv, GuessInv, StampsFinite
  <2> QED
    BY <1>4, <2>1, <2>3 DEF LimiterInv, GuessInv, Bounding
<1> QED
  BY <1>7, <1>8

LEMMA LoginChecksKeeps ==
    ASSUME LimiterInv, NEW r \in Logins, LoginChecks(r)
    PROVE  LimiterInv'
<1>0. LimiterTypeOK
  BY DEF LimiterInv
<1>1. PICK banned \in BOOLEAN, need \in BOOLEAN :
        checked(banned, need) /\ needCaptcha' = [needCaptcha EXCEPT ![r] = need]
  BY DEF LoginChecks
<1>2. phase[r] = "admin" /\ UNCHANGED <<now, captchas, guesses>> /\ goto(r, "form")
  BY DEF LoginChecks
<1>3. LimiterTypeOK'
  BY <1>0, <1>1, <1>2, CheckedFacts, GoTyped DEF LimiterTypeOK
<1>4. r \in Trying /\ r \notin Failed
  BY <1>2 DEF Trying, Failed
<1>5. Failed' = Failed /\ Trying' = Trying
  BY <1>0, <1>2, <1>4, RequestGoes
<1> QED
  BY <1>0, <1>1, <1>2, <1>3, <1>5, CheckedFacts, CalmStep DEF LimiterInv

LEMMA NoCaptchaKeeps ==
    ASSUME LimiterInv, NEW r \in Logins, NoCaptcha(r)
    PROVE  LimiterInv'
<1>0. LimiterTypeOK
  BY DEF LimiterInv
<1>1. /\ phase[r] \in {"client", "form"} /\ goto(r, "password")
      /\ UNCHANGED <<now, attempts, bannedUntil, captchas, needCaptcha, guesses>>
  BY DEF NoCaptcha
<1>2. LimiterTypeOK'
  BY <1>0, <1>1, GoTyped DEF LimiterTypeOK
<1>3. r \in Trying /\ r \notin Failed
  BY <1>1 DEF Trying, Failed
<1>4. Failed' = Failed /\ Trying' = Trying
  BY <1>0, <1>1, <1>3, RequestGoes
<1> QED
  BY <1>1, <1>2, <1>4, CalmStep DEF LimiterInv

LEMMA VerifyCaptchaKeeps ==
    ASSUME LimiterInv, NEW r \in Logins, NEW i \in Ids, NEW right \in BOOLEAN,
           VerifyCaptcha(r, i, right)
    PROVE  LimiterInv'
<1>0. LimiterTypeOK
  BY DEF LimiterInv
<1>1. PICK p \in {"password", "idle"} : goto(r, p)
  BY DEF VerifyCaptcha
<1>2. /\ phase[r] = "form" /\ UNCHANGED <<now, attempts, bannedUntil, needCaptcha, guesses>>
      /\ captchas' = captchas \/ captchas' = [captchas EXCEPT ![i] = Never]
  BY DEF VerifyCaptcha
<1>3. LimiterTypeOK'
  <2>1. captchas' \in [Ids -> Times \cup (MaxTime .. MaxTime + CaptchaLife) \cup {Never}]
    BY <1>0, <1>2 DEF LimiterTypeOK
  <2> QED
    BY <1>0, <1>1, <1>2, <2>1, GoTyped DEF LimiterTypeOK
<1>4. r \in Trying /\ r \notin Failed
  BY <1>2 DEF Trying, Failed
<1>5. Failed' = Failed /\ Trying' \subseteq Trying
  BY <1>0, <1>1, <1>4, RequestGoes
<1> QED
  BY <1>2, <1>3, <1>5, CalmStep DEF LimiterInv

LEMMA RecordsKeep ==
    ASSUME LimiterInv, NEW r \in Logins, BadParameters(r) \/ RecordWrong(r)
    PROVE  LimiterInv'
<1>0. LimiterTypeOK /\ StampsFinite
  BY DEF LimiterInv, GuessInv
<1>1. /\ phase[r] \in {"form", "client", "wrong"} /\ goto(r, "idle") /\ RecordFailedAttempt
      /\ UNCHANGED <<now, captchas, needCaptcha, guesses>>
  BY DEF BadParameters, RecordWrong
<1>2. LimiterTypeOK'
  BY <1>0, <1>1, RecordTyped, GoTyped DEF LimiterTypeOK
<1>3. Trying' = Trying \ {r} /\ Failed' = Failed \ {r} /\ phase'[r] = "idle"
  BY <1>0, <1>1, RequestGoes
<1>4. IsFiniteSet(Failed) /\ Cardinality(Failed) \in Nat
  BY WorkIsBounded DEF WorkBounded
<1>5. Cardinality(Failed') = IF r \in Failed THEN Cardinality(Failed) - 1 ELSE Cardinality(Failed)
  BY <1>3, <1>4, FS_RemoveElement
<1>6. Cardinality(Failed) <= Cardinality(Failed') + 1
  BY <1>4, <1>5
<1>7. Cardinality(Trying') + Cardinality(Failed') <= Others
  BY <1>3, WorkStaysBounded DEF WorkBounded, Others
<1> QED
  BY <1>1, <1>2, <1>3, <1>6, <1>7, RecordStep DEF LimiterInv

LEMMA GuessesKeep ==
    ASSUME LimiterInv, NEW r \in Logins,
           WrongPassword(r) \/ \E forgets \in BOOLEAN : LoggedIn(r, forgets)
    PROVE  LimiterInv'
<1>0. LimiterTypeOK /\ StampsFinite
  BY DEF LimiterInv, GuessInv
<1>1. CASE WrongPassword(r)
  <2>1. /\ guesses' = guesses \cup {stamp(guesses)} /\ goto(r, "wrong")
        /\ UNCHANGED <<now, attempts, bannedUntil, captchas, needCaptcha>>
    BY <1>1 DEF WrongPassword
  <2>2. stamp(guesses) \in Times \X Nat
    <3>1. stamp(guesses) = <<now, stamp(guesses)[2]>> /\ stamp(guesses)[2] \in Nat
      BY <1>0, StampIsNew DEF StampsFinite
    <3> QED
      BY <1>0, <3>1 DEF LimiterTypeOK
  <2>3. LimiterTypeOK'
    BY <1>0, <2>1, <2>2, GoTyped DEF LimiterTypeOK
  <2> QED
    BY <1>1, <2>3, WrongPasswordKeeps DEF LimiterInv
<1>2. ASSUME NEW forgets \in BOOLEAN, LoggedIn(r, forgets) PROVE LimiterInv'
  <2>1. /\ attempts' \subseteq attempts /\ guesses' \subseteq guesses /\ goto(r, "idle")
        /\ UNCHANGED <<now, bannedUntil, captchas, needCaptcha>>
    BY <1>2 DEF LoggedIn
  <2>2. LimiterTypeOK'
    BY <1>0, <2>1, GoTyped DEF LimiterTypeOK
  <2> QED
    BY <1>2, <2>2, LoggedInKeeps DEF LimiterInv
<1> QED
  BY <1>1, <1>2

LEMMA CaptchasKeep ==
    ASSUME LimiterInv, cleanupExpired \/ \E i \in Ids : Captcha(i)
    PROVE  LimiterInv'
<1>0. LimiterTypeOK
  BY DEF LimiterInv
<1>1. UNCHANGED <<now, phase, needCaptcha, guesses>>
  BY DEF cleanupExpired, Captcha
<1>2. /\ attempts' = attempts \/ attempts' = pruneAttempts(attempts)
      /\ bannedUntil' = bannedUntil \/ bannedUntil' = liftBan
      /\ attempts' \subseteq Times \X Nat
      /\ bannedUntil' \in Times \cup (MaxTime .. MaxTime + BanDuration) \cup {Never}
  <2>1. CASE cleanupExpired
    BY <1>0, <2>1, AfterIsPart DEF cleanupExpired, pruneAttempts, liftBan, LimiterTypeOK
  <2>2. CASE \E i \in Ids : Captcha(i)
    BY <1>0, <2>2, CheckedFacts DEF Captcha
  <2> QED
    BY <2>1, <2>2
<1>3. captchas' \in [Ids -> Times \cup (MaxTime .. MaxTime + CaptchaLife) \cup {Never}]
  <2>1. CASE cleanupExpired
    BY <1>0, <2>1 DEF cleanupExpired, LimiterTypeOK
  <2>2. ASSUME NEW i \in Ids, Captcha(i) PROVE captchas' \in [Ids -> Times \cup (MaxTime .. MaxTime + CaptchaLife) \cup {Never}]
    <3>1. now + CaptchaLife \in Times \cup (MaxTime .. MaxTime + CaptchaLife)
      BY <1>0, LimiterAssumption DEF LimiterTypeOK, Times
    <3> QED
      BY <1>0, <2>2, <3>1 DEF Captcha, LimiterTypeOK
  <2> QED
    BY <2>1, <2>2
<1>4. LimiterTypeOK'
  BY <1>0, <1>1, <1>2, <1>3 DEF LimiterTypeOK
<1>5. Failed' = Failed /\ Trying' = Trying
  BY <1>1 DEF Failed, Trying
<1> QED
  BY <1>1, <1>2, <1>4, <1>5, CalmStep DEF LimiterInv

LEMMA ClockKeeps ==
    ASSUME LimiterInv, Tick
    PROVE  LimiterInv'
<1>0. LimiterTypeOK
  BY DEF LimiterInv
<1>1. /\ now < MaxTime /\ now' = now + 1 /\ guesses' \subseteq guesses
      /\ UNCHANGED <<attempts, bannedUntil, captchas, phase, needCaptcha>>
  BY AfterIsPart DEF Tick
<1>2. LimiterTypeOK'
  BY <1>0, <1>1, LimiterAssumption DEF LimiterTypeOK, Times
<1> QED
  BY <1>2, TickKeeps DEF LimiterInv

LEMMA LimiterInitInv == LimiterInit => LimiterInv
<1> SUFFICES ASSUME LimiterInit PROVE LimiterInv
  OBVIOUS
<1>1. LimiterTypeOK
  BY LimiterAssumption DEF LimiterInit, LimiterTypeOK, Times, Never
<1>2. StampsFinite
  BY FS_EmptySet DEF LimiterInit, StampsFinite
<1>3. BanHolds
  BY DEF LimiterInit, BanHolds, isBanned
<1>4. ASSUME Bounding PROVE CountHolds
  <2>1. Others \in Nat /\ Cardinality(Failed) \in Nat
    BY WorkIsBounded DEF WorkBounded
  <2>2. attempts = {} /\ guesses = {} /\ Cardinality({}) = 0
    BY FS_EmptySet DEF LimiterInit
  <2>3. ASSUME NEW c PROVE After({}, c) = {} /\ {} \ {} = {}
    BY DEF After
  <2>4. Counted({})
    BY <2>1, <2>2, <2>3 DEF Counted
  <2> QED
    BY <1>4, <2>1, <2>2, <2>4, LimiterAssumption DEF CountHolds, Bounding
<1> QED
  BY <1>1, <1>2, <1>3, <1>4 DEF LimiterInv, GuessInv

LEMMA LimiterStepInv == LimiterInv /\ [LimiterNext]_limiterVars => LimiterInv'
<1> SUFFICES ASSUME LimiterInv, [LimiterNext]_limiterVars PROVE LimiterInv'
  OBVIOUS
<1>1. ASSUME NEW r \in Logins, NEW route \in {"admin", "client"}, Limiter(r, route)
      PROVE  LimiterInv'
  BY <1>1, LimiterKeeps
<1>2. ASSUME NEW r \in Logins, LoginChecks(r) \/ NoCaptcha(r)
      PROVE  LimiterInv'
  BY <1>2, LoginChecksKeeps, NoCaptchaKeeps
<1>3. ASSUME NEW r \in Logins, BadParameters(r) \/ RecordWrong(r)
      PROVE  LimiterInv'
  BY <1>3, RecordsKeep
<1>4. ASSUME NEW r \in Logins, NEW i \in Ids, NEW right \in BOOLEAN, VerifyCaptcha(r, i, right)
      PROVE  LimiterInv'
  BY <1>4, VerifyCaptchaKeeps
<1>5. ASSUME NEW r \in Logins, WrongPassword(r) \/ \E forgets \in BOOLEAN : LoggedIn(r, forgets)
      PROVE  LimiterInv'
  BY <1>5, GuessesKeep
<1>6. CASE cleanupExpired \/ \E i \in Ids : Captcha(i)
  BY <1>6, CaptchasKeep
<1>7. CASE Tick
  BY <1>7, ClockKeeps
<1>8. CASE UNCHANGED limiterVars
  <2>1. LimiterTypeOK' /\ Failed' = Failed /\ Trying' = Trying
    BY <1>8 DEF limiterVars, LimiterInv, LimiterTypeOK, Failed, Trying
  <2> QED
    BY <1>8, <2>1, CalmStep DEF limiterVars, LimiterInv
<1> QED
  BY <1>1, <1>2, <1>3, <1>4, <1>5, <1>6, <1>7, <1>8 DEF LimiterNext

LEMMA LimiterKeepsInv == LimiterSpec => []LimiterInv
BY LimiterInitInv, LimiterStepInv, PTL DEF LimiterSpec

\* The ban bounds the wrong passwords of one address within a window, however
\* requests overtake each other between the check, the password and the record
\* (CheckSecurityStatus and RecordFailedAttempt).
THEOREM BanBoundsGuesses == LimiterSpec => []GuessesBounded
<1>1. LimiterInv => GuessesBounded
  <2> SUFFICES ASSUME LimiterInv, Bounding
               PROVE  Cardinality(guesses) <= BanThreshold + 2 * (Cardinality(Logins) - 1)
    BY DEF GuessesBounded, Bounding
  <2>0. LimiterTypeOK /\ StampsFinite /\ BanHolds /\ CountHolds
    BY DEF LimiterInv, GuessInv
  <2>1. /\ Others \in Nat /\ Cardinality(Trying) \in Nat /\ Cardinality(Failed) \in Nat
        /\ Cardinality(Failed) <= Others + 1 /\ BanThreshold \in Nat
    BY WorkIsBounded, LimiterAssumption DEF WorkBounded
  <2>2. Cardinality(guesses) \in Nat /\ Cardinality(attempts) \in Nat /\ IsFiniteSet(guesses)
    BY <2>0, FS_CardinalityType DEF StampsFinite
  <2>3. CASE isBanned
    BY <2>0, <2>1, <2>2, <2>3 DEF BanHolds, Others
  <2>4. CASE ~isBanned
    <3>1. PICK u \in SUBSET guesses : Cardinality(u) <= Others /\ Counted(u)
      BY <2>0, <2>4 DEF CountHolds
    <3> DEFINE cut == now - AttemptsWindow
    <3>2. cut \in Int /\ now - AttemptsWindow <= cut
      BY <2>0, LimiterAssumption DEF LimiterTypeOK, Times
    <3>3. After(guesses \ u, cut) = guesses \ u
      BY <2>0 DEF StampsFinite, After
    <3> HIDE DEF cut
    <3>4. Cardinality(guesses \ u) <= Cardinality(After(attempts, cut)) + Cardinality(Failed)
      BY <3>1, <3>2, <3>3 DEF Counted
    <3>5. /\ Cardinality(After(attempts, cut)) \in Nat
          /\ Cardinality(After(attempts, cut)) <= Cardinality(attempts)
      BY <2>0, AfterIsPart, SubsetSize DEF StampsFinite
    <3>6. Cardinality(guesses \ u) = Cardinality(guesses) - Cardinality(guesses \cap u)
      BY <2>2, FS_Difference
    <3>7. guesses \cap u = u /\ Cardinality(u) \in Nat
      BY <2>2, SubsetSize
    <3>8. Cardinality(guesses) - Cardinality(u) <= Cardinality(After(attempts, cut)) + Cardinality(Failed)
      BY <3>4, <3>6, <3>7
    <3>9. Cardinality(guesses) <= BanThreshold + 2 * Others
      BY <2>0, <2>1, <2>2, <3>1, <3>5, <3>7, <3>8 DEF CountHolds
    <3> QED
      BY <3>9 DEF Others
  <2> QED
    BY <2>3, <2>4
<1> QED
  BY <1>1, LimiterKeepsInv, PTL

\* Both parts run as they do alone.
LEMMA ApiRunsBoth == Spec => LimiterSpec /\ CommandsSpec
<1>1. Init => LimiterInit /\ CommandsInit
  BY DEF Init
<1>2. [Next]_vars => [LimiterNext]_limiterVars /\ [CommandsNext]_commandsVars
  BY DEF Next, vars
<1> QED
  BY <1>1, <1>2, PTL DEF Spec, LimiterSpec, CommandsSpec

\* Every reachable state of the limiter and of the server commands is well
\* typed: counts, bans and challenges stay in their ranges, and the table only
\* has commands of its kinds.
THEOREM ApiTypeCorrect == Spec => []TypeOK
<1>1. LimiterInv /\ CommandsInv => TypeOK
  BY DEF LimiterInv, CommandsInv, TypeOK
<1> QED
  BY <1>1, ApiRunsBoth, LimiterKeepsInv, CommandsKeepInv, PTL
=============================================================================
