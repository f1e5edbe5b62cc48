---------------------------- MODULE RelayRotation ----------------------------
(***************************************************************************)
(* The relay servers hbbs hands out (src/server/src/rendezvous_server.rs): *)
(* relay_servers0 is the configured list, relay_servers the part of it     *)
(* that answered the last check.  The main loop receives messages in       *)
(* order; a timer starts a check of a snapshot of the configured list, in  *)
(* a task of its own, which sends its result to the loop.  The command     *)
(* relay-servers sends the loop a new configured list.                     *)
(***************************************************************************)
EXTENDS Naturals, Sequences, FiniteSets

CONSTANTS
    Lists,          \* the lists an administrator may configure, also the empty one
    Configured,     \* the list of the command line
    Checks,         \* checks in flight at a time
    MaxCommands     \* bound on the relay-servers commands

ASSUME RotationAssumption ==
    /\ Configured \in Lists
    /\ \A l \in Lists : IsFiniteSet(l)
    /\ MaxCommands \in Nat

VARIABLES
    relay_servers0, relay_servers,
    rx,             \* messages to the main loop
    check,          \* check -> the snapshot it tries, {} when it is not running
    commands        \* commands sent

rotationVars == <<relay_servers0, relay_servers, rx, check, commands>>

Servers == UNION Lists
Data == [kind : {"RelayServers0"}, rs : Lists]
        \cup [kind : {"RelayServers"}, rs : (SUBSET Servers) \ {{}}]

RotationTypeOK ==
    /\ relay_servers0 \in Lists
    /\ relay_servers \in SUBSET Servers
    /\ relay_servers = {} => relay_servers0 = {}
    /\ rx \in Seq(Data)
    /\ check \in [Checks -> Lists \cup {{}}]
    /\ commands \in 0 .. MaxCommands

RotationInit ==
    /\ relay_servers0 = Configured
    /\ relay_servers = Configured
    /\ rx = <<>>
    /\ check = [c \in Checks |-> {}]
    /\ commands = 0

-----------------------------------------------------------------------------
send(kind, rs) == rx' = Append(rx, [kind |-> kind, rs |-> rs])

\* check_cmd "relay-servers": the new list goes to the main loop.
Command(l) ==
    /\ commands < MaxCommands
    /\ commands' = commands + 1
    /\ send("RelayServers0", l)
    /\ UNCHANGED <<relay_servers0, relay_servers, check>>

\* The loop takes a new configured list: parse_relay_servers resets both.
parse_relay_servers ==
    /\ rx # <<>> /\ Head(rx).kind = "RelayServers0"
    /\ rx' = Tail(rx)
    /\ relay_servers0' = Head(rx).rs
    /\ relay_servers' = Head(rx).rs
    /\ UNCHANGED <<check, commands>>

\* The loop takes the result of a check, whatever list it was about.
TakeChecked ==
    /\ rx # <<>> /\ Head(rx).kind = "RelayServers"
    /\ rx' = Tail(rx)
    /\ relay_servers' = Head(rx).rs
    /\ UNCHANGED <<relay_servers0, check, commands>>

BugChecksSelection(c) ==
    /\ check[c] = {}
    /\ Cardinality(relay_servers0) > 1
    /\ check' = [check EXCEPT ![c] = relay_servers]
    /\ UNCHANGED <<relay_servers0, relay_servers, rx, commands>>

\* timer_check_relay: a check starts when there is a choice of servers.  The
\* timer's period is the connection timeout, so few checks overlap.
StartCheck(c) ==
    /\ check[c] = {}
    /\ Cardinality(relay_servers0) > 1
    /\ check' = [check EXCEPT ![c] = relay_servers0]
    /\ UNCHANGED <<relay_servers0, relay_servers, rx, commands>>

\* check_relay_servers: the servers that accepted a connection are sent to
\* the loop, unless there are none.
check_relay_servers(c, up) ==
    /\ check[c] # {} /\ up \subseteq check[c]
    /\ check' = [check EXCEPT ![c] = {}]
    /\ IF up = {} THEN UNCHANGED rx ELSE send("RelayServers", up)
    /\ UNCHANGED <<relay_servers0, relay_servers, commands>>

\* Bounds the queue: a check starts when the loop has taken every message.
Idle == rx = <<>>

Loop == parse_relay_servers \/ TakeChecked

RotationNext ==
    \/ \E l \in Lists : Command(l)
    \/ parse_relay_servers
    \/ TakeChecked
    \/ \E c \in Checks :
        \/ Idle /\ StartCheck(c)
        \/ \E up \in SUBSET Servers : check_relay_servers(c, up)

RotationSpec == RotationInit /\ [][RotationNext]_rotationVars

-----------------------------------------------------------------------------
\* A list of several servers that an administrator set takes effect and stays
\* in effect: from some time after the last command on, every server handed
\* out is of the configured list, although checks of older lists may still
\* report.  A single server is never checked, so nothing repairs what a check
\* still in flight does to it.
CommandTakesEffect ==
    <>[](Cardinality(relay_servers0) > 1 => relay_servers \subseteq relay_servers0)
=============================================================================
