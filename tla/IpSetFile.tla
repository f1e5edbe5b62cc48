------------------------------ MODULE IpSetFile ------------------------------
(***************************************************************************)
(* The relay server's black and block lists (src/server/src/relay_server.rs *)
(* lines 33-136): an in-memory set that commands change under a write lock *)
(* and then save whole, through a temporary file that is renamed over the  *)
(* old one.  Every command is a task of its own; DISK_WRITE_LOCK is taken  *)
(* before the set is read for saving.  The process may die at any point    *)
(* and reads the file again when it starts.                                *)
(*                                                                         *)
(* memVer, snapVer, diskVer and acked number the states of the set in the  *)
(* order of the changes; they are history, the code has no counters.       *)
(***************************************************************************)
EXTENDS Naturals

CONSTANTS
    Ips,            \* addresses an administrator may list
    Blank,          \* the empty entry that reading the file adds
    Commands,       \* commands in flight at a time
    Free,           \* the lock is not held
    MaxChanges      \* bound on the changes of the set

ASSUME IpSetAssumption ==
    /\ Blank \notin Ips
    /\ Free \notin Commands
    /\ MaxChanges \in Nat

VARIABLES
    set,                    \* the set in memory
    file,                   \* what the file lists
    DISK_WRITE_LOCK,        \* the command that holds it
    pc,                     \* command -> where it is
    snap,                   \* command -> the copy of the set it saves
    memVer, snapVer, diskVer, cmdVer,
    acked,                  \* newest change whose command was answered
    failed                  \* a save failed and none has succeeded since

ipSetVars == <<set, file, DISK_WRITE_LOCK, pc, snap,
          memVer, snapVer, diskVer, cmdVer, acked, failed>>

Versions == 0 .. MaxChanges

IpSetTypeOK ==
    /\ set \subseteq Ips \cup {Blank}
    /\ file \subseteq Ips \cup {Blank}
    /\ DISK_WRITE_LOCK \in Commands \cup {Free}
    /\ pc \in [Commands -> {"idle", "lock", "read", "write"}]
    /\ snap \in [Commands -> SUBSET (Ips \cup {Blank})]
    /\ memVer \in Versions /\ diskVer \in Versions /\ acked \in Versions
    /\ snapVer \in [Commands -> Versions]
    /\ cmdVer \in [Commands -> Versions]
    /\ failed \in BOOLEAN

IpSetInit ==
    /\ set = {} /\ file = {}
    /\ DISK_WRITE_LOCK = Free
    /\ pc = [c \in Commands |-> "idle"]
    /\ snap = [c \in Commands |-> {}]
    /\ memVer = 0 /\ diskVer = 0 /\ acked = 0
    /\ snapVer = [c \in Commands |-> 0]
    /\ cmdVer = [c \in Commands |-> 0]
    /\ failed = FALSE

-----------------------------------------------------------------------------
\* The change of a command: under the write guard, which is dropped before
\* the set is saved.
change(c, new) ==
    /\ pc[c] = "idle"
    /\ memVer < MaxChanges
    /\ set' = new
    /\ memVer' = memVer + 1
    /\ cmdVer' = [cmdVer EXCEPT ![c] = memVer + 1]
    /\ pc' = [pc EXCEPT ![c] = "lock"]
    /\ UNCHANGED <<file, DISK_WRITE_LOCK, snap, snapVer, diskVer, acked, failed>>

\* Insert the '|'-separated addresses.
set_insert(c, ips) == change(c, set \cup ips)

\* Remove the addresses, or with "all" everything.
set_remove(c, ips) == change(c, set \ ips)
set_remove_all(c) == change(c, {})

BugNoDiskLock(c) ==
    /\ pc[c] = "lock"
    /\ DISK_WRITE_LOCK' = c
    /\ pc' = [pc EXCEPT ![c] = "read"]
    /\ UNCHANGED <<set, file, snap, memVer, snapVer, diskVer, cmdVer, acked, failed>>

\* write_set_to_file: the disk lock first ...
TakeDiskLock(c) ==
    /\ pc[c] = "lock"
    /\ DISK_WRITE_LOCK = Free
    /\ DISK_WRITE_LOCK' = c
    /\ pc' = [pc EXCEPT ![c] = "read"]
    /\ UNCHANGED <<set, file, snap, memVer, snapVer, diskVer, cmdVer, acked, failed>>

\* ... then a copy of the set, under a read guard ...
ReadSet(c) ==
    /\ pc[c] = "read"
    /\ snap' = [snap EXCEPT ![c] = set]
    /\ snapVer' = [snapVer EXCEPT ![c] = memVer]
    /\ pc' = [pc EXCEPT ![c] = "write"]
    /\ UNCHANGED <<set, file, DISK_WRITE_LOCK, memVer, diskVer, cmdVer, acked, failed>>

\* The lock is released and the command answered, whether it was saved or not.
answer(c) ==
    /\ pc[c] = "write"
    /\ DISK_WRITE_LOCK' = Free
    /\ pc' = [pc EXCEPT ![c] = "idle"]
    /\ acked' = IF acked < cmdVer[c] THEN cmdVer[c] ELSE acked
    /\ snap' = [snap EXCEPT ![c] = {}]
    /\ snapVer' = [snapVer EXCEPT ![c] = 0]
    /\ cmdVer' = [cmdVer EXCEPT ![c] = 0]

\* ... then the temporary file is written, synced and renamed ...
Rename(c) ==
    /\ answer(c)
    /\ file' = snap[c]
    /\ diskVer' = snapVer[c]
    /\ failed' = FALSE
    /\ UNCHANGED <<set, memVer>>

\* ... or one of these steps fails, which is only logged.
WriteFails(c) ==
    /\ answer(c)
    /\ failed' = TRUE
    /\ UNCHANGED <<set, file, memVer, diskVer>>

\* The process dies and starts again: commands and locks are gone, the set is
\* read from the file, whose last, empty line becomes an entry of its own.
Restart ==
    /\ set' = file \cup {Blank}
    /\ memVer' = diskVer
    /\ DISK_WRITE_LOCK' = Free
    /\ pc' = [c \in Commands |-> "idle"]
    /\ acked' = IF diskVer < acked THEN diskVer ELSE acked
    /\ snap' = [c \in Commands |-> {}]
    /\ snapVer' = [c \in Commands |-> 0]
    /\ cmdVer' = [c \in Commands |-> 0]
    /\ failed' = FALSE
    /\ UNCHANGED <<file, diskVer>>

IpSetNext ==
    \/ \E c \in Commands :
        \/ \E i \in Ips : set_insert(c, {i}) \/ set_remove(c, {i})
        \/ set_remove_all(c)
        \/ TakeDiskLock(c)
        \/ ReadSet(c)
        \/ Rename(c)
        \/ WriteFails(c)
    \/ Restart

IpSetSpec == IpSetInit /\ [][IpSetNext]_ipSetVars

-----------------------------------------------------------------------------
Listed(s) == s \ {Blank}

\* Once no command is being saved, the file lists what the memory lists,
\* unless the last save failed: no interleaving of two commands leaves the
\* older set on disk (the comment at lines 54-58).
FileMatchesSet ==
    ((\A c \in Commands : pc[c] = "idle") /\ ~failed) => Listed(file) = Listed(set)

\* An answered command survives a crash: the file holds a state of the set at
\* least as new as its change, unless a save failed and none followed.
AnsweredIsSaved == failed \/ acked <= diskVer
=============================================================================
