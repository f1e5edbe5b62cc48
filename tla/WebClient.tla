------------------------------ MODULE WebClient ------------------------------
(***************************************************************************)
(* One Connection object of the web client                                 *)
(* (api/resources/web/js/src/connection.ts and websock.ts): the attempts   *)
(* of start and reconnect run as coroutines that share _ws; each opens a   *)
(* rendezvous socket, then a relay socket, agrees on a key with the peer   *)
(* and handles messages, while the user may close or reconnect at any      *)
(* await.  Messages are received into a buffer that next() empties.  The   *)
(* rendezvous server and the peer are external.                            *)
(***************************************************************************)
EXTENDS Naturals, Sequences

CONSTANTS Attempts,  \* calls of start
          None,
          MaxMsgs    \* bounds the messages in flight on a relay socket

ASSUME MsgAssumption == MaxMsgs \in Nat \ {0}

Socks == Attempts \X {"rdv", "relay"}

ASSUME NoneAssumption == None \notin Socks

rdv(a) == <<a, "rdv">>

relay(a) == <<a, "relay">>

Message == [enc : BOOLEAN, kind : {"signed_id", "key", "no_key", "data"}]

VARIABLES pc,          \* where each attempt awaits
          wait,        \* the socket whose next() it awaits
          sock,        \* the websockets
          buf,         \* _buf of each socket: the kinds of its messages
          ws,          \* _ws
          key,         \* sockets with a secret key
          peer,        \* the peer's side of each relay socket
          toPeer, fromPeer,
          dropped,     \* the user closed or replaced the connection
          interrupted, \* close() ran while an attempt was busy elsewhere
          late,        \* attempts that gave up on a relay socket still opening
          garbled,     \* attempts with a message that was read in the wrong mode
          early        \* attempts with user input sent before secure() was over

vars == <<pc, wait, sock, buf, ws, key, peer, toPeer, fromPeer, dropped, interrupted,
          late, garbled, early>>

wire == <<peer, toPeer, fromPeer, garbled, early>>

\* Awaits that are next() calls, and awaits of something else.
Waiting == {"nextRdv", "handshake", "loop"}

Busy == {"openRelay", "verify", "keying", "handling"}

\* Awaits of secure(): the peer has not been sent a key yet.
Keyless == {"verify", "handshake", "keying"}

TypeOK ==
    /\ pc \in [Attempts -> {"idle", "openRdv", "over"} \cup Waiting \cup Busy]
    /\ wait \in [Attempts -> Socks \cup {None}]
    /\ sock \in [Socks -> {"none", "connecting", "open", "closed"}]
    /\ buf \in [Socks -> Seq({"answer", "signed_id", "data"})]
    /\ ws \in Socks \cup {None}
    /\ key \in SUBSET Socks
    /\ peer \in [Attempts -> {"none", "first", "plain", "secret"}]
    /\ toPeer \in [Attempts -> Seq(Message)] /\ fromPeer \in [Attempts -> Seq(Message)]
    /\ dropped \in BOOLEAN /\ interrupted \in BOOLEAN
    /\ late \in SUBSET Attempts /\ garbled \in SUBSET Attempts /\ early \in SUBSET Attempts

Init ==
    /\ pc = [a \in Attempts |-> "idle"]
    /\ wait = [a \in Attempts |-> None]
    /\ sock = [s \in Socks |-> "none"]
    /\ buf = [s \in Socks |-> <<>>]
    /\ ws = None
    /\ key = {} /\ late = {} /\ garbled = {} /\ early = {}
    /\ peer = [a \in Attempts |-> "none"]
    /\ toPeer = [a \in Attempts |-> <<>>] /\ fromPeer = [a \in Attempts |-> <<>>]
    /\ dropped = FALSE /\ interrupted = FALSE

-----------------------------------------------------------------------------
BugStatusCleared(socks, s) == IF s = None THEN socks ELSE [socks EXCEPT ![s] = ""]

\* Websock.close: an opening socket fails, an open one stops delivering; what
\* is buffered stays.
Closed(socks, s) == IF s = None THEN socks ELSE [socks EXCEPT ![s] = "closed"]

\* An attempt that close() does not reach at once: it awaits something other
\* than its socket, or a message is already in the buffer it waits for.
Unreached(a) == pc[a] \in Busy \/ (pc[a] \in Waiting /\ buf[wait[a]] # <<>>)

Interrupts(A) == interrupted \/ \E a \in A : Unreached(a)

\* An attempt calls next() on a socket: it takes what is buffered, and fails at
\* once on an empty buffer unless the socket is open.
Awaits(a, at, s) ==
    IF s # None /\ (sock'[s] = "open" \/ buf'[s] # <<>>)
    THEN pc' = [pc EXCEPT ![a] = at] /\ wait' = [wait EXCEPT ![a] = s]
    ELSE pc' = [pc EXCEPT ![a] = "over"] /\ wait' = [wait EXCEPT ![a] = None]

Goes(a, at) ==
    /\ pc' = [pc EXCEPT ![a] = at]
    /\ wait' = [wait EXCEPT ![a] = None]

BugReconnectKeepsSocket(a) ==
    /\ pc[a] = "idle"
    /\ ~dropped
    /\ interrupted' = (ws # None /\ Interrupts(Attempts))
    /\ sock' = [sock EXCEPT ![rdv(a)] = "connecting"]
    /\ ws' = rdv(a)
    /\ Goes(a, "openRdv")
    /\ UNCHANGED <<buf, key, dropped, late, wire>>

\* start of a connect, or reconnect: close() and start again.
Start(a) ==
    /\ pc[a] = "idle"
    /\ ~dropped
    /\ interrupted' = (ws # None /\ Interrupts(Attempts))
    /\ sock' = [Closed(sock, ws) EXCEPT ![rdv(a)] = "connecting"]
    /\ ws' = rdv(a)
    /\ Goes(a, "openRdv")
    /\ UNCHANGED <<buf, key, dropped, late, wire>>

BugCloseForgets ==
    /\ ws # None
    /\ ~dropped
    /\ dropped' = TRUE
    /\ interrupted' = Interrupts(Attempts)
    /\ UNCHANGED <<pc, wait, sock, buf, ws, key, late, wire>>

\* close of the user interface, or newConn: the object is closed and forgotten.
Close ==
    /\ ws # None
    /\ ~dropped
    /\ dropped' = TRUE
    /\ interrupted' = Interrupts(Attempts)
    /\ sock' = Closed(sock, ws)
    /\ UNCHANGED <<pc, wait, buf, ws, key, late, wire>>

\* The rendezvous socket opens: the punch hole request is sent.  An attempt
\* that timed out is not there to use it.
OpenRdv(a) ==
    /\ sock[rdv(a)] = "connecting"
    /\ sock' = [sock EXCEPT ![rdv(a)] = "open"]
    /\ UNCHANGED buf
    /\ IF pc[a] = "openRdv" THEN Awaits(a, "nextRdv", rdv(a)) ELSE UNCHANGED <<pc, wait>>
    /\ UNCHANGED <<ws, key, dropped, interrupted, late, wire>>

\* The rendezvous server answers once; the answer enters the buffer.
RdvAnswers(a) ==
    /\ pc[a] = "nextRdv" /\ wait[a] = rdv(a)
    /\ sock[rdv(a)] = "open" /\ buf[rdv(a)] = <<>>
    /\ buf' = [buf EXCEPT ![rdv(a)] = <<"answer">>]
    /\ UNCHANGED <<pc, wait, sock, ws, key, dropped, interrupted, late, wire>>

\* _start takes the answer and closes the socket: a relay to use, or a reason
\* to stop.
Answer(a, relayed) ==
    /\ pc[a] = "nextRdv"
    /\ buf[rdv(a)] # <<>>
    /\ buf' = [buf EXCEPT ![rdv(a)] = Tail(@)]
    /\ IF relayed
       THEN /\ sock' = [sock EXCEPT ![rdv(a)] = "closed", ![relay(a)] = "connecting"]
            /\ Goes(a, "openRelay")
       ELSE /\ sock' = [sock EXCEPT ![rdv(a)] = "closed"]
            /\ Goes(a, "over")
    /\ UNCHANGED <<ws, key, dropped, interrupted, late, wire>>

\* The relay socket opens: only now _ws becomes the relay socket.
OpenRelay(a) ==
    /\ sock[relay(a)] = "connecting"
    /\ sock' = [sock EXCEPT ![relay(a)] = "open"]
    /\ IF pc[a] = "openRelay"
       THEN ws' = relay(a) /\ Goes(a, "verify")
       ELSE UNCHANGED <<ws, pc, wait>>
    /\ UNCHANGED <<buf, key, dropped, interrupted, late, wire>>

\* open() fails: the socket was refused or closed, or 12 seconds have passed
\* and it is still opening.
OpenFails(a, s, timeout) ==
    /\ \/ pc[a] = "openRdv" /\ s = rdv(a)
       \/ pc[a] = "openRelay" /\ s = relay(a)
    /\ Goes(a, "over")
    /\ sock' = IF timeout THEN sock ELSE Closed(sock, s)
    /\ late' = IF timeout /\ s = relay(a) THEN late \cup {a} ELSE late
    /\ UNCHANGED <<buf, ws, key, dropped, interrupted, wire>>

\* The remote end closes an open socket.
Reset(s) ==
    /\ sock[s] = "open"
    /\ sock' = [sock EXCEPT ![s] = "closed"]
    /\ UNCHANGED <<pc, wait, buf, ws, key, dropped, interrupted, late, wire>>

BugNextWaits(a) ==
    /\ pc[a] \in Waiting
    /\ buf[wait[a]] = <<>>
    /\ sock[wait[a]] # "open"
    /\ Goes(a, "over")
    /\ UNCHANGED <<sock, buf, ws, key, dropped, interrupted, late, wire>>

\* next() rejects: the socket is no longer open, or nothing came for 12
\* seconds; start shows the error and leaves the socket as it is.
NextFails(a) ==
    /\ pc[a] \in Waiting
    /\ buf[wait[a]] = <<>>
    /\ Goes(a, "over")
    /\ UNCHANGED <<sock, buf, ws, key, dropped, interrupted, late, wire>>

-----------------------------------------------------------------------------
\* sendMessage on _ws: encrypted once the socket has a key.  What is sent on a
\* rendezvous socket or on one that is not open is lost.
Sends(kind, keys) ==
    toPeer' = IF ws # None /\ ws[2] = "relay" /\ sock[ws] = "open"
              THEN [toPeer EXCEPT ![ws[1]] = Append(@, [enc |-> ws \in keys, kind |-> kind])]
              ELSE toPeer

\* setByName of the user interface: a key, the mouse, an option, a login or a
\* refresh is sent at once on whatever _ws is, also while secure() is running.
UserSends ==
    /\ ws # None
    /\ ~dropped
    /\ Len(fromPeer[ws[1]]) + Len(buf[ws]) + Len(toPeer[ws[1]]) < MaxMsgs
    /\ Sends("data", key)
    /\ early' = early \cup {a \in Attempts : /\ ws = relay(a) /\ sock[ws] = "open"
                                            /\ pc[a] \in Keyless}
    /\ UNCHANGED <<pc, wait, sock, buf, ws, key, peer, fromPeer, dropped, interrupted,
                   late, garbled>>

\* _recv_message: the message is decrypted if the socket has a key by then.
Receive(a) ==
    /\ sock[relay(a)] = "open"
    /\ fromPeer[a] # <<>>
    /\ fromPeer' = [fromPeer EXCEPT ![a] = Tail(@)]
    /\ garbled' = IF Head(fromPeer[a]).enc = (relay(a) \in key) THEN garbled ELSE garbled \cup {a}
    /\ buf' = [buf EXCEPT ![relay(a)] = Append(@, Head(fromPeer[a]).kind)]
    /\ UNCHANGED <<pc, wait, sock, ws, key, peer, toPeer, dropped, interrupted, late, early>>

\* secure once libsodium is ready: without a valid signed key an empty one is
\* sent and the session is not secure.
Verify(a, ok) ==
    /\ pc[a] = "verify"
    /\ UNCHANGED <<sock, buf>>
    /\ IF ok
       THEN Awaits(a, "handshake", ws) /\ UNCHANGED toPeer
       ELSE Awaits(a, "loop", ws) /\ Sends("no_key", key)
    /\ UNCHANGED <<ws, key, peer, fromPeer, dropped, interrupted, late, garbled, early>>

\* next() resolves with a buffered message.  That an interrupted attempt may
\* wait on the rendezvous socket of the next one is left out.
Takes(a, at) ==
    /\ pc[a] = at
    /\ wait[a][2] = "relay"
    /\ buf[wait[a]] # <<>>
    /\ buf' = [buf EXCEPT ![wait[a]] = Tail(@)]

\* secure takes its first message: it verifies a signed id, and gives the key
\* up for anything else.
Handshake(a) ==
    /\ Takes(a, "handshake")
    /\ UNCHANGED sock
    /\ IF Head(buf[wait[a]]) = "signed_id"
       THEN Goes(a, "keying") /\ UNCHANGED toPeer
       ELSE Awaits(a, "loop", ws) /\ Sends("no_key", key)
    /\ UNCHANGED <<ws, key, peer, fromPeer, dropped, interrupted, late, garbled, early>>

BugKeyFirst(a, ok) ==
    /\ pc[a] = "keying"
    /\ key' = IF ok THEN key \cup {ws} ELSE key
    /\ Sends(IF ok THEN "key" ELSE "no_key", key')
    /\ UNCHANGED <<sock, buf>>
    /\ Awaits(a, "loop", ws)
    /\ UNCHANGED <<ws, peer, fromPeer, dropped, interrupted, late, garbled, early>>

\* The rest of secure: the key is sent in the clear, then used; a signature
\* that does not verify falls back to a session without a key.
SendKey(a, ok) ==
    /\ pc[a] = "keying"
    /\ Sends(IF ok THEN "key" ELSE "no_key", key)
    /\ key' = IF ok THEN key \cup {ws} ELSE key
    /\ UNCHANGED <<sock, buf>>
    /\ Awaits(a, "loop", ws)
    /\ UNCHANGED <<ws, peer, fromPeer, dropped, interrupted, late, garbled, early>>

\* msgLoop takes a message, may answer it, and may await a decompression.
Loop(a, answers) ==
    /\ Takes(a, "loop")
    /\ IF answers THEN Sends("data", key) ELSE UNCHANGED toPeer
    /\ Goes(a, "handling")
    /\ UNCHANGED <<sock, ws, key, peer, fromPeer, dropped, interrupted, late, garbled, early>>

\* msgLoop goes round: next() on whatever _ws is now.
Handled(a) ==
    /\ pc[a] = "handling"
    /\ UNCHANGED <<sock, buf>>
    /\ Awaits(a, "loop", ws)
    /\ UNCHANGED <<ws, key, dropped, interrupted, late, wire>>

\* handleMisc: a close reason closes _ws and ends the loop; a permission the
\* client does not know ends it too, but closes nothing.
CloseReason(a) ==
    /\ Takes(a, "loop")
    /\ sock' = Closed(sock, ws)
    /\ interrupted' = Interrupts(Attempts \ {a})
    /\ Goes(a, "over")
    /\ UNCHANGED <<ws, key, dropped, late, wire>>

UnknownPermission(a) ==
    /\ Takes(a, "loop")
    /\ Goes(a, "over")
    /\ UNCHANGED <<sock, ws, key, dropped, interrupted, late, wire>>

-----------------------------------------------------------------------------
\* The peer joins the relay, sends its signed id and waits for a key; then it
\* talks in the mode it was given.
PeerJoins(a) ==
    /\ peer[a] = "none"
    /\ sock[relay(a)] = "open"
    /\ a \notin late
    /\ peer' = [peer EXCEPT ![a] = "first"]
    /\ fromPeer' = [fromPeer EXCEPT ![a] = Append(@, [enc |-> FALSE, kind |-> "signed_id"])]
    /\ UNCHANGED <<pc, wait, sock, buf, ws, key, toPeer, dropped, interrupted, late, garbled, early>>

PeerReads(a) ==
    /\ peer[a] # "none"
    /\ toPeer[a] # <<>>
    /\ LET m == Head(toPeer[a])
       IN /\ garbled' = IF m.enc = (peer[a] = "secret") THEN garbled ELSE garbled \cup {a}
          /\ peer' = IF peer[a] = "first"
                     THEN [peer EXCEPT ![a] = IF m.kind = "key" THEN "secret" ELSE "plain"]
                     ELSE peer
    /\ toPeer' = [toPeer EXCEPT ![a] = Tail(@)]
    /\ UNCHANGED <<pc, wait, sock, buf, ws, key, fromPeer, dropped, interrupted, late, early>>

PeerSends(a) ==
    /\ peer[a] \in {"plain", "secret"}
    /\ Len(fromPeer[a]) + Len(buf[relay(a)]) < MaxMsgs /\ Len(toPeer[a]) < MaxMsgs
    /\ fromPeer' = [fromPeer EXCEPT ![a] = Append(@, [enc |-> peer[a] = "secret", kind |-> "data"])]
    /\ UNCHANGED <<pc, wait, sock, buf, ws, key, peer, toPeer, dropped, interrupted, late, garbled, early>>

\* The next() of an attempt that has no session yet polls: it takes a message
\* or, when its time is over, fails.
Polls(a) ==
    \/ pc[a] # "loop" /\ NextFails(a)
    \/ Handshake(a)
    \/ \E relayed \in BOOLEAN : Answer(a, relayed)

\* What an attempt does when another await is over.
Proceeds(a) == Handled(a) \/ \E ok \in BOOLEAN : Verify(a, ok) \/ SendKey(a, ok)

Next ==
    \/ Close \/ UserSends
    \/ \E a \in Attempts :
        \/ Start(a) \/ OpenRdv(a) \/ OpenRelay(a) \/ NextFails(a) \/ Handshake(a)
        \/ \E ok \in BOOLEAN : Answer(a, ok) \/ Loop(a, ok)
        \/ Proceeds(a)
        \/ \E s \in Socks, timeout \in BOOLEAN : OpenFails(a, s, timeout)
        \/ CloseReason(a) \/ UnknownPermission(a) \/ Receive(a)
        \/ RdvAnswers(a) \/ PeerJoins(a) \/ PeerReads(a) \/ PeerSends(a)
    \/ \E s \in Socks : Reset(s)

Spec == Init /\ [][Next]_vars

\* Timers fire, libsodium loads, and what is buffered is taken.
FairSpec ==
    /\ Spec
    /\ \A a \in Attempts :
        /\ \A s \in Socks : WF_vars(OpenFails(a, s, TRUE))
        /\ WF_vars(Polls(a))
        /\ WF_vars(Proceeds(a))

-----------------------------------------------------------------------------
\* Every open socket is the one close() would close, so a reconnect or a close
\* leaves no session behind (connection.ts), except a relay socket that opens
\* after its attempt gave up, and after a close() that found an attempt busy.
OpenSocketsAreHeld ==
    ~interrupted => \A s \in Socks : sock[s] = "open" => s = ws \/ s[1] \in late

\* A connection the user left takes no message any more, unless the close found
\* an attempt busy (close in globals.js, which forgets the connection).
DroppedIsSilent ==
    dropped /\ ~interrupted =>
        \A a \in Attempts :
            /\ pc[a] \notin Busy
            /\ pc[a] \in Waiting => sock[wait[a]] # "open" /\ buf[wait[a]] = <<>>

\* Both ends read every message in the mode it was written in, whichever way
\* secure() falls back and whatever the user sends meanwhile: only input that
\* went out before the key, on a connection that then used a key, is followed
\* by messages the peer cannot read (setByName checks no state).
CipherAgreed == ~interrupted => \A a \in garbled : a \in early /\ relay(a) \in key

\* Every attempt becomes a session or ends, although the rendezvous server,
\* the relay and the peer may never answer (open and next time out).
StartsEnd == \A a \in Attempts : pc[a] = "openRdv" ~> pc[a] \in {"loop", "over"}
=============================================================================
