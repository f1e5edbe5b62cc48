--------------------------- MODULE WebClientProofs ---------------------------
(***************************************************************************)
(* The connections of the web client, for any number of attempts and of    *)
(* messages in flight: the sockets they hold, the silence after a close    *)
(* and the cipher modes both ends agree on.                                *)
(***************************************************************************)
EXTENDS WebClient, SequenceTheorems, TLAPS

\* What holds whatever close() interrupts: the peer sends no keys, and next()
\* is called on a socket.
Typed ==
    /\ TypeOK
    /\ \A a \in Attempts : pc[a] \in Waiting => wait[a] \in Socks
    /\ \A a \in Attempts : \A i \in 1..Len(fromPeer[a]) :
            fromPeer[a][i].kind \in {"signed_id", "data"}
    /\ ws = None => ~interrupted /\ \A a \in Attempts : pc[a] = "idle"

\* Where attempt a is, and the socket it and _ws hold.
AttemptHolds(a) ==
    /\ pc[a] = "idle" => sock[rdv(a)] = "none"
    /\ pc[a] \in {"idle", "openRdv", "nextRdv"} => sock[relay(a)] = "none"
    /\ pc[a] = "openRelay" => ws = rdv(a) /\ sock[rdv(a)] = "closed"
    /\ pc[a] \in {"verify", "keying", "handling"} => ws = relay(a)
    /\ pc[a] = "nextRdv" => wait[a] = rdv(a)
    /\ pc[a] \in {"handshake", "loop"} => wait[a] = relay(a)
    /\ pc[a] \in Waiting => ws = wait[a] \/ (sock[wait[a]] = "closed" /\ buf[wait[a]] = <<>>)
    /\ sock[rdv(a)] \in {"connecting", "open"} => ws = rdv(a)
    /\ sock[relay(a)] = "open" => ws = relay(a) \/ a \in late
    /\ sock[relay(a)] = "connecting" => pc[a] = "openRelay" \/ a \in late
    /\ a \in late => pc[a] = "over"
    /\ sock[rdv(a)] = "none" => ws # rdv(a)
    /\ sock[relay(a)] = "none" => ws # relay(a)

\* A close() that found no attempt busy leaves none that can go on.
DroppedEnds ==
    dropped =>
        /\ ws # None /\ sock[ws] = "closed"
        /\ \A a \in Attempts :
            /\ pc[a] \notin Busy
            /\ pc[a] \in Waiting => sock[wait[a]] = "closed" /\ buf[wait[a]] = <<>>

\* The peer reads a key as its first message, or has read it.
KeyOnItsWay(a) ==
    \/ peer[a] = "secret"
    \/ peer[a] \in {"none", "first"} /\ toPeer[a] # <<>> /\ toPeer[a][1].kind = "key"

\* The key exchange of attempt a: nothing precedes the opening of the relay
\* socket or the first message of the client, the peer is silent after its
\* signed id until then, and each queue is in the mode its reader will be in.
ModesAgree(a) ==
    /\ sock[relay(a)] \in {"none", "connecting"} =>
        /\ peer[a] = "none" /\ relay(a) \notin key
        /\ toPeer[a] = <<>>
    /\ pc[a] \in Keyless =>
        /\ toPeer[a] = <<>> /\ relay(a) \notin key /\ peer[a] \in {"none", "first"}
    /\ pc[a] = "keying" => peer[a] = "first" /\ fromPeer[a] = <<>>
    /\ peer[a] = "none" => fromPeer[a] = <<>> /\ buf[relay(a)] = <<>>
    /\ peer[a] = "first" => Len(fromPeer[a]) + Len(buf[relay(a)]) <= 1
    /\ sock[relay(a)] = "open" =>
        /\ relay(a) \in key <=> KeyOnItsWay(a)
        /\ relay(a) \in key => peer[a] # "none"
        /\ \A i \in 1..Len(fromPeer[a]) : fromPeer[a][i].enc <=> relay(a) \in key
    /\ peer[a] \in {"plain", "secret"} =>
        \A i \in 1..Len(toPeer[a]) : toPeer[a][i].enc <=> peer[a] = "secret"
    /\ peer[a] \in {"none", "first"} /\ toPeer[a] # <<>> =>
        /\ ~toPeer[a][1].enc
        /\ \A i \in 2..Len(toPeer[a]) : toPeer[a][i].enc <=> toPeer[a][1].kind = "key"

\* What holds of attempt a after early input, until it uses a key: nothing
\* is encrypted, and the peer gets no key.
PlainSoFar(a) ==
    /\ a \notin garbled /\ peer[a] # "secret"
    /\ \A i \in 1..Len(toPeer[a]) : ~toPeer[a][i].enc /\ toPeer[a][i].kind # "key"
    /\ \A i \in 1..Len(fromPeer[a]) : ~fromPeer[a][i].enc

\* The inductive invariant.
Inv ==
    /\ Typed
    /\ ~interrupted =>
        /\ \A a \in Attempts : AttemptHolds(a)
        /\ \A a \in Attempts : a \notin early => ModesAgree(a) /\ a \notin garbled
        /\ \A a \in early : relay(a) \notin key => PlainSoFar(a)
        /\ DroppedEnds

-----------------------------------------------------------------------------
(* Types *)

Places == {"idle", "openRdv", "over"} \cup Waiting \cup Busy

LEMMA SockFacts ==
    /\ \A a \in Attempts :
        /\ rdv(a) \in Socks /\ relay(a) \in Socks
        /\ rdv(a) # None /\ relay(a) # None
        /\ rdv(a)[1] = a /\ relay(a)[1] = a /\ rdv(a)[2] = "rdv" /\ relay(a)[2] = "relay"
    /\ \A a, b \in Attempts :
        /\ rdv(a) = rdv(b) => a = b
        /\ relay(a) = relay(b) => a = b
        /\ rdv(a) # relay(b)
    /\ \A s \in Socks :
        /\ s[1] \in Attempts /\ s # None
        /\ s = rdv(s[1]) \/ s = relay(s[1])
        /\ s[2] = "relay" => s = relay(s[1])
<1>1. \A s \in Socks : \E a \in Attempts : s = rdv(a) \/ s = relay(a)
    BY DEF Socks, rdv, relay
<1>2. \A a \in Attempts : rdv(a) \in Socks /\ relay(a) \in Socks
    BY DEF Socks, rdv, relay
<1>3. \A a \in Attempts :
        rdv(a)[1] = a /\ relay(a)[1] = a /\ rdv(a)[2] = "rdv" /\ relay(a)[2] = "relay"
    BY DEF rdv, relay
<1>4. \A a, b \in Attempts : (rdv(a) = rdv(b) => a = b) /\ (relay(a) = relay(b) => a = b) /\ rdv(a) # relay(b)
    BY <1>3
<1>5. ASSUME NEW s \in Socks
      PROVE  /\ s[1] \in Attempts /\ s # None
             /\ s = rdv(s[1]) \/ s = relay(s[1])
             /\ s[2] = "relay" => s = relay(s[1])
    BY <1>1, <1>3, NoneAssumption
<1> QED BY <1>2, <1>3, <1>4, <1>5, NoneAssumption

LEMMA AwaitsFacts ==
    ASSUME pc \in [Attempts -> Places], wait \in [Attempts -> Socks \cup {None}],
           NEW a \in Attempts, NEW at \in Waiting, NEW s \in Socks \cup {None}, Awaits(a, at, s)
    PROVE  /\ pc' \in [Attempts -> Places] /\ wait' \in [Attempts -> Socks \cup {None}]
           /\ \A b \in Attempts : b # a => pc'[b] = pc[b] /\ wait'[b] = wait[b]
           /\ \/ pc'[a] = at /\ wait'[a] = s /\ s # None /\ s \in Socks
              \/ pc'[a] = "over"
<1> QED BY DEF Awaits, Places

LEMMA GoesFacts ==
    ASSUME pc \in [Attempts -> Places], wait \in [Attempts -> Socks \cup {None}],
           NEW a \in Attempts, NEW at \in Places, Goes(a, at)
    PROVE  /\ pc' \in [Attempts -> Places] /\ wait' \in [Attempts -> Socks \cup {None}]
           /\ \A b \in Attempts : b # a => pc'[b] = pc[b] /\ wait'[b] = wait[b]
           /\ pc'[a] = at
<1> QED BY DEF Goes

LEMMA ClosedFacts ==
    ASSUME sock \in [Socks -> {"none", "connecting", "open", "closed"}], NEW s \in Socks \cup {None}
    PROVE  /\ Closed(sock, s) \in [Socks -> {"none", "connecting", "open", "closed"}]
           /\ \A t \in Socks : Closed(sock, s)[t] = IF t = s THEN "closed" ELSE sock[t]
<1> QED BY NoneAssumption DEF Closed

LEMMA SendsFacts ==
    ASSUME toPeer \in [Attempts -> Seq(Message)], ws \in Socks \cup {None}, NEW keys,
           NEW kind \in {"key", "no_key", "data"}, Sends(kind, keys)
    PROVE  /\ toPeer' \in [Attempts -> Seq(Message)]
           /\ \/ toPeer' = toPeer /\ \A b \in Attempts : ws = relay(b) => sock[ws] # "open"
              \/ \E b \in Attempts :
                    /\ ws = relay(b) /\ sock[ws] = "open"
                    /\ toPeer'[b] = Append(toPeer[b], [enc |-> relay(b) \in keys, kind |-> kind])
                    /\ \A c \in Attempts : c # b => toPeer'[c] = toPeer[c]
<1>1. CASE ws # None /\ ws[2] = "relay" /\ sock[ws] = "open"
  <2>1. ws \in Socks
    BY <1>1
  <2>2. ws[1] \in Attempts /\ ws = relay(ws[1])
    BY <1>1, <2>1, SockFacts
  <2>3. [enc |-> ws \in keys, kind |-> kind] \in Message
    BY DEF Message
  <2>4. toPeer' = [toPeer EXCEPT ![ws[1]] = Append(@, [enc |-> ws \in keys, kind |-> kind])]
    BY <1>1 DEF Sends
  <2>5. Append(toPeer[ws[1]], [enc |-> ws \in keys, kind |-> kind]) \in Seq(Message)
    BY <2>2, <2>3
  <2> QED BY <1>1, <2>2, <2>4, <2>5
<1>2. CASE ~(ws # None /\ ws[2] = "relay" /\ sock[ws] = "open")
  <2>1. toPeer' = toPeer
    BY <1>2 DEF Sends
  <2> QED BY <1>2, <2>1, SockFacts
<1> QED BY <1>1, <1>2

LEMMA TakesFacts ==
    ASSUME Typed, NEW a \in Attempts, NEW at \in {"handshake", "loop"}, Takes(a, at)
    PROVE  /\ pc[a] = at /\ wait[a] \in Socks /\ buf[wait[a]] # <<>>
           /\ buf' \in [Socks -> Seq({"answer", "signed_id", "data"})]
           /\ buf'[wait[a]] = Tail(buf[wait[a]])
           /\ \A s \in Socks : s # wait[a] => buf'[s] = buf[s]
<1>1. pc[a] = at /\ wait[a] \in Socks /\ buf[wait[a]] # <<>>
    BY DEF Takes, Typed, Waiting
<1>2. buf \in [Socks -> Seq({"answer", "signed_id", "data"})]
    BY DEF Typed, TypeOK
<1>3. Tail(buf[wait[a]]) \in Seq({"answer", "signed_id", "data"})
    BY <1>1, <1>2
<1> QED BY <1>1, <1>2, <1>3 DEF Takes

LEMMA TypedInitial == Init => Typed
<1> SUFFICES ASSUME Init PROVE Typed
    OBVIOUS
<1>1. pc \in [Attempts -> Places] /\ wait \in [Attempts -> Socks \cup {None}]
    BY DEF Init, Places
<1>2. /\ toPeer \in [Attempts -> Seq(Message)] /\ fromPeer \in [Attempts -> Seq(Message)]
      /\ \A a \in Attempts : Len(fromPeer[a]) = 0
    BY DEF Init
<1>3. buf \in [Socks -> Seq({"answer", "signed_id", "data"})]
    BY DEF Init
<1>4. sock \in [Socks -> {"none", "connecting", "open", "closed"}]
    BY DEF Init
<1>5. peer \in [Attempts -> {"none", "first", "plain", "secret"}]
    BY DEF Init
<1>6. /\ ws \in Socks \cup {None} /\ key \in SUBSET Socks /\ late \in SUBSET Attempts
      /\ dropped \in BOOLEAN /\ interrupted \in BOOLEAN
      /\ garbled \in SUBSET Attempts /\ early \in SUBSET Attempts
    BY DEF Init
<1>7. TypeOK
    BY <1>1, <1>2, <1>3, <1>4, <1>5, <1>6 DEF TypeOK, Places
<1>8. \A a \in Attempts : pc[a] = "idle" /\ pc[a] \notin Waiting
    BY DEF Init, Waiting
<1>9. \A a \in Attempts : \A i \in 1..Len(fromPeer[a]) : FALSE
    BY <1>2
<1> QED BY <1>7, <1>8, <1>9 DEF Init, Typed

\* Steps of the user, and of attempts that send nothing.
LEMMA QuietTyped ==
    ASSUME Typed, UNCHANGED wire, UNCHANGED key,
           sock' \in [Socks -> {"none", "connecting", "open", "closed"}],
           buf' \in [Socks -> Seq({"answer", "signed_id", "data"})],
           ws' \in Socks \cup {None},
           ws' = None => ~interrupted' /\ \A b \in Attempts : pc'[b] = "idle",
           dropped' \in BOOLEAN, interrupted' \in BOOLEAN, late' \in SUBSET Attempts,
           pc' \in [Attempts -> Places], wait' \in [Attempts -> Socks \cup {None}],
           \A b \in Attempts : pc'[b] \in Waiting => wait'[b] \in Socks
    PROVE  Typed'
<1> QED BY DEF Typed, TypeOK, wire, Places

LEMMA UserTyped ==
    ASSUME Typed, Close \/ \E a \in Attempts : Start(a)
    PROVE  Typed'
<1>0. /\ pc \in [Attempts -> Places] /\ wait \in [Attempts -> Socks \cup {None}]
      /\ sock \in [Socks -> {"none", "connecting", "open", "closed"}]
      /\ ws \in Socks \cup {None} /\ \A b \in Attempts : pc[b] \in Waiting => wait[b] \in Socks
      /\ buf \in [Socks -> Seq({"answer", "signed_id", "data"})]
      /\ interrupted \in BOOLEAN /\ dropped \in BOOLEAN /\ late \in SUBSET Attempts
    BY DEF Typed, TypeOK, Places
<1>1. \A A : Interrupts(A) \in BOOLEAN
    BY <1>0 DEF Interrupts
<1>2. CASE Close
  <2>1. sock' \in [Socks -> {"none", "connecting", "open", "closed"}]
    BY <1>0, <1>2, ClosedFacts DEF Close
  <2>2. /\ UNCHANGED <<pc, wait, buf, ws, key, late, wire>> /\ ws # None
        /\ dropped' = TRUE /\ interrupted' = Interrupts(Attempts)
    BY <1>2 DEF Close
  <2> QED BY <1>0, <1>1, <2>1, <2>2, QuietTyped
<1>3. ASSUME NEW a \in Attempts, Start(a) PROVE Typed'
  <2>1. sock' \in [Socks -> {"none", "connecting", "open", "closed"}]
    BY <1>0, <1>3, ClosedFacts DEF Start
  <2>2. /\ Goes(a, "openRdv") /\ ws' = rdv(a)
        /\ UNCHANGED <<buf, key, dropped, late, wire>>
        /\ interrupted' = (ws # None /\ Interrupts(Attempts))
    BY <1>3 DEF Start
  <2>3. "openRdv" \in Places /\ "openRdv" \notin Waiting
    BY DEF Places, Waiting
  <2>4. /\ pc' \in [Attempts -> Places] /\ wait' \in [Attempts -> Socks \cup {None}]
        /\ \A b \in Attempts : pc'[b] \in Waiting => wait'[b] \in Socks
    BY <1>0, <2>2, <2>3, GoesFacts
  <2>5. interrupted' \in BOOLEAN
    BY <2>2
  <2>6. ws' \in Socks /\ ws' # None
    BY <2>2, SockFacts
  <2> QED BY <1>0, <2>1, <2>2, <2>4, <2>5, <2>6, QuietTyped
<1> QED BY <1>2, <1>3

LEMMA SocketTyped ==
    ASSUME Typed, NEW a \in Attempts,
           \/ OpenRdv(a) \/ OpenRelay(a) \/ NextFails(a) \/ RdvAnswers(a)
           \/ \E relayed \in BOOLEAN : Answer(a, relayed)
           \/ \E s \in Socks, timeout \in BOOLEAN : OpenFails(a, s, timeout)
           \/ \E s \in Socks : Reset(s)
    PROVE  Typed'
<1>0. /\ pc \in [Attempts -> Places] /\ wait \in [Attempts -> Socks \cup {None}]
      /\ sock \in [Socks -> {"none", "connecting", "open", "closed"}]
      /\ ws \in Socks \cup {None} /\ \A b \in Attempts : pc[b] \in Waiting => wait[b] \in Socks
      /\ buf \in [Socks -> Seq({"answer", "signed_id", "data"})]
      /\ interrupted \in BOOLEAN /\ dropped \in BOOLEAN /\ late \in SUBSET Attempts
      /\ ws = None => ~interrupted /\ \A b \in Attempts : pc[b] = "idle"
    BY DEF Typed, TypeOK, Places
<1>1. UNCHANGED <<wire, key, dropped, interrupted>>
    BY DEF OpenRdv, OpenRelay, NextFails, RdvAnswers, Answer, OpenFails, Reset
<1>2. sock' \in [Socks -> {"none", "connecting", "open", "closed"}]
  <2>1. CASE \E s \in Socks, timeout \in BOOLEAN : OpenFails(a, s, timeout)
    BY <1>0, <2>1, ClosedFacts DEF OpenFails
  <2>2. CASE ~\E s \in Socks, timeout \in BOOLEAN : OpenFails(a, s, timeout)
    BY <1>0, <2>2 DEF OpenRdv, OpenRelay, NextFails, RdvAnswers, Answer, Reset
  <2> QED BY <2>1, <2>2
<1>3. buf' \in [Socks -> Seq({"answer", "signed_id", "data"})]
  <2>1. CASE RdvAnswers(a)
    <3>1. <<"answer">> \in Seq({"answer", "signed_id", "data"})
      OBVIOUS
    <3> QED BY <1>0, <2>1, <3>1 DEF RdvAnswers
  <2>2. CASE \E relayed \in BOOLEAN : Answer(a, relayed)
    <3>1. buf[rdv(a)] \in Seq({"answer", "signed_id", "data"}) /\ buf[rdv(a)] # <<>>
      BY <1>0, <2>2, SockFacts DEF Answer
    <3>2. Tail(buf[rdv(a)]) \in Seq({"answer", "signed_id", "data"})
      BY <3>1
    <3> QED BY <1>0, <2>2, <3>2 DEF Answer
  <2>3. CASE UNCHANGED buf
    BY <1>0, <2>3
  <2> QED BY <2>1, <2>2, <2>3 DEF OpenRdv, OpenRelay, NextFails, OpenFails, Reset
<1>4. ws' \in Socks \cup {None} /\ (ws' = None => ws = None)
    BY <1>0, SockFacts DEF OpenRdv, OpenRelay, NextFails, RdvAnswers, Answer, OpenFails, Reset
<1>5. ws = None => UNCHANGED pc
  <2>1. ASSUME ws = None PROVE pc[a] = "idle"
    BY <1>0, <2>1
  <2> QED BY <2>1 DEF OpenRdv, OpenRelay, NextFails, RdvAnswers, Answer, OpenFails, Reset, Waiting
<1>6. late' \in SUBSET Attempts
    BY <1>0 DEF OpenRdv, OpenRelay, NextFails, RdvAnswers, Answer, OpenFails, Reset
<1>7. /\ pc' \in [Attempts -> Places] /\ wait' \in [Attempts -> Socks \cup {None}]
      /\ \A b \in Attempts : pc'[b] \in Waiting => wait'[b] \in Socks
  <2>1. CASE UNCHANGED <<pc, wait>>
    BY <1>0, <2>1
  <2>2. ASSUME NEW at \in {"over", "openRelay", "verify"}, Goes(a, at)
        PROVE  /\ pc' \in [Attempts -> Places] /\ wait' \in [Attempts -> Socks \cup {None}]
               /\ \A b \in Attempts : pc'[b] \in Waiting => wait'[b] \in Socks
    <3>1. at \in Places /\ at \notin Waiting
      BY DEF Places, Waiting, Busy
    <3> QED BY <1>0, <2>2, <3>1, GoesFacts
  <2>3. CASE Awaits(a, "nextRdv", rdv(a))
    <3>1. "nextRdv" \in Waiting /\ rdv(a) \in Socks /\ "over" \notin Waiting
      BY SockFacts DEF Waiting
    <3> QED BY <1>0, <2>3, <3>1, AwaitsFacts
  <2> QED BY <2>1, <2>2, <2>3 DEF OpenRdv, OpenRelay, NextFails, RdvAnswers, Answer, OpenFails, Reset
<1> QED BY <1>0, <1>1, <1>2, <1>3, <1>4, <1>6, <1>7, <1>5, QuietTyped

LEMMA SessionTyped ==
    ASSUME Typed, NEW a \in Attempts,
           \/ Handshake(a) \/ Proceeds(a) \/ CloseReason(a) \/ UnknownPermission(a)
           \/ \E answers \in BOOLEAN : Loop(a, answers)
    PROVE  Typed'
<1>0. /\ pc \in [Attempts -> Places] /\ wait \in [Attempts -> Socks \cup {None}]
      /\ sock \in [Socks -> {"none", "connecting", "open", "closed"}]
      /\ ws \in Socks \cup {None} /\ \A b \in Attempts : pc[b] \in Waiting => wait[b] \in Socks
      /\ buf \in [Socks -> Seq({"answer", "signed_id", "data"})]
      /\ interrupted \in BOOLEAN /\ toPeer \in [Attempts -> Seq(Message)]
    BY DEF Typed, TypeOK, Places
<1> USE DEF Proceeds
<1>1. ws # None /\ ws' = ws
  <2>1. pc[a] # "idle"
    BY DEF Handshake, Verify, SendKey, Loop, Handled, CloseReason, UnknownPermission, Takes
  <2>2. ws' = ws
    BY DEF Handshake, Verify, SendKey, Loop, Handled, CloseReason, UnknownPermission
  <2> QED BY <2>1, <2>2 DEF Typed
<1>2. UNCHANGED <<ws, dropped, late, peer, fromPeer, garbled, early>>
    BY DEF Handshake, Verify, SendKey, Loop, Handled, CloseReason, UnknownPermission, wire
<1>3. sock' \in [Socks -> {"none", "connecting", "open", "closed"}]
    BY <1>0, ClosedFacts DEF Handshake, Verify, SendKey, Loop, Handled, CloseReason, UnknownPermission
<1>4. buf' \in [Socks -> Seq({"answer", "signed_id", "data"})]
    BY <1>0, TakesFacts DEF Handshake, Verify, SendKey, Loop, Handled, CloseReason, UnknownPermission
<1>5. toPeer' \in [Attempts -> Seq(Message)]
    BY <1>0, SendsFacts DEF Handshake, Verify, SendKey, Loop, Handled, CloseReason, UnknownPermission, wire
<1>6. key' \in SUBSET Socks
  <2>1. CASE \E ok \in BOOLEAN : SendKey(a, ok)
    <3>1. key \in SUBSET Socks
      BY DEF Typed, TypeOK
    <3> QED BY <1>0, <1>1, <2>1, <3>1 DEF SendKey
  <2>2. CASE UNCHANGED key
    BY <2>2 DEF Typed, TypeOK
  <2> QED BY <2>1, <2>2 DEF Handshake, Verify, Loop, Handled, CloseReason, UnknownPermission
<1>7. interrupted' \in BOOLEAN
    BY <1>0 DEF Handshake, Verify, SendKey, Loop, Handled, CloseReason, UnknownPermission, Interrupts
<1>8. /\ pc' \in [Attempts -> Places] /\ wait' \in [Attempts -> Socks \cup {None}]
      /\ \A b \in Attempts : pc'[b] \in Waiting => wait'[b] \in Socks
  <2>1. ASSUME NEW at \in {"over", "keying", "handling"}, Goes(a, at)
        PROVE  /\ pc' \in [Attempts -> Places] /\ wait' \in [Attempts -> Socks \cup {None}]
               /\ \A b \in Attempts : pc'[b] \in Waiting => wait'[b] \in Socks
    <3>1. at \in Places /\ at \notin Waiting
      BY DEF Places, Waiting, Busy
    <3> QED BY <1>0, <2>1, <3>1, GoesFacts
  <2>2. ASSUME NEW at \in {"handshake", "loop"}, Awaits(a, at, ws)
        PROVE  /\ pc' \in [Attempts -> Places] /\ wait' \in [Attempts -> Socks \cup {None}]
               /\ \A b \in Attempts : pc'[b] \in Waiting => wait'[b] \in Socks
    <3>1. at \in Waiting /\ "over" \notin Waiting
      BY DEF Waiting
    <3> QED BY <1>0, <2>2, <3>1, AwaitsFacts
  <2> QED BY <2>1, <2>2 DEF Handshake, Verify, SendKey, Loop, Handled, CloseReason, UnknownPermission
<1> QED BY <1>2, <1>3, <1>4, <1>5, <1>6, <1>7, <1>8, <1>1 DEF Typed, TypeOK, Places

\* What the wire does to a queue.
LEMMA QueueTail ==
    ASSUME NEW S, NEW q \in Seq(S), q # <<>>
    PROVE  /\ Head(q) \in S /\ Head(q) = q[1] /\ Tail(q) \in Seq(S)
           /\ Len(q) \in Nat /\ Len(q) >= 1 /\ Len(Tail(q)) = Len(q) - 1
           /\ \A i \in 1..Len(Tail(q)) : i + 1 \in 2..Len(q) /\ Tail(q)[i] = q[i + 1]
<1> QED OBVIOUS

LEMMA QueueAppend ==
    ASSUME NEW S, NEW q \in Seq(S), NEW e \in S
    PROVE  /\ Append(q, e) \in Seq(S) /\ Append(q, e) # <<>>
           /\ Len(q) \in Nat /\ Len(Append(q, e)) = Len(q) + 1
           /\ \A i \in 1..Len(q) : Append(q, e)[i] = q[i]
           /\ Append(q, e)[Len(q) + 1] = e
           /\ q # <<>> => Len(q) >= 1
<1>1. Len(q) \in Nat /\ (q # <<>> => Len(q) >= 1)
    BY EmptySeq, LenProperties
<1> QED BY <1>1, AppendProperties

LEMMA WireTyped ==
    ASSUME Typed, NEW a \in Attempts,
           Receive(a) \/ PeerJoins(a) \/ PeerReads(a) \/ PeerSends(a)
    PROVE  Typed'
<1>0. /\ buf \in [Socks -> Seq({"answer", "signed_id", "data"})]
      /\ toPeer \in [Attempts -> Seq(Message)] /\ fromPeer \in [Attempts -> Seq(Message)]
      /\ peer \in [Attempts -> {"none", "first", "plain", "secret"}]
      /\ \A b \in Attempts : \A i \in 1..Len(fromPeer[b]) :
            fromPeer[b][i].kind \in {"signed_id", "data"}
    BY DEF Typed, TypeOK
<1>1. UNCHANGED <<pc, wait, sock, ws, key, dropped, interrupted, late, early>>
    BY DEF Receive, PeerJoins, PeerReads, PeerSends
<1>2. garbled' \in SUBSET Attempts
    BY DEF Receive, PeerJoins, PeerReads, PeerSends, Typed, TypeOK
<1>3. peer' \in [Attempts -> {"none", "first", "plain", "secret"}]
    BY <1>0 DEF Receive, PeerJoins, PeerReads, PeerSends
<1>4. toPeer' \in [Attempts -> Seq(Message)]
  <2>1. CASE PeerReads(a)
    <3>1. Tail(toPeer[a]) \in Seq(Message)
      BY <1>0, <2>1, QueueTail DEF PeerReads
    <3>2. toPeer' = [toPeer EXCEPT ![a] = Tail(@)]
      BY <2>1 DEF PeerReads
    <3> QED BY <1>0, <3>1, <3>2
  <2>2. CASE UNCHANGED toPeer
    BY <1>0, <2>2
  <2> QED BY <2>1, <2>2 DEF Receive, PeerJoins, PeerSends
<1>5. /\ fromPeer' \in [Attempts -> Seq(Message)]
      /\ \A b \in Attempts : \A i \in 1..Len(fromPeer'[b]) :
            fromPeer'[b][i].kind \in {"signed_id", "data"}
  <2>1. CASE Receive(a)
    <3>1. /\ fromPeer' = [fromPeer EXCEPT ![a] = Tail(@)]
          /\ fromPeer[a] \in Seq(Message) /\ fromPeer[a] # <<>>
      BY <1>0, <2>1 DEF Receive
    <3>2. /\ Tail(fromPeer[a]) \in Seq(Message)
          /\ \A i \in 1..Len(Tail(fromPeer[a])) : Tail(fromPeer[a])[i].kind \in {"signed_id", "data"}
      BY <1>0, <3>1, QueueTail
    <3> QED BY <1>0, <3>1, <3>2
  <2>2. ASSUME NEW e \in Message, e.kind \in {"signed_id", "data"},
               fromPeer' = [fromPeer EXCEPT ![a] = Append(@, e)]
        PROVE  /\ fromPeer' \in [Attempts -> Seq(Message)]
               /\ \A b \in Attempts : \A i \in 1..Len(fromPeer'[b]) :
                    fromPeer'[b][i].kind \in {"signed_id", "data"}
    <3>1. /\ Append(fromPeer[a], e) \in Seq(Message)
          /\ \A i \in 1..Len(Append(fromPeer[a], e)) :
                Append(fromPeer[a], e)[i].kind \in {"signed_id", "data"}
      BY <1>0, <2>2, QueueAppend
    <3> QED BY <1>0, <2>2, <3>1
  <2>3. CASE PeerJoins(a)
    <3>1. [enc |-> FALSE, kind |-> "signed_id"] \in Message
      BY DEF Message
    <3> QED BY <2>2, <2>3, <3>1 DEF PeerJoins
  <2>4. CASE PeerSends(a)
    <3>1. [enc |-> peer[a] = "secret", kind |-> "data"] \in Message
      BY DEF Message
    <3> QED BY <2>2, <2>4, <3>1 DEF PeerSends
  <2>5. CASE UNCHANGED fromPeer
    BY <1>0, <2>5
  <2> QED BY <2>1, <2>3, <2>4, <2>5 DEF PeerReads
<1>6. buf' \in [Socks -> Seq({"answer", "signed_id", "data"})]
  <2>1. CASE Receive(a)
    <3>1. fromPeer[a] \in Seq(Message) /\ fromPeer[a] # <<>>
      BY <1>0, <2>1 DEF Receive
    <3>2. Head(fromPeer[a]).kind \in {"signed_id", "data"}
      BY <1>0, <3>1, QueueTail
    <3>3. Append(buf[relay(a)], Head(fromPeer[a]).kind) \in Seq({"answer", "signed_id", "data"})
      BY <1>0, <3>2, SockFacts, QueueAppend
    <3> QED BY <1>0, <2>1, <3>3 DEF Receive
  <2>2. CASE UNCHANGED buf
    BY <1>0, <2>2
  <2> QED BY <2>1, <2>2 DEF PeerJoins, PeerReads, PeerSends
<1> QED BY <1>1, <1>2, <1>3, <1>4, <1>5, <1>6 DEF Typed, TypeOK

LEMMA InputTyped ==
    ASSUME Typed, UserSends
    PROVE  Typed'
<1>1. toPeer' \in [Attempts -> Seq(Message)]
    BY SendsFacts DEF UserSends, Typed, TypeOK
<1>2. early' \in SUBSET Attempts
    BY DEF UserSends, Typed, TypeOK
<1>3. UNCHANGED <<pc, wait, sock, buf, ws, key, peer, fromPeer, dropped, interrupted, late, garbled>>
    BY DEF UserSends
<1> QED BY <1>1, <1>2, <1>3 DEF Typed, TypeOK

LEMMA TypedStep == Typed /\ [Next]_vars => Typed'
<1> SUFFICES ASSUME Typed, [Next]_vars PROVE Typed'
    OBVIOUS
<1>1. CASE UNCHANGED vars
    BY <1>1 DEF vars, Typed, TypeOK
<1>2. CASE Close \/ UserSends
    BY <1>2, UserTyped, InputTyped
<1>3. ASSUME NEW s \in Socks, Reset(s) PROVE Typed'
  <2>1. s[1] \in Attempts
    BY SockFacts
  <2> QED BY <1>3, <2>1, SocketTyped
<1>4. ASSUME NEW a \in Attempts,
             \/ Start(a) \/ OpenRdv(a) \/ OpenRelay(a) \/ NextFails(a) \/ Handshake(a)
             \/ \E ok \in BOOLEAN : Answer(a, ok) \/ Loop(a, ok)
             \/ Proceeds(a)
             \/ \E s \in Socks, timeout \in BOOLEAN : OpenFails(a, s, timeout)
             \/ CloseReason(a) \/ UnknownPermission(a) \/ Receive(a)
             \/ RdvAnswers(a) \/ PeerJoins(a) \/ PeerReads(a) \/ PeerSends(a)
      PROVE  Typed'
    BY <1>4, UserTyped, SocketTyped, SessionTyped, WireTyped
<1> QED BY <1>1, <1>2, <1>3, <1>4 DEF Next

-----------------------------------------------------------------------------
(* The sockets attempts hold *)

\* A close() that found an attempt busy is not forgotten.
LEMMA InterruptedStays == Typed /\ [Next]_vars /\ interrupted => interrupted'
<1> SUFFICES ASSUME Typed, [Next]_vars, interrupted PROVE interrupted'
    OBVIOUS
<1>1. ws # None
    BY DEF Typed
<1> QED BY <1>1 DEF Next, vars, Close, UserSends, Start, OpenRdv, OpenRelay, NextFails, Handshake, Answer, Loop,
        Proceeds, Handled, Verify, SendKey, OpenFails, CloseReason, UnknownPermission, Receive,
        RdvAnswers, PeerJoins, PeerReads, PeerSends, Reset, Interrupts

Holds == \A a \in Attempts : AttemptHolds(a)

\* What the steps below start from and lead to.
Calm  == Typed /\ ~interrupted /\ Holds /\ DroppedEnds

LEMMA CalmTypes ==
    ASSUME Calm
    PROVE  /\ pc \in [Attempts -> Places] /\ wait \in [Attempts -> Socks \cup {None}]
           /\ sock \in [Socks -> {"none", "connecting", "open", "closed"}]
           /\ ws \in Socks \cup {None} /\ buf \in [Socks -> Seq({"answer", "signed_id", "data"})]
           /\ late \in SUBSET Attempts
           /\ \A a \in Attempts : pc[a] \in Waiting => wait[a] \in Socks
<1> QED BY DEF Calm, Typed, TypeOK, Places

LEMMA StartHolds ==
    ASSUME Calm, NEW a \in Attempts, Start(a), ~interrupted'
    PROVE  Holds' /\ DroppedEnds'
<1>0. /\ pc[a] = "idle" /\ ~dropped /\ ws' = rdv(a)
      /\ sock' = [Closed(sock, ws) EXCEPT ![rdv(a)] = "connecting"]
      /\ Goes(a, "openRdv") /\ UNCHANGED <<buf, dropped, late>>
    BY DEF Start
<1>1. "openRdv" \in Places
    BY DEF Places
<1>2. pc'[a] = "openRdv" /\ \A b \in Attempts : b # a => pc'[b] = pc[b] /\ wait'[b] = wait[b]
    BY <1>0, <1>1, CalmTypes, GoesFacts
<1>3. /\ sock'[rdv(a)] = "connecting"
      /\ \A s \in Socks : s # rdv(a) => sock'[s] = IF s = ws THEN "closed" ELSE sock[s]
    BY <1>0, CalmTypes, ClosedFacts, SockFacts
<1>4. ASSUME NEW b \in Attempts
      PROVE  pc[b] \notin Busy /\ (ws # None /\ pc[b] \in Waiting => buf[wait[b]] = <<>>)
  <2>1. CASE ws = None
    BY <2>1 DEF Calm, Typed, Busy
  <2>2. CASE ws # None
    BY <2>2 DEF Start, Interrupts, Unreached
  <2> QED BY <2>1, <2>2
<1>5. ASSUME NEW b \in Attempts PROVE AttemptHolds(b)'
  <2>0. AttemptHolds(b) /\ AttemptHolds(a)
    BY DEF Calm, Holds
  <2>1. CASE b = a
    BY <2>0, <2>1, <1>0, <1>2, <1>3, SockFacts DEF AttemptHolds, Waiting
  <2>2. CASE b # a
    <3>1. pc'[b] = pc[b] /\ wait'[b] = wait[b] /\ UNCHANGED <<buf, late>> /\ ws' = rdv(a)
      BY <1>0, <1>2, <2>2
    <3>2. /\ sock'[rdv(b)] = IF rdv(b) = ws THEN "closed" ELSE sock[rdv(b)]
          /\ sock'[relay(b)] = IF relay(b) = ws THEN "closed" ELSE sock[relay(b)]
      BY <1>3, <2>2, SockFacts
    <3>3. pc[b] \in Waiting => sock'[wait[b]] = "closed" /\ buf[wait[b]] = <<>>
      <4>1. pc[b] \in Waiting => wait[b] = rdv(b) \/ wait[b] = relay(b)
        BY <2>0 DEF AttemptHolds, Waiting
      <4>2. pc[b] \in Waiting => pc[b] # "idle"
        BY DEF Waiting
      <4>3. pc[b] \in Waiting => ws # None
        BY <4>2 DEF Calm, Typed
      <4>4. pc[b] \in Waiting => ws = wait[b] \/ sock[wait[b]] = "closed"
        BY <2>0 DEF AttemptHolds
      <4> QED BY <1>4, <3>2, <4>1, <4>3, <4>4
    <3>4. pc[b] \notin {"openRelay", "verify", "keying", "handling"}
      BY <1>4 DEF Busy
    <3>5. /\ pc[b] = "idle" => sock[rdv(b)] = "none"
          /\ pc[b] \in {"idle", "openRdv", "nextRdv"} => sock[relay(b)] = "none"
          /\ pc[b] = "nextRdv" => wait[b] = rdv(b)
          /\ pc[b] \in {"handshake", "loop"} => wait[b] = relay(b)
          /\ sock[rdv(b)] \in {"connecting", "open"} => ws = rdv(b)
          /\ sock[relay(b)] = "open" => ws = relay(b) \/ b \in late
          /\ sock[relay(b)] = "connecting" => b \in late
          /\ b \in late => pc[b] = "over"
          /\ sock[rdv(b)] = "none" => ws # rdv(b)
          /\ sock[relay(b)] = "none" => ws # relay(b)
      BY <2>0, <3>4 DEF AttemptHolds
    <3>6. ws' # rdv(b) /\ ws' # relay(b)
      BY <1>0, <2>2, SockFacts
    <3>7. sock'[rdv(b)] \notin {"connecting", "open"}
      BY <3>2, <3>5
    <3>8. sock'[relay(b)] = "open" => b \in late
      BY <3>2, <3>5
    <3>9. sock'[relay(b)] = "connecting" => b \in late
      BY <3>2, <3>5
    <3>10. /\ pc[b] = "idle" => sock'[rdv(b)] = "none"
           /\ pc[b] \in {"idle", "openRdv", "nextRdv"} => sock'[relay(b)] = "none"
      BY <3>2, <3>5
    <3> QED BY <3>1, <3>3, <3>4, <3>5, <3>6, <3>7, <3>8, <3>9, <3>10 DEF AttemptHolds
  <2> QED BY <2>1, <2>2
<1> QED BY <1>0, <1>5 DEF Holds, DroppedEnds

\* An attempt that a step leaves where it is, except that a socket of it may
\* be closed and an open one receive.
LEMMA StillHolds ==
    ASSUME Calm, NEW b \in Attempts,
           pc'[b] = pc[b], wait'[b] = wait[b], b \in late' <=> b \in late,
           ws' = ws \/ (ws \notin {rdv(b), relay(b)} /\ ws' \notin {rdv(b), relay(b)}),
           \A s \in {rdv(b), relay(b)} :
            /\ sock'[s] = sock[s] \/ (sock'[s] = "closed" /\ sock[s] # "none")
            /\ buf'[s] = buf[s] \/ sock[s] = "open"
    PROVE  AttemptHolds(b)'
<1>1. AttemptHolds(b)
    BY DEF Calm, Holds
<1>2. pc[b] \in Waiting => wait[b] \in {rdv(b), relay(b)}
    BY <1>1 DEF AttemptHolds, Waiting
<1>3. pc[b] \in Waiting =>
        ws' = wait[b] \/ (sock'[wait[b]] = "closed" /\ buf'[wait[b]] = <<>>)
    BY <1>1, <1>2 DEF AttemptHolds
<1>4. /\ sock'[rdv(b)] \in {"connecting", "open"} => ws' = rdv(b)
      /\ sock'[relay(b)] = "open" => ws' = relay(b) \/ b \in late'
      /\ sock'[relay(b)] = "connecting" => pc'[b] = "openRelay" \/ b \in late'
    BY <1>1 DEF AttemptHolds
<1>5. /\ pc'[b] = "openRelay" => ws' = rdv(b) /\ sock'[rdv(b)] = "closed"
      /\ pc'[b] \in {"verify", "keying", "handling"} => ws' = relay(b)
    BY <1>1 DEF AttemptHolds
<1>6. /\ pc'[b] = "idle" => sock'[rdv(b)] = "none"
      /\ pc'[b] \in {"idle", "openRdv", "nextRdv"} => sock'[relay(b)] = "none"
      /\ sock'[rdv(b)] = "none" => ws' # rdv(b)
      /\ sock'[relay(b)] = "none" => ws' # relay(b)
    BY <1>1 DEF AttemptHolds
<1> QED BY <1>1, <1>3, <1>4, <1>5, <1>6 DEF AttemptHolds

\* An attempt in a session goes on, or ends.
LEMMA SessionHolds ==
    ASSUME Calm, NEW a \in Attempts, ws = relay(a), ws' = ws, late' = late,
           pc[a] \in {"verify", "keying", "handling", "handshake", "loop"},
           pc'[a] \in {"verify", "keying", "handling", "handshake", "loop", "over"},
           pc'[a] \in {"handshake", "loop"} => wait'[a] = relay(a),
           \A s \in {rdv(a), relay(a)} :
                sock'[s] = sock[s] \/ (sock'[s] = "closed" /\ sock[s] # "none")
    PROVE  AttemptHolds(a)'
<1>1. AttemptHolds(a)
    BY DEF Calm, Holds
<1>2. rdv(a) # relay(a)
    BY SockFacts
<1>3. a \notin late /\ sock[rdv(a)] \notin {"connecting", "open"}
      /\ sock[relay(a)] \notin {"none", "connecting"}
    BY <1>1, <1>2 DEF AttemptHolds
<1> QED BY <1>1, <1>2, <1>3 DEF AttemptHolds, Waiting

\* A connection the user left stays so while no attempt moves but to its end.
LEMMA DroppedStays ==
    ASSUME Calm, dropped' = dropped,
           dropped =>
            /\ ws' = ws
            /\ \A b \in Attempts : pc'[b] = "over" \/ (pc'[b] = pc[b] /\ wait'[b] = wait[b])
            /\ \A s \in Socks : sock[s] = "closed" => sock'[s] = "closed" /\ buf'[s] = buf[s]
    PROVE  DroppedEnds'
<1> SUFFICES ASSUME dropped
             PROVE  /\ ws' # None /\ sock'[ws'] = "closed"
                    /\ \A a \in Attempts :
                        /\ pc'[a] \notin Busy
                        /\ pc'[a] \in Waiting => sock'[wait'[a]] = "closed" /\ buf'[wait'[a]] = <<>>
    BY DEF DroppedEnds
<1>1. ws # None /\ sock[ws] = "closed" /\ ws \in Socks
    BY CalmTypes DEF Calm, DroppedEnds
<1>2. ASSUME NEW a \in Attempts
      PROVE  /\ pc'[a] \notin Busy
             /\ pc'[a] \in Waiting => sock'[wait'[a]] = "closed" /\ buf'[wait'[a]] = <<>>
  <2>1. pc[a] \notin Busy /\ (pc[a] \in Waiting => sock[wait[a]] = "closed" /\ buf[wait[a]] = <<>>)
    BY DEF Calm, DroppedEnds
  <2>2. CASE pc'[a] = "over"
    BY <2>2 DEF Busy, Waiting
  <2>3. CASE pc'[a] = pc[a] /\ wait'[a] = wait[a]
    BY <2>1, <2>3, CalmTypes
  <2> QED BY <2>2, <2>3
<1> QED BY <1>1, <1>2

LEMMA CloseHolds ==
    ASSUME Calm, Close, ~interrupted'
    PROVE  Holds' /\ DroppedEnds'
<1>1. /\ UNCHANGED <<pc, wait, buf, ws, late>> /\ ws # None /\ sock' = Closed(sock, ws)
      /\ interrupted' = Interrupts(Attempts)
    BY DEF Close
<1>2. ws \in Socks /\ \A s \in Socks : sock'[s] = IF s = ws THEN "closed" ELSE sock[s]
    BY <1>1, CalmTypes, ClosedFacts
<1>3. ASSUME NEW b \in Attempts PROVE AttemptHolds(b)'
  <2>1. AttemptHolds(b)
    BY DEF Calm, Holds
  <2>2. \A s \in {rdv(b), relay(b)} :
            sock'[s] = sock[s] \/ (sock'[s] = "closed" /\ sock[s] # "none")
    BY <1>2, <2>1, SockFacts DEF AttemptHolds
  <2> QED BY <1>1, <2>2, StillHolds
<1>4. ASSUME NEW b \in Attempts
      PROVE  /\ pc[b] \notin Busy
             /\ pc[b] \in Waiting => sock'[wait[b]] = "closed" /\ buf[wait[b]] = <<>>
  <2>1. ~Unreached(b)
    BY <1>1 DEF Interrupts
  <2>2. pc[b] \in Waiting => buf[wait[b]] = <<>> /\ wait[b] \in Socks
    BY <2>1, CalmTypes DEF Unreached
  <2>3. pc[b] \in Waiting => ws = wait[b] \/ sock[wait[b]] = "closed"
    BY DEF Calm, Holds, AttemptHolds
  <2> QED BY <1>2, <2>1, <2>2, <2>3 DEF Unreached
<1> QED BY <1>1, <1>2, <1>3, <1>4 DEF Holds, DroppedEnds

LEMMA RdvHolds ==
    ASSUME Calm, NEW a \in Attempts, OpenRdv(a) \/ RdvAnswers(a)
    PROVE  Holds' /\ DroppedEnds'
<1>0. AttemptHolds(a) /\ UNCHANGED <<ws, late, dropped>>
    BY DEF Calm, Holds, OpenRdv, RdvAnswers
<1>1. CASE OpenRdv(a)
  <2>0. /\ sock[rdv(a)] = "connecting" /\ sock' = [sock EXCEPT ![rdv(a)] = "open"]
        /\ UNCHANGED buf /\ ws = rdv(a)
        /\ IF pc[a] = "openRdv" THEN Awaits(a, "nextRdv", rdv(a)) ELSE UNCHANGED <<pc, wait>>
    BY <1>0, <1>1 DEF OpenRdv, AttemptHolds
  <2>1. sock'[rdv(a)] = "open" /\ \A s \in Socks : s # rdv(a) => sock'[s] = sock[s]
    BY <2>0, CalmTypes, SockFacts
  <2>2. /\ \A b \in Attempts : b # a => pc'[b] = pc[b] /\ wait'[b] = wait[b]
        /\ \/ pc'[a] = "nextRdv" /\ wait'[a] = rdv(a) /\ pc[a] = "openRdv"
           \/ pc'[a] = "over" /\ pc[a] = "openRdv"
           \/ pc'[a] = pc[a] /\ wait'[a] = wait[a] /\ pc[a] # "openRdv"
    <3>1. "nextRdv" \in Waiting /\ rdv(a) \in Socks
      BY SockFacts DEF Waiting
    <3> QED BY <2>0, <3>1, CalmTypes, AwaitsFacts
  <2>3. AttemptHolds(a)'
    <3>1. sock'[relay(a)] = sock[relay(a)] /\ rdv(a) # relay(a)
      BY <2>1, SockFacts
    <3>2. pc[a] \notin {"idle", "openRelay", "verify", "keying", "handling"}
      BY <1>0, <2>0, <3>1 DEF AttemptHolds
    <3>3. pc[a] = "openRdv" => a \notin late /\ sock[relay(a)] = "none"
      BY <1>0 DEF AttemptHolds
    <3>4. CASE pc[a] = "openRdv"
      BY <1>0, <2>0, <2>1, <2>2, <3>1, <3>3, <3>4 DEF AttemptHolds, Waiting
    <3>5. CASE pc[a] # "openRdv"
      BY <1>0, <2>0, <2>1, <2>2, <3>1, <3>2, <3>5 DEF AttemptHolds, Waiting
    <3> QED BY <3>4, <3>5
  <2>4. ASSUME NEW b \in Attempts, b # a PROVE AttemptHolds(b)'
    <3>1. \A s \in {rdv(b), relay(b)} : sock'[s] = sock[s] /\ buf'[s] = buf[s]
      BY <2>0, <2>1, <2>4, SockFacts
    <3> QED BY <1>0, <2>2, <2>4, <3>1, StillHolds
  <2>5. ~dropped
    BY <2>0 DEF Calm, DroppedEnds
  <2> QED BY <1>0, <2>3, <2>4, <2>5, DroppedStays DEF Holds
<1>2. CASE RdvAnswers(a)
  <2>1. /\ sock[rdv(a)] = "open" /\ UNCHANGED <<pc, wait, sock>>
        /\ buf' = [buf EXCEPT ![rdv(a)] = <<"answer">>]
    BY <1>2 DEF RdvAnswers
  <2>2. \A s \in Socks : buf'[s] = buf[s] \/ sock[s] = "open"
    BY <2>1, CalmTypes
  <2>3. ASSUME NEW b \in Attempts PROVE AttemptHolds(b)'
    BY <1>0, <2>1, <2>2, SockFacts, StillHolds
  <2>4. DroppedEnds'
    BY <1>0, <2>1, <2>2, DroppedStays
  <2> QED BY <2>3, <2>4 DEF Holds
<1> QED BY <1>1, <1>2

LEMMA AnswerHolds ==
    ASSUME Calm, NEW a \in Attempts, NEW relayed \in BOOLEAN, Answer(a, relayed)
    PROVE  Holds' /\ DroppedEnds'
<1>0. /\ AttemptHolds(a) /\ UNCHANGED <<ws, late, dropped>>
      /\ pc[a] = "nextRdv" /\ buf[rdv(a)] # <<>> /\ buf' = [buf EXCEPT ![rdv(a)] = Tail(@)]
    BY DEF Calm, Holds, Answer
<1>1. wait[a] = rdv(a) /\ ws = rdv(a)
    BY <1>0 DEF AttemptHolds, Waiting
<1>2. \A s \in Socks : s # rdv(a) => buf'[s] = buf[s]
    BY <1>0, CalmTypes
<1>3. /\ sock'[rdv(a)] = "closed"
      /\ \A s \in Socks : s \notin {rdv(a), relay(a)} => sock'[s] = sock[s]
      /\ \A b \in Attempts : b # a => pc'[b] = pc[b] /\ wait'[b] = wait[b]
      /\ \/ pc'[a] = "openRelay" /\ sock'[relay(a)] = "connecting"
         \/ pc'[a] = "over" /\ sock'[relay(a)] = sock[relay(a)]
  <2>1. "openRelay" \in Places /\ "over" \in Places
    BY DEF Places, Busy
  <2>2. CASE relayed
    <3>1. /\ sock' = [sock EXCEPT ![rdv(a)] = "closed", ![relay(a)] = "connecting"]
          /\ Goes(a, "openRelay")
      BY <2>2 DEF Answer
    <3> QED BY <2>1, <3>1, CalmTypes, GoesFacts, SockFacts
  <2>3. CASE ~relayed
    <3>1. sock' = [sock EXCEPT ![rdv(a)] = "closed"] /\ Goes(a, "over")
      BY <2>3 DEF Answer
    <3> QED BY <2>1, <3>1, CalmTypes, GoesFacts, SockFacts
  <2> QED BY <2>2, <2>3
<1>4. AttemptHolds(a)'
  <2>1. rdv(a) # relay(a) /\ a \notin late /\ sock[relay(a)] = "none"
    BY <1>0, SockFacts DEF AttemptHolds
  <2> QED BY <1>0, <1>1, <1>3, <2>1 DEF AttemptHolds, Waiting
<1>5. ASSUME NEW b \in Attempts, b # a PROVE AttemptHolds(b)'
  <2>1. \A s \in {rdv(b), relay(b)} : sock'[s] = sock[s] /\ buf'[s] = buf[s]
    BY <1>2, <1>3, <1>5, SockFacts
  <2> QED BY <1>0, <1>3, <1>5, <2>1, StillHolds
<1>6. ~dropped
    BY <1>0, <1>1 DEF Calm, DroppedEnds, Waiting
<1> QED BY <1>0, <1>4, <1>5, <1>6, DroppedStays DEF Holds

LEMMA OpenRelayHolds ==
    ASSUME Calm, NEW a \in Attempts, OpenRelay(a)
    PROVE  Holds' /\ DroppedEnds'
<1>0. /\ AttemptHolds(a) /\ UNCHANGED <<buf, late, dropped>>
      /\ sock[relay(a)] = "connecting" /\ sock' = [sock EXCEPT ![relay(a)] = "open"]
      /\ IF pc[a] = "openRelay" THEN ws' = relay(a) /\ Goes(a, "verify") ELSE UNCHANGED <<ws, pc, wait>>
    BY DEF Calm, Holds, OpenRelay
<1>1. sock'[relay(a)] = "open" /\ \A s \in Socks : s # relay(a) => sock'[s] = sock[s]
    BY <1>0, CalmTypes, SockFacts
<1>2. /\ \A b \in Attempts : b # a => pc'[b] = pc[b] /\ wait'[b] = wait[b]
      /\ \/ pc[a] = "openRelay" /\ ws = rdv(a) /\ ws' = relay(a) /\ pc'[a] = "verify"
            /\ sock[rdv(a)] = "closed" /\ a \notin late
         \/ a \in late /\ UNCHANGED <<ws, pc, wait>> /\ pc[a] = "over"
  <2>1. CASE pc[a] = "openRelay"
    <3>1. "verify" \in Places
      BY DEF Places, Busy
    <3> QED BY <1>0, <2>1, <3>1, CalmTypes, GoesFacts DEF AttemptHolds
  <2>2. CASE pc[a] # "openRelay"
    BY <1>0, <2>2 DEF AttemptHolds
  <2> QED BY <2>1, <2>2
<1>3. AttemptHolds(a)'
  <2>1. rdv(a) # relay(a) /\ sock'[rdv(a)] = sock[rdv(a)]
    BY <1>1, SockFacts
  <2>2. CASE pc[a] = "openRelay"
    BY <1>0, <1>1, <1>2, <2>1, <2>2 DEF AttemptHolds, Waiting
  <2>3. CASE a \in late /\ UNCHANGED <<ws, pc, wait>> /\ pc[a] = "over"
    BY <1>0, <1>1, <2>1, <2>3 DEF AttemptHolds, Waiting
  <2> QED BY <1>2, <2>2, <2>3
<1>4. ASSUME NEW b \in Attempts, b # a PROVE AttemptHolds(b)'
  <2>1. \A s \in {rdv(b), relay(b)} : sock'[s] = sock[s] /\ buf'[s] = buf[s]
    BY <1>0, <1>1, <1>4, SockFacts
  <2>2. ws' = ws \/ (ws \notin {rdv(b), relay(b)} /\ ws' \notin {rdv(b), relay(b)})
    BY <1>2, <1>4, SockFacts
  <2> QED BY <1>0, <1>2, <1>4, <2>1, <2>2, StillHolds
<1>5. dropped => UNCHANGED <<ws, pc, wait>>
  <2>1. dropped => pc[a] # "openRelay"
    BY DEF Calm, DroppedEnds, Busy
  <2> QED BY <1>2, <2>1
<1>6. \A s \in Socks : sock[s] = "closed" => sock'[s] = "closed" /\ buf'[s] = buf[s]
    BY <1>0, <1>1
<1>7. DroppedEnds'
    BY <1>0, <1>5, <1>6, DroppedStays
<1> QED BY <1>3, <1>4, <1>7 DEF Holds

LEMMA EndHolds ==
    ASSUME Calm, NEW a \in Attempts,
           \/ NextFails(a)
           \/ \E s \in Socks, timeout \in BOOLEAN : OpenFails(a, s, timeout)
    PROVE  Holds' /\ DroppedEnds'
<1>0. AttemptHolds(a) /\ UNCHANGED <<buf, ws, dropped>> /\ Goes(a, "over")
    BY DEF Calm, Holds, NextFails, OpenFails
<1>1. pc'[a] = "over" /\ \A b \in Attempts : b # a => pc'[b] = pc[b] /\ wait'[b] = wait[b]
  <2>1. "over" \in Places
    BY DEF Places
  <2> QED BY <1>0, <2>1, CalmTypes, GoesFacts
<1>2. /\ \A s \in Socks : sock'[s] = sock[s] \/ (sock'[s] = "closed" /\ s \in {rdv(a), relay(a)})
      /\ sock'[relay(a)] = "connecting" => a \in late'
      /\ sock'[relay(a)] = "none" => sock[relay(a)] = "none"
      /\ sock'[rdv(a)] = "none" => sock[rdv(a)] = "none"
      /\ late' = late \/ late' = late \cup {a}
  <2>1. CASE NextFails(a)
    <3>1. UNCHANGED <<sock, late>> /\ pc[a] \in Waiting
      BY <2>1 DEF NextFails
    <3> QED BY <1>0, <3>1 DEF AttemptHolds, Waiting
  <2>2. ASSUME NEW s \in Socks, NEW timeout \in BOOLEAN, OpenFails(a, s, timeout)
        PROVE  /\ \A t \in Socks : sock'[t] = sock[t] \/ (sock'[t] = "closed" /\ t \in {rdv(a), relay(a)})
               /\ sock'[relay(a)] = "connecting" => a \in late'
               /\ sock'[relay(a)] = "none" => sock[relay(a)] = "none"
               /\ sock'[rdv(a)] = "none" => sock[rdv(a)] = "none"
               /\ late' = late \/ late' = late \cup {a}
    <3>1. /\ \/ pc[a] = "openRdv" /\ s = rdv(a)
             \/ pc[a] = "openRelay" /\ s = relay(a)
          /\ sock' = IF timeout THEN sock ELSE Closed(sock, s)
          /\ late' = IF timeout /\ s = relay(a) THEN late \cup {a} ELSE late
      BY <2>2 DEF OpenFails
    <3>2. \A t \in Socks : Closed(sock, s)[t] = IF t = s THEN "closed" ELSE sock[t]
      BY CalmTypes, ClosedFacts
    <3>3. sock[relay(a)] = "connecting" => pc[a] = "openRelay" \/ a \in late
      BY <1>0 DEF AttemptHolds
    <3> QED BY <3>1, <3>2, <3>3, SockFacts
  <2> QED BY <2>1, <2>2
<1>3. AttemptHolds(a)'
  <2>1. rdv(a) \in Socks /\ relay(a) \in Socks
    BY SockFacts
  <2> QED BY <1>0, <1>1, <1>2, <2>1 DEF AttemptHolds, Waiting
<1>4. ASSUME NEW b \in Attempts, b # a PROVE AttemptHolds(b)'
  <2>1. \A s \in {rdv(b), relay(b)} : sock'[s] = sock[s] /\ buf'[s] = buf[s]
    BY <1>0, <1>2, <1>4, SockFacts
  <2>2. b \in late' <=> b \in late
    BY <1>2, <1>4
  <2> QED BY <1>0, <1>1, <1>4, <2>1, <2>2, StillHolds
<1>5. DroppedEnds'
    BY <1>0, <1>1, <1>2, DroppedStays
<1> QED BY <1>3, <1>4, <1>5 DEF Holds

LEMMA ResetHolds ==
    ASSUME Calm, NEW s \in Socks, Reset(s)
    PROVE  Holds' /\ DroppedEnds'
<1>1. /\ sock[s] = "open" /\ sock' = [sock EXCEPT ![s] = "closed"]
      /\ UNCHANGED <<pc, wait, buf, ws, late, dropped>>
    BY DEF Reset
<1>2. \A t \in Socks : sock'[t] = sock[t] \/ (sock'[t] = "closed" /\ sock[t] # "none")
    BY <1>1, CalmTypes
<1>3. ASSUME NEW b \in Attempts PROVE AttemptHolds(b)'
    BY <1>1, <1>2, SockFacts, StillHolds
<1>4. DroppedEnds'
    BY <1>1, <1>2, DroppedStays
<1> QED BY <1>3, <1>4 DEF Holds

LEMMA WireHolds ==
    ASSUME Calm, NEW a \in Attempts,
           Receive(a) \/ PeerJoins(a) \/ PeerReads(a) \/ PeerSends(a)
    PROVE  Holds' /\ DroppedEnds'
<1>1. UNCHANGED <<pc, wait, sock, ws, late, dropped>>
    BY DEF Receive, PeerJoins, PeerReads, PeerSends
<1>2. \A t \in Socks : buf'[t] = buf[t] \/ sock[t] = "open"
    BY CalmTypes, SockFacts DEF Receive, PeerJoins, PeerReads, PeerSends
<1>3. ASSUME NEW b \in Attempts PROVE AttemptHolds(b)'
    BY <1>1, <1>2, SockFacts, StillHolds
<1>4. DroppedEnds'
    BY <1>1, <1>2, DroppedStays
<1> QED BY <1>3, <1>4 DEF Holds

InSession == {"verify", "keying", "handling", "handshake", "loop"}

\* An attempt acts in a session only while _ws is its relay socket.
LEMMA SessionFacts ==
    ASSUME Calm, NEW a \in Attempts,
           \/ Handshake(a) \/ Proceeds(a) \/ CloseReason(a) \/ UnknownPermission(a)
           \/ \E answers \in BOOLEAN : Loop(a, answers)
    PROVE  /\ ws = relay(a) /\ pc[a] \in InSession /\ ~dropped
           /\ pc[a] \in {"handshake", "loop"} => wait[a] = relay(a) /\ buf[relay(a)] # <<>>
           /\ UNCHANGED <<ws, late, dropped>>
<1>0. AttemptHolds(a)
    BY DEF Calm, Holds
<1> USE DEF Proceeds
<1>1. UNCHANGED <<ws, late, dropped>>
    BY DEF Handshake, Verify, SendKey, Loop, Handled, CloseReason, UnknownPermission
<1>2. \/ pc[a] \in {"verify", "keying", "handling"}
      \/ pc[a] \in {"handshake", "loop"} /\ buf[wait[a]] # <<>>
    BY DEF Handshake, Verify, SendKey, Loop, Handled, CloseReason, UnknownPermission, Takes
<1>3. ~dropped
    BY <1>2 DEF Calm, DroppedEnds, Busy, Waiting
<1> QED BY <1>0, <1>1, <1>2, <1>3 DEF AttemptHolds, InSession, Waiting

LEMMA SessionStepHolds ==
    ASSUME Calm, NEW a \in Attempts,
           \/ Handshake(a) \/ Proceeds(a) \/ CloseReason(a) \/ UnknownPermission(a)
           \/ \E answers \in BOOLEAN : Loop(a, answers)
    PROVE  Holds' /\ DroppedEnds'
<1>1. /\ ws = relay(a) /\ pc[a] \in InSession /\ ~dropped
      /\ pc[a] \in {"handshake", "loop"} => wait[a] = relay(a)
      /\ UNCHANGED <<ws, late, dropped>>
    BY SessionFacts
<1> USE DEF Proceeds
<1>2. \A s \in Socks : s # relay(a) => buf'[s] = buf[s]
  <2>1. ASSUME NEW at \in {"handshake", "loop"}, Takes(a, at)
        PROVE  \A s \in Socks : s # relay(a) => buf'[s] = buf[s]
    <3>1. Typed /\ wait[a] = relay(a)
      BY <1>1, <2>1 DEF Calm, Takes
    <3> QED BY <2>1, <3>1, TakesFacts
  <2> QED BY <2>1 DEF Handshake, Verify, SendKey, Loop, Handled, CloseReason, UnknownPermission
<1>3. /\ \A s \in Socks : s # relay(a) => sock'[s] = sock[s]
      /\ sock'[relay(a)] = sock[relay(a)] \/ sock'[relay(a)] = "closed"
  <2>1. CASE CloseReason(a)
    BY <1>1, <2>1, CalmTypes, ClosedFacts, SockFacts DEF CloseReason
  <2>2. CASE UNCHANGED sock
    BY <2>2
  <2> QED BY <2>1, <2>2 DEF Handshake, Verify, SendKey, Loop, Handled, UnknownPermission
<1>4. /\ \A b \in Attempts : b # a => pc'[b] = pc[b] /\ wait'[b] = wait[b]
      /\ pc'[a] \in {"verify", "keying", "handling", "handshake", "loop", "over"}
      /\ pc'[a] \in {"handshake", "loop"} => wait'[a] = relay(a)
  <2>1. ASSUME NEW at \in {"over", "keying", "handling"}, Goes(a, at)
        PROVE  /\ \A b \in Attempts : b # a => pc'[b] = pc[b] /\ wait'[b] = wait[b]
               /\ pc'[a] \in {"verify", "keying", "handling", "handshake", "loop", "over"}
               /\ pc'[a] \in {"handshake", "loop"} => wait'[a] = relay(a)
    <3>1. at \in Places
      BY DEF Places, Busy
    <3> QED BY <2>1, <3>1, CalmTypes, GoesFacts
  <2>2. ASSUME NEW at \in {"handshake", "loop"}, Awaits(a, at, ws)
        PROVE  /\ \A b \in Attempts : b # a => pc'[b] = pc[b] /\ wait'[b] = wait[b]
               /\ pc'[a] \in {"verify", "keying", "handling", "handshake", "loop", "over"}
               /\ pc'[a] \in {"handshake", "loop"} => wait'[a] = relay(a)
    <3>1. at \in Waiting
      BY DEF Waiting
    <3> QED BY <1>1, <2>2, <3>1, CalmTypes, AwaitsFacts
  <2> QED BY <2>1, <2>2 DEF Handshake, Verify, SendKey, Loop, Handled, CloseReason, UnknownPermission
<1>5. AttemptHolds(a)'
  <2>1. sock[relay(a)] # "none"
    BY <1>1 DEF Calm, Holds, AttemptHolds
  <2>2. \A s \in {rdv(a), relay(a)} :
            sock'[s] = sock[s] \/ (sock'[s] = "closed" /\ sock[s] # "none")
    BY <1>3, <2>1, SockFacts
  <2> QED BY <1>1, <1>4, <2>2, SessionHolds DEF InSession
<1>6. ASSUME NEW b \in Attempts, b # a PROVE AttemptHolds(b)'
  <2>1. \A s \in {rdv(b), relay(b)} : sock'[s] = sock[s] /\ buf'[s] = buf[s]
    BY <1>2, <1>3, <1>6, SockFacts
  <2> QED BY <1>1, <1>4, <1>6, <2>1, StillHolds
<1>7. DroppedEnds'
    BY <1>1, DroppedStays
<1> QED BY <1>5, <1>6, <1>7 DEF Holds

LEMMA InputHolds ==
    ASSUME Calm, UserSends
    PROVE  Holds' /\ DroppedEnds'
<1>1. UNCHANGED <<pc, wait, sock, buf, ws, late, dropped>>
    BY DEF UserSends
<1>2. ASSUME NEW b \in Attempts PROVE AttemptHolds(b)'
    BY <1>1, StillHolds
<1>3. DroppedEnds'
    BY <1>1, DroppedStays
<1> QED BY <1>2, <1>3 DEF Holds

LEMMA HoldsInitial == Init => Holds /\ DroppedEnds
<1> SUFFICES ASSUME Init PROVE Holds /\ DroppedEnds
    OBVIOUS
<1>1. ASSUME NEW a \in Attempts PROVE AttemptHolds(a)
  <2>1. pc[a] = "idle" /\ sock[rdv(a)] = "none" /\ sock[relay(a)] = "none" /\ ws = None /\ late = {}
    BY SockFacts DEF Init
  <2> QED BY <2>1, SockFacts DEF AttemptHolds, Waiting
<1> QED BY <1>1 DEF Holds, DroppedEnds, Init

LEMMA HoldsStep ==
    ASSUME Calm, [Next]_vars, ~interrupted'
    PROVE  Holds' /\ DroppedEnds'
<1>1. CASE UNCHANGED vars
    BY <1>1 DEF vars, Calm, Holds, AttemptHolds, DroppedEnds
<1>2. CASE Close \/ UserSends
    BY <1>2, CloseHolds, InputHolds
<1>3. ASSUME NEW s \in Socks, Reset(s) PROVE Holds' /\ DroppedEnds'
    BY <1>3, ResetHolds
<1>4. ASSUME NEW a \in Attempts,
             \/ Start(a) \/ OpenRdv(a) \/ OpenRelay(a) \/ NextFails(a) \/ Handshake(a)
             \/ \E ok \in BOOLEAN : Answer(a, ok) \/ Loop(a, ok)
             \/ Proceeds(a)
             \/ \E s \in Socks, timeout \in BOOLEAN : OpenFails(a, s, timeout)
             \/ CloseReason(a) \/ UnknownPermission(a) \/ Receive(a)
             \/ RdvAnswers(a) \/ PeerJoins(a) \/ PeerReads(a) \/ PeerSends(a)
      PROVE  Holds' /\ DroppedEnds'
    BY <1>4, StartHolds, RdvHolds, OpenRelayHolds, EndHolds, AnswerHolds, SessionStepHolds, WireHolds
<1> QED BY <1>1, <1>2, <1>3, <1>4 DEF Next

-----------------------------------------------------------------------------
(* The modes of both ends *)

USE DEF Keyless

Agree == \A a \in Attempts : a \notin early => ModesAgree(a)

LEMMA WireTypes ==
    ASSUME Calm
    PROVE  /\ toPeer \in [Attempts -> Seq(Message)] /\ fromPeer \in [Attempts -> Seq(Message)]
           /\ peer \in [Attempts -> {"none", "first", "plain", "secret"}]
<1> QED BY DEF Calm, Typed, TypeOK

\* Nothing comes before the peer joins, and one message before it has a key.
LEMMA LessBuffered ==
    ASSUME Calm, NEW b \in Attempts, ModesAgree(b),
           \/ buf'[relay(b)] = buf[relay(b)]
           \/ buf[relay(b)] # <<>> /\ buf'[relay(b)] = Tail(buf[relay(b)])
    PROVE  /\ peer[b] = "none" => buf'[relay(b)] = <<>>
           /\ peer[b] = "first" => Len(fromPeer[b]) + Len(buf'[relay(b)]) <= 1
<1>0. buf[relay(b)] \in Seq({"answer", "signed_id", "data"})
    BY CalmTypes, SockFacts
<1>1. peer[b] = "none" => buf'[relay(b)] = <<>>
    BY <1>0 DEF ModesAgree
<1>2. peer[b] = "first" => Len(fromPeer[b]) + Len(buf[relay(b)]) <= 1
    BY <1>0 DEF ModesAgree
<1>3. Len(fromPeer[b]) \in Nat
    BY WireTypes, LenProperties
<1>4. Len(buf[relay(b)]) \in Nat
    BY <1>0, LenProperties
<1>5. CASE buf'[relay(b)] = buf[relay(b)]
    BY <1>1, <1>2, <1>5
<1>6. CASE buf[relay(b)] # <<>> /\ buf'[relay(b)] = Tail(buf[relay(b)])
  <2>1. Len(buf'[relay(b)]) = Len(buf[relay(b)]) - 1
    BY <1>0, <1>6, QueueTail
  <2>2. \A i, j \in Nat : i + j <= 1 => i + (j - 1) <= 1
    OBVIOUS
  <2>3. peer[b] = "first" => Len(fromPeer[b]) + (Len(buf[relay(b)]) - 1) <= 1
    BY ONLY <1>2, <1>3, <1>4, <2>2
  <2> QED BY <1>1, <2>1, <2>3
<1> QED BY <1>5, <1>6

\* An attempt whose queues a step leaves alone, but for a message it takes.
LEMMA StillAgrees ==
    ASSUME Calm, NEW b \in Attempts, ModesAgree(b),
           peer'[b] = peer[b], toPeer'[b] = toPeer[b], fromPeer'[b] = fromPeer[b],
           relay(b) \in key' <=> relay(b) \in key,
           \/ buf'[relay(b)] = buf[relay(b)]
           \/ buf[relay(b)] # <<>> /\ buf'[relay(b)] = Tail(buf[relay(b)]),
           \/ pc'[b] = pc[b]
           \/ pc[b] = "verify" /\ pc'[b] = "handshake"
           \/ pc'[b] \notin Keyless,
           \/ sock'[relay(b)] = sock[relay(b)]
           \/ sock'[relay(b)] = "closed"
           \/ sock[relay(b)] = "none" /\ sock'[relay(b)] = "connecting"
    PROVE  ModesAgree(b)'
<1>0. buf[relay(b)] \in Seq({"answer", "signed_id", "data"})
    BY CalmTypes, SockFacts
<1>1. KeyOnItsWay(b)' <=> KeyOnItsWay(b)
    BY DEF KeyOnItsWay
<1>2. peer[b] = "none" => buf'[relay(b)] = <<>>
    BY LessBuffered
<1>3. peer[b] = "first" => Len(fromPeer[b]) + Len(buf'[relay(b)]) <= 1
    BY LessBuffered
<1>4. sock'[relay(b)] \in {"none", "connecting"} => sock[relay(b)] \in {"none", "connecting"}
    OBVIOUS
<1>5. sock'[relay(b)] = "open" => sock[relay(b)] = "open"
    OBVIOUS
<1>6. /\ pc'[b] \in Keyless => pc[b] \in Keyless
      /\ pc'[b] = "keying" => pc[b] = "keying"
    OBVIOUS
<1> QED BY <1>0, <1>1, <1>2, <1>3, <1>4, <1>5, <1>6 DEF ModesAgree

\* Steps of the user and of sockets that open or close.
LEMMA QuietAgrees ==
    ASSUME Calm, Agree, UNCHANGED <<wire, key>>,
           \A b \in Attempts :
            /\ buf'[relay(b)] = buf[relay(b)]
            /\ pc'[b] = pc[b] \/ pc'[b] \notin Keyless
            /\ \/ sock'[relay(b)] = sock[relay(b)]
               \/ sock'[relay(b)] = "closed"
               \/ sock[relay(b)] = "none" /\ sock'[relay(b)] = "connecting"
    PROVE  Agree'
<1> SUFFICES ASSUME NEW b \in Attempts, ModesAgree(b) PROVE ModesAgree(b)'
    BY DEF Agree, wire
<1> QED BY StillAgrees DEF wire

LEMMA UserAgrees ==
    ASSUME Calm, Agree, Close \/ \E a \in Attempts : Start(a)
    PROVE  Agree'
<1>1. CASE Close
  <2>1. UNCHANGED <<pc, wait, buf, key, wire>> /\ sock' = Closed(sock, ws)
    BY <1>1 DEF Close
  <2>2. \A s \in Socks : sock'[s] = sock[s] \/ sock'[s] = "closed"
    BY <2>1, CalmTypes, ClosedFacts
  <2> QED BY <2>1, <2>2, SockFacts, QuietAgrees
<1>2. ASSUME NEW a \in Attempts, Start(a) PROVE Agree'
  <2>1. /\ UNCHANGED <<buf, key, wire>> /\ Goes(a, "openRdv")
        /\ sock' = [Closed(sock, ws) EXCEPT ![rdv(a)] = "connecting"]
    BY <1>2 DEF Start
  <2>2. \A s \in Socks : s # rdv(a) => sock'[s] = sock[s] \/ sock'[s] = "closed"
    BY <2>1, CalmTypes, ClosedFacts
  <2>3. "openRdv" \in Places
    BY DEF Places
  <2>4. \A b \in Attempts : pc'[b] = pc[b] \/ pc'[b] = "openRdv"
    BY <2>1, <2>3, CalmTypes, GoesFacts
  <2> QED BY <2>1, <2>2, <2>4, SockFacts, QuietAgrees
<1> QED BY <1>1, <1>2

LEMMA SocketAgrees ==
    ASSUME Calm, Agree, NEW a \in Attempts,
           \/ OpenRdv(a) \/ NextFails(a) \/ RdvAnswers(a)
           \/ \E relayed \in BOOLEAN : Answer(a, relayed)
           \/ \E s \in Socks, timeout \in BOOLEAN : OpenFails(a, s, timeout)
           \/ \E s \in Socks : Reset(s)
    PROVE  Agree'
<1>1. UNCHANGED <<wire, key>>
    BY DEF OpenRdv, NextFails, RdvAnswers, Answer, OpenFails, Reset
<1>2. \A b \in Attempts : buf'[relay(b)] = buf[relay(b)]
  <2>1. \A s \in Socks : s # rdv(a) => buf'[s] = buf[s]
    BY CalmTypes DEF OpenRdv, NextFails, RdvAnswers, Answer, OpenFails, Reset
  <2> QED BY <2>1, SockFacts
<1>3. \A b \in Attempts : pc'[b] = pc[b] \/ pc'[b] \notin Keyless
  <2>1. CASE UNCHANGED pc
    BY <2>1
  <2>2. ASSUME NEW at \in {"over", "openRelay"}, Goes(a, at)
        PROVE  \A b \in Attempts : pc'[b] = pc[b] \/ pc'[b] \notin Keyless
    <3>1. at \in Places
      BY DEF Places, Busy
    <3> QED BY <2>2, <3>1, CalmTypes, GoesFacts
  <2>3. CASE Awaits(a, "nextRdv", rdv(a))
    <3>1. "nextRdv" \in Waiting /\ rdv(a) \in Socks
      BY SockFacts DEF Waiting
    <3> QED BY <2>3, <3>1, CalmTypes, AwaitsFacts
  <2> QED BY <2>1, <2>2, <2>3 DEF OpenRdv, NextFails, RdvAnswers, Answer, OpenFails, Reset
<1>4. ASSUME NEW b \in Attempts
      PROVE  \/ sock'[relay(b)] = sock[relay(b)]
             \/ sock'[relay(b)] = "closed"
             \/ sock[relay(b)] = "none" /\ sock'[relay(b)] = "connecting"
  <2>1. CASE \E s \in Socks, timeout \in BOOLEAN : OpenFails(a, s, timeout)
    BY <2>1, CalmTypes, ClosedFacts, SockFacts DEF OpenFails
  <2>2. CASE \E relayed \in BOOLEAN : Answer(a, relayed)
    <3>1. sock[relay(a)] = "none"
      BY <2>2 DEF Answer, Calm, Holds, AttemptHolds
    <3> QED BY <2>2, <3>1, CalmTypes, SockFacts DEF Answer
  <2>3. CASE OpenRdv(a)
    BY <2>3, CalmTypes, SockFacts DEF OpenRdv
  <2>4. CASE \E s \in Socks : Reset(s)
    BY <2>4, CalmTypes, SockFacts DEF Reset
  <2>5. CASE UNCHANGED sock
    BY <2>5
  <2> QED BY <2>1, <2>2, <2>3, <2>4, <2>5 DEF NextFails, RdvAnswers
<1> QED BY <1>1, <1>2, <1>3, <1>4, QuietAgrees

LEMMA OpenRelayAgrees ==
    ASSUME Calm, Agree, NEW a \in Attempts, OpenRelay(a)
    PROVE  Agree'
<1>0. /\ UNCHANGED <<buf, key, wire>> /\ sock[relay(a)] = "connecting"
      /\ sock' = [sock EXCEPT ![relay(a)] = "open"]
      /\ UNCHANGED pc \/ Goes(a, "verify")
    BY DEF OpenRelay
<1>1. \A b \in Attempts : b # a => pc'[b] = pc[b]
  <2>1. "verify" \in Places
    BY DEF Places, Busy
  <2> QED BY <1>0, <2>1, CalmTypes, GoesFacts
<1>2. ASSUME NEW b \in Attempts, b # a, ModesAgree(b) PROVE ModesAgree(b)'
  <2>1. sock'[relay(b)] = sock[relay(b)]
    BY <1>0, <1>2, CalmTypes, SockFacts
  <2> QED BY <1>0, <1>1, <1>2, <2>1, StillAgrees DEF wire
<1>3. ASSUME ModesAgree(a) PROVE ModesAgree(a)'
  <2>1. ModesAgree(a) /\ AttemptHolds(a)
    BY <1>3 DEF Calm, Holds
  <2>2. /\ peer[a] = "none" /\ relay(a) \notin key /\ toPeer[a] = <<>>
        /\ fromPeer[a] = <<>> /\ buf[relay(a)] = <<>> /\ pc[a] \in {"openRelay", "over"}
    BY <1>0, <2>1 DEF ModesAgree, AttemptHolds
  <2>3. /\ peer'[a] = "none" /\ relay(a) \notin key' /\ toPeer'[a] = <<>>
        /\ fromPeer'[a] = <<>> /\ buf'[relay(a)] = <<>>
    BY <1>0, <2>2 DEF wire
  <2>4. sock'[relay(a)] = "open"
    BY <1>0, CalmTypes, SockFacts
  <2>5. pc'[a] # "keying"
    BY <1>0, <2>2, CalmTypes DEF Goes
  <2>6. ~KeyOnItsWay(a)'
    BY <2>3 DEF KeyOnItsWay
  <2>7. \A i \in 1..Len(fromPeer'[a]) : FALSE
    BY <2>3
  <2> QED BY <2>3, <2>4, <2>5, <2>6, <2>7 DEF ModesAgree
<1> QED BY <1>0, <1>2, <1>3 DEF Agree, wire

\* What a message sent on an open relay socket does to the modes: the client
\* sends it in the mode the peer will be in when it reads it.
LEMMA SendAgrees ==
    ASSUME Calm, NEW a \in Attempts, ModesAgree(a), NEW kind \in {"no_key", "data"},
           sock[relay(a)] = "open",
           toPeer'[a] = Append(toPeer[a], [enc |-> relay(a) \in key, kind |-> kind]),
           peer'[a] = peer[a], key' = key
    PROVE  /\ KeyOnItsWay(a)' <=> KeyOnItsWay(a)
           /\ peer[a] \in {"plain", "secret"} =>
                \A i \in 1..Len(toPeer'[a]) : toPeer'[a][i].enc <=> peer[a] = "secret"
           /\ peer[a] \in {"none", "first"} =>
                /\ ~toPeer'[a][1].enc
                /\ \A i \in 2..Len(toPeer'[a]) : toPeer'[a][i].enc <=> toPeer'[a][1].kind = "key"
<1> DEFINE m == [enc |-> relay(a) \in key, kind |-> kind]
           q == toPeer[a]
<1>1. /\ m \in Message /\ (m.enc <=> relay(a) \in key) /\ m.kind # "key"
      /\ q \in Seq(Message)
  <2>1. m \in Message
    BY DEF Message
  <2>2. m.kind = kind
    OBVIOUS
  <2>3. m.enc = (relay(a) \in key)
    OBVIOUS
  <2> QED BY <2>1, <2>2, <2>3, WireTypes
<1>2. toPeer'[a] = Append(q, m)
    OBVIOUS
<1>3. /\ relay(a) \in key <=> KeyOnItsWay(a)
      /\ peer[a] \in {"plain", "secret"} =>
            \A i \in 1..Len(q) : q[i].enc <=> peer[a] = "secret"
      /\ peer[a] \in {"none", "first"} /\ q # <<>> =>
            /\ ~q[1].enc
            /\ \A i \in 2..Len(q) : q[i].enc <=> q[1].kind = "key"
    BY DEF ModesAgree
<1>4. KeyOnItsWay(a) <=>
        peer[a] = "secret" \/ (peer[a] \in {"none", "first"} /\ q # <<>> /\ q[1].kind = "key")
    BY DEF KeyOnItsWay
<1>5. KeyOnItsWay(a)' <=>
        \/ peer[a] = "secret"
        \/ peer[a] \in {"none", "first"} /\ Append(q, m) # <<>> /\ Append(q, m)[1].kind = "key"
    BY <1>2 DEF KeyOnItsWay
<1> HIDE DEF m, q
<1>6. /\ Len(q) \in Nat /\ Len(Append(q, m)) = Len(q) + 1 /\ Append(q, m) # <<>>
      /\ \A i \in 1..Len(q) : Append(q, m)[i] = q[i]
      /\ Append(q, m)[Len(q) + 1] = m
      /\ q # <<>> => Len(q) >= 1
      /\ q = <<>> => Len(q) = 0
    BY <1>1, QueueAppend
<1>7. q # <<>> => Append(q, m)[1] = q[1]
    BY <1>6
<1>8. q = <<>> => Append(q, m)[1] = m
    BY <1>6
<1>9. KeyOnItsWay(a)' <=> KeyOnItsWay(a)
    BY <1>1, <1>4, <1>5, <1>6, <1>7, <1>8
<1>10. ASSUME peer[a] \in {"plain", "secret"}, NEW i \in 1..Len(Append(q, m))
       PROVE  Append(q, m)[i].enc <=> peer[a] = "secret"
  <2>1. CASE i \in 1..Len(q)
    BY <1>3, <1>6, <1>10, <2>1
  <2>2. CASE i = Len(q) + 1
    <3>1. Append(q, m)[i] = m
      BY <1>6, <2>2
    <3>2. relay(a) \in key <=> peer[a] = "secret"
      BY <1>3, <1>4, <1>10
    <3> QED BY <1>1, <3>1, <3>2
  <2> QED BY <1>6, <2>1, <2>2
<1>11. ASSUME peer[a] \in {"none", "first"}
       PROVE  /\ ~Append(q, m)[1].enc
              /\ \A i \in 2..Len(Append(q, m)) : Append(q, m)[i].enc <=> Append(q, m)[1].kind = "key"
  <2>1. CASE q = <<>>
    <3>1. ~(relay(a) \in key)
      BY <1>3, <1>4, <1>11, <2>1
    <3>2. \A i \in 2..Len(Append(q, m)) : FALSE
      BY <1>6, <2>1
    <3> QED BY <1>1, <1>8, <2>1, <3>1, <3>2
  <2>2. CASE q # <<>>
    <3>1. ~Append(q, m)[1].enc
      BY <1>3, <1>7, <1>11, <2>2
    <3>2. relay(a) \in key <=> q[1].kind = "key"
      BY <1>3, <1>4, <1>11, <2>2
    <3>3. ASSUME NEW i \in 2..Len(Append(q, m))
          PROVE  Append(q, m)[i].enc <=> Append(q, m)[1].kind = "key"
      <4>1. CASE i \in 2..Len(q)
        BY <1>3, <1>6, <1>7, <1>11, <2>2, <4>1
      <4>2. CASE i = Len(q) + 1
        <5>1. Append(q, m)[i] = m
          BY <1>6, <4>2
        <5> QED BY <1>1, <1>7, <2>2, <3>2, <5>1
      <4> QED BY <1>6, <4>1, <4>2
    <3> QED BY <3>1, <3>3
  <2> QED BY <2>1, <2>2
<1> QED BY <1>2, <1>9, <1>10, <1>11

LEMMA SendsHere ==
    ASSUME Calm, NEW a \in Attempts, ws = relay(a), NEW kind \in {"key", "no_key", "data"},
           Sends(kind, key)
    PROVE  /\ \A b \in Attempts : b # a => toPeer'[b] = toPeer[b]
           /\ sock[relay(a)] = "open" =>
                toPeer'[a] = Append(toPeer[a], [enc |-> relay(a) \in key, kind |-> kind])
           /\ sock[relay(a)] # "open" => toPeer'[a] = toPeer[a]
<1>1. toPeer \in [Attempts -> Seq(Message)] /\ ws \in Socks \cup {None}
    BY CalmTypes, WireTypes
<1>2. CASE toPeer' = toPeer /\ \A b \in Attempts : ws = relay(b) => sock[ws] # "open"
    BY <1>2
<1>3. ASSUME NEW b \in Attempts, ws = relay(b), sock[ws] = "open",
             toPeer'[b] = Append(toPeer[b], [enc |-> relay(b) \in key, kind |-> kind]),
             \A c \in Attempts : c # b => toPeer'[c] = toPeer[c]
      PROVE  /\ \A c \in Attempts : c # a => toPeer'[c] = toPeer[c]
             /\ sock[relay(a)] = "open"
             /\ toPeer'[a] = Append(toPeer[a], [enc |-> relay(a) \in key, kind |-> kind])
  <2>1. relay(a) = relay(b)
    BY <1>3
  <2>2. b = a
    BY ONLY <2>1, SockFacts, a \in Attempts, b \in Attempts
  <2> QED BY <1>3, <2>2
<1> QED BY <1>1, <1>2, <1>3, SendsFacts

\* A session sends a message without a key, or with the one it has.
LEMMA AnswerAgrees ==
    ASSUME Calm, NEW a \in Attempts, ModesAgree(a), ws = relay(a), NEW kind \in {"no_key", "data"},
           Sends(kind, key), UNCHANGED <<sock, key, peer, fromPeer>>,
           \/ buf'[relay(a)] = buf[relay(a)]
           \/ buf[relay(a)] # <<>> /\ buf'[relay(a)] = Tail(buf[relay(a)]),
           pc'[a] \notin Keyless
    PROVE  ModesAgree(a)'
<1>1. CASE sock[relay(a)] # "open"
  <2>1. toPeer'[a] = toPeer[a]
    BY <1>1, SendsHere
  <2> QED BY <2>1, StillAgrees
<1>2. CASE sock[relay(a)] = "open"
  <2>1. toPeer'[a] = Append(toPeer[a], [enc |-> relay(a) \in key, kind |-> kind])
    BY <1>2, SendsHere
  <2>2. /\ KeyOnItsWay(a)' <=> KeyOnItsWay(a)
        /\ peer[a] \in {"plain", "secret"} =>
            \A i \in 1..Len(toPeer'[a]) : toPeer'[a][i].enc <=> peer[a] = "secret"
        /\ peer[a] \in {"none", "first"} =>
            /\ ~toPeer'[a][1].enc
            /\ \A i \in 2..Len(toPeer'[a]) : toPeer'[a][i].enc <=> toPeer'[a][1].kind = "key"
    BY <1>2, <2>1, SendAgrees
  <2>3. /\ peer[a] = "none" => buf'[relay(a)] = <<>>
        /\ peer[a] = "first" => Len(fromPeer[a]) + Len(buf'[relay(a)]) <= 1
    BY LessBuffered
  <2> QED BY <1>2, <2>2, <2>3 DEF ModesAgree
<1> QED BY <1>1, <1>2

\* secure sends the key in the clear as the first message and uses it from
\* then on; the peer is still silent.
LEMMA KeyAgrees ==
    ASSUME Calm, NEW a \in Attempts, ModesAgree(a), SendKey(a, TRUE), ws = relay(a)
    PROVE  ModesAgree(a)'
<1>0. /\ pc[a] = "keying" /\ Sends("key", key) /\ key' = key \cup {ws}
      /\ Awaits(a, "loop", ws) /\ UNCHANGED <<sock, buf, peer, fromPeer>>
    BY DEF SendKey
<1>1. ModesAgree(a) /\ AttemptHolds(a)
    BY DEF Calm, Holds
<1>2. /\ toPeer[a] = <<>> /\ relay(a) \notin key /\ peer[a] = "first" /\ fromPeer[a] = <<>>
      /\ sock[relay(a)] \notin {"none", "connecting"}
    BY <1>0, <1>1 DEF ModesAgree, AttemptHolds
<1>3. pc'[a] \notin Keyless
  <2>1. "loop" \in Waiting
    BY DEF Waiting
  <2> QED BY <1>0, <2>1, CalmTypes, AwaitsFacts
<1>4. relay(a) \in key' /\ peer'[a] = "first" /\ fromPeer'[a] = <<>>
      /\ sock'[relay(a)] = sock[relay(a)]
    BY <1>0, <1>2
<1>5. Len(fromPeer'[a]) + Len(buf'[relay(a)]) <= 1
    BY <1>0, <1>1, <1>2 DEF ModesAgree
<1>6. \A i \in 1..Len(fromPeer'[a]) : FALSE
    BY <1>4
<1>7. CASE sock[relay(a)] # "open"
  <2>1. toPeer'[a] = <<>>
    BY <1>0, <1>2, <1>7, SendsHere
  <2> QED BY <1>2, <1>3, <1>4, <1>5, <1>7, <2>1 DEF ModesAgree
<1>8. CASE sock[relay(a)] = "open"
  <2> DEFINE m == [enc |-> relay(a) \in key, kind |-> "key"]
  <2>1. toPeer'[a] = Append(toPeer[a], m)
    BY <1>0, <1>8, SendsHere
  <2>2. m \in Message /\ m.kind = "key"
    BY DEF Message
  <2>3. m.enc = (relay(a) \in key)
    OBVIOUS
  <2> HIDE DEF m
  <2>4. toPeer[a] \in Seq(Message) /\ Len(toPeer[a]) = 0
    BY <1>2, WireTypes
  <2>5. /\ toPeer'[a] # <<>> /\ Len(toPeer'[a]) = 1 /\ toPeer'[a][1] = m
    BY <2>1, <2>2, <2>4, QueueAppend
  <2>6. KeyOnItsWay(a)'
    BY <1>4, <2>2, <2>5 DEF KeyOnItsWay
  <2>7. ~toPeer'[a][1].enc
    BY <1>2, <2>3, <2>5
  <2>8. \A i \in 2..Len(toPeer'[a]) : FALSE
    BY <2>5
  <2> QED BY <1>2, <1>3, <1>4, <1>5, <1>6, <1>8, <2>6, <2>7, <2>8 DEF ModesAgree
<1> QED BY <1>7, <1>8

\* A signed id taken in the handshake: it was all the peer sent.
LEMMA KeyingAgrees ==
    ASSUME Calm, NEW a \in Attempts, ModesAgree(a), pc[a] = "handshake", pc'[a] = "keying",
           UNCHANGED <<sock, key, peer, toPeer, fromPeer>>,
           buf[relay(a)] # <<>>, buf'[relay(a)] = Tail(buf[relay(a)])
    PROVE  ModesAgree(a)'
<1>1. ModesAgree(a)
    OBVIOUS
<1>2. /\ toPeer[a] = <<>> /\ relay(a) \notin key /\ peer[a] \in {"none", "first"}
    BY <1>1 DEF ModesAgree
<1>3. peer[a] = "first"
    BY <1>1, <1>2 DEF ModesAgree
<1>4. Len(fromPeer[a]) + Len(buf[relay(a)]) <= 1
    BY <1>1, <1>3 DEF ModesAgree
<1>5. Len(fromPeer[a]) \in Nat /\ fromPeer[a] \in Seq(Message)
    BY WireTypes, LenProperties
<1>6. buf[relay(a)] \in Seq({"answer", "signed_id", "data"})
    BY CalmTypes, SockFacts
<1>7. Len(buf[relay(a)]) \in Nat /\ Len(buf[relay(a)]) >= 1
    BY <1>6, QueueTail
<1>8. Len(fromPeer[a]) = 0
  <2>1. \A i, j \in Nat : i + j <= 1 /\ j >= 1 => i = 0
    OBVIOUS
  <2> QED BY ONLY <1>4, <1>5, <1>7, <2>1
<1>9. fromPeer[a] = <<>>
    BY <1>5, <1>8, EmptySeq
<1>10. Len(fromPeer[a]) + Len(buf'[relay(a)]) <= 1
    BY <1>3, LessBuffered
<1>11. KeyOnItsWay(a)' <=> KeyOnItsWay(a)
    BY DEF KeyOnItsWay
<1> QED BY <1>1, <1>2, <1>3, <1>9, <1>10, <1>11 DEF ModesAgree

LEMMA SessionAgrees ==
    ASSUME Calm, Agree, NEW a \in Attempts,
           \/ Handshake(a) \/ Proceeds(a) \/ CloseReason(a) \/ UnknownPermission(a)
           \/ \E answers \in BOOLEAN : Loop(a, answers)
    PROVE  Agree'
<1>1. /\ ws = relay(a)
      /\ pc[a] \in {"handshake", "loop"} => wait[a] = relay(a) /\ buf[relay(a)] # <<>>
    BY SessionFacts
<1>2. ASSUME NEW at \in {"handshake", "loop"}, Takes(a, at)
      PROVE  /\ pc[a] = at /\ buf[relay(a)] # <<>>
             /\ buf'[relay(a)] = Tail(buf[relay(a)])
             /\ \A s \in Socks : s # relay(a) => buf'[s] = buf[s]
  <2>1. Typed /\ wait[a] = relay(a)
    BY <1>1, <1>2 DEF Calm, Takes
  <2> QED BY <1>2, <2>1, TakesFacts
<1>3. ASSUME NEW at \in {"over", "keying", "handling"}, Goes(a, at)
      PROVE  pc'[a] = at /\ \A b \in Attempts : b # a => pc'[b] = pc[b]
  <2>1. at \in Places
    BY DEF Places, Busy
  <2> QED BY <1>3, <2>1, CalmTypes, GoesFacts
<1>4. ASSUME NEW at \in {"handshake", "loop"}, Awaits(a, at, ws)
      PROVE  pc'[a] \in {at, "over"} /\ \A b \in Attempts : b # a => pc'[b] = pc[b]
  <2>1. at \in Waiting
    BY DEF Waiting
  <2> QED BY <1>4, <2>1, CalmTypes, AwaitsFacts
<1>5. ASSUME NEW kind \in {"key", "no_key", "data"}, Sends(kind, key)
      PROVE  \A b \in Attempts : b # a => toPeer'[b] = toPeer[b]
    BY <1>1, <1>5, SendsHere
<1> USE DEF Proceeds
<1>6. UNCHANGED <<peer, fromPeer, early>>
    BY DEF Handshake, Verify, SendKey, Loop, Handled, CloseReason, UnknownPermission, wire
<1>7. ASSUME NEW b \in Attempts, b # a, ModesAgree(b) PROVE ModesAgree(b)'
  <2>1. pc'[b] = pc[b]
    BY <1>3, <1>4, <1>7 DEF Handshake, Verify, SendKey, Loop, Handled, CloseReason, UnknownPermission
  <2>2. toPeer'[b] = toPeer[b]
    BY <1>5, <1>7 DEF Handshake, Verify, SendKey, Loop, Handled, CloseReason, UnknownPermission, wire
  <2>3. relay(b) # relay(a) /\ relay(b) \in Socks
    BY <1>7, SockFacts
  <2>4. buf'[relay(b)] = buf[relay(b)]
    BY <1>2, <2>3 DEF Handshake, Verify, SendKey, Loop, Handled, CloseReason, UnknownPermission
  <2>5. relay(b) \in key' <=> relay(b) \in key
    BY <1>1, <2>3 DEF Handshake, Verify, SendKey, Loop, Handled, CloseReason, UnknownPermission
  <2>6. sock'[relay(b)] = sock[relay(b)]
    BY <1>1, <2>3, CalmTypes, ClosedFacts
       DEF Handshake, Verify, SendKey, Loop, Handled, CloseReason, UnknownPermission
  <2> QED BY <1>6, <1>7, <2>1, <2>2, <2>4, <2>5, <2>6, StillAgrees
<1>8. ASSUME ModesAgree(a) PROVE ModesAgree(a)'
  <2>1. CASE Handshake(a)
    <3>1. /\ Takes(a, "handshake") /\ UNCHANGED <<sock, key>>
          /\ \/ Goes(a, "keying") /\ UNCHANGED toPeer
             \/ Awaits(a, "loop", ws) /\ Sends("no_key", key)
      BY <2>1 DEF Handshake
    <3>2. CASE Goes(a, "keying") /\ UNCHANGED toPeer
      BY <1>2, <1>3, <1>6, <3>1, <3>2, <1>8, KeyingAgrees
    <3>3. CASE Awaits(a, "loop", ws) /\ Sends("no_key", key)
      <4>1. pc'[a] \notin Keyless
        BY <1>4, <3>3
      <4> QED BY <1>1, <1>2, <1>6, <3>1, <3>3, <4>1, <1>8, AnswerAgrees
    <3> QED BY <3>1, <3>2, <3>3
  <2>2. ASSUME NEW ok \in BOOLEAN, Verify(a, ok) PROVE ModesAgree(a)'
    <3>1. /\ pc[a] = "verify" /\ UNCHANGED <<sock, buf, key>>
          /\ \/ Awaits(a, "handshake", ws) /\ UNCHANGED toPeer
             \/ Awaits(a, "loop", ws) /\ Sends("no_key", key)
      BY <2>2 DEF Verify
    <3>2. CASE Awaits(a, "handshake", ws) /\ UNCHANGED toPeer
      BY <1>4, <1>6, <3>1, <3>2, <1>8, StillAgrees
    <3>3. CASE Awaits(a, "loop", ws) /\ Sends("no_key", key)
      <4>1. pc'[a] \notin Keyless
        BY <1>4, <3>3
      <4> QED BY <1>1, <1>6, <3>1, <3>3, <4>1, <1>8, AnswerAgrees
    <3> QED BY <3>1, <3>2, <3>3
  <2>3. CASE SendKey(a, TRUE)
    BY <1>1, <2>3, <1>8, KeyAgrees
  <2>4. CASE SendKey(a, FALSE)
    <3>1. Sends("no_key", key) /\ UNCHANGED <<sock, buf, key>> /\ Awaits(a, "loop", ws)
      BY <2>4 DEF SendKey
    <3>2. pc'[a] \notin Keyless
      BY <1>4, <3>1
    <3> QED BY <1>1, <1>6, <3>1, <3>2, <1>8, AnswerAgrees
  <2>5. ASSUME NEW answers \in BOOLEAN, Loop(a, answers) PROVE ModesAgree(a)'
    <3>1. /\ Takes(a, "loop") /\ UNCHANGED <<sock, key>> /\ Goes(a, "handling")
          /\ Sends("data", key) \/ UNCHANGED toPeer
      BY <2>5 DEF Loop
    <3>2. pc'[a] \notin Keyless
      BY <1>3, <3>1
    <3>3. CASE Sends("data", key)
      BY <1>1, <1>2, <1>6, <3>1, <3>2, <3>3, <1>8, AnswerAgrees
    <3>4. CASE UNCHANGED toPeer
      BY <1>2, <1>6, <3>1, <3>2, <3>4, <1>8, StillAgrees
    <3> QED BY <3>1, <3>3, <3>4
  <2>6. CASE Handled(a)
    <3>1. UNCHANGED <<sock, buf, key, toPeer>> /\ Awaits(a, "loop", ws)
      BY <2>6 DEF Handled, wire
    <3>2. pc'[a] \notin Keyless
      BY <1>4, <3>1
    <3> QED BY <1>6, <3>1, <3>2, <1>8, StillAgrees
  <2>7. CASE CloseReason(a) \/ UnknownPermission(a)
    <3>1. /\ Takes(a, "loop") /\ Goes(a, "over") /\ UNCHANGED <<key, toPeer>>
          /\ sock' = sock \/ sock' = Closed(sock, ws)
      BY <2>7 DEF CloseReason, UnknownPermission, wire
    <3>2. pc'[a] \notin Keyless
      BY <1>3, <3>1
    <3>3. sock'[relay(a)] = sock[relay(a)] \/ sock'[relay(a)] = "closed"
      BY <3>1, CalmTypes, ClosedFacts, SockFacts
    <3> QED BY <1>2, <1>6, <3>1, <3>2, <3>3, <1>8, StillAgrees
  <2> QED BY <2>1, <2>2, <2>3, <2>4, <2>5, <2>6, <2>7
<1> QED BY <1>6, <1>7, <1>8 DEF Agree

\* A step on the wire of attempt a concerns no other attempt.
LEMMA OtherWires ==
    ASSUME Calm, Agree, NEW a \in Attempts, a \notin early => ModesAgree(a)',
           UNCHANGED <<pc, sock, key, early>>,
           Receive(a) \/ PeerJoins(a) \/ PeerReads(a) \/ PeerSends(a)
    PROVE  Agree'
<1> SUFFICES ASSUME NEW b \in Attempts, b # a, ModesAgree(b) PROVE ModesAgree(b)'
    BY DEF Agree
<1>1. /\ peer'[b] = peer[b] /\ toPeer'[b] = toPeer[b] /\ fromPeer'[b] = fromPeer[b]
    BY WireTypes DEF Receive, PeerJoins, PeerReads, PeerSends
<1>2. relay(b) # relay(a) /\ relay(b) \in Socks
    BY SockFacts
<1>3. UNCHANGED buf \/ buf' = [buf EXCEPT ![relay(a)] = Append(@, Head(fromPeer[a]).kind)]
    BY DEF Receive, PeerJoins, PeerReads, PeerSends
<1>4. buf'[relay(b)] = buf[relay(b)]
    BY <1>2, <1>3, CalmTypes
<1> QED BY <1>1, <1>4, StillAgrees

LEMMA ReceiveAgrees ==
    ASSUME Calm, NEW a \in Attempts, ModesAgree(a), a \notin garbled, Receive(a)
    PROVE  ModesAgree(a)' /\ a \notin garbled'
<1>0. /\ sock[relay(a)] = "open" /\ fromPeer[a] # <<>>
      /\ fromPeer' = [fromPeer EXCEPT ![a] = Tail(@)]
      /\ garbled' = IF Head(fromPeer[a]).enc = (relay(a) \in key) THEN garbled ELSE garbled \cup {a}
      /\ buf' = [buf EXCEPT ![relay(a)] = Append(@, Head(fromPeer[a]).kind)]
      /\ UNCHANGED <<pc, wait, sock, ws, key, peer, toPeer>>
    BY DEF Receive
<1> DEFINE q == fromPeer[a]
           r == buf[relay(a)]
<1>1. ModesAgree(a)
    OBVIOUS
<1>2. fromPeer'[a] = Tail(q) /\ buf'[relay(a)] = Append(r, Head(q).kind)
    BY <1>0, CalmTypes, WireTypes, SockFacts
<1>3. q \in Seq(Message) /\ q # <<>> /\ r \in Seq({"answer", "signed_id", "data"})
    BY <1>0, CalmTypes, WireTypes, SockFacts
<1>4. /\ \A i \in 1..Len(q) : q[i].enc <=> relay(a) \in key
      /\ \A i \in 1..Len(q) : q[i].kind \in {"signed_id", "data"}
      /\ peer[a] # "none" /\ pc[a] # "keying"
      /\ peer[a] = "first" => Len(q) + Len(r) <= 1
    BY <1>0, <1>1 DEF ModesAgree, Calm, Typed
<1> HIDE DEF q, r
<1>5. /\ Head(q) \in Message /\ Head(q) = q[1] /\ Len(q) \in Nat /\ Len(q) >= 1
      /\ Len(Tail(q)) = Len(q) - 1
      /\ \A i \in 1..Len(Tail(q)) : i + 1 \in 2..Len(q) /\ Tail(q)[i] = q[i + 1]
    BY <1>3, QueueTail
<1>6. a \notin garbled'
  <2>1. Head(q).enc <=> relay(a) \in key
    BY <1>4, <1>5
  <2>2. Head(q).enc \in BOOLEAN
    BY <1>5 DEF Message
  <2>3. garbled' = IF Head(q).enc = (relay(a) \in key) THEN garbled ELSE garbled \cup {a}
    BY <1>0 DEF q
  <2>4. CASE relay(a) \in key
    <3>1. Head(q).enc = TRUE /\ (relay(a) \in key) = TRUE
      BY <2>1, <2>2, <2>4
    <3> QED BY <2>3, <3>1
  <2>5. CASE relay(a) \notin key
    <3>1. Head(q).enc = FALSE /\ (relay(a) \in key) = FALSE
      BY <2>1, <2>2, <2>5
    <3> QED BY <2>3, <3>1
  <2> QED BY <2>4, <2>5
<1>7. Len(r) \in Nat /\ Len(Append(r, Head(q).kind)) = Len(r) + 1
  <2>1. Head(q).kind \in {"answer", "signed_id", "data"}
    BY <1>4, <1>5
  <2> QED BY <1>3, <2>1, QueueAppend
<1>8. peer[a] = "first" => Len(Tail(q)) + Len(Append(r, Head(q).kind)) <= 1
  <2>1. \A i, j \in Nat : i + j <= 1 => (i - 1) + (j + 1) <= 1
    OBVIOUS
  <2>2. peer[a] = "first" => (Len(q) - 1) + (Len(r) + 1) <= 1
    BY ONLY <1>4, <1>5, <1>7, <2>1
  <2> QED BY <1>5, <1>7, <2>2
<1>9. \A i \in 1..Len(Tail(q)) : Tail(q)[i].enc <=> relay(a) \in key
  <2>1. \A i \in 2..Len(q) : i \in 1..Len(q)
    BY <1>5
  <2> QED BY <1>4, <1>5, <2>1
<1>10. KeyOnItsWay(a)' <=> KeyOnItsWay(a)
    BY <1>0 DEF KeyOnItsWay
<1>11. ModesAgree(a)'
    BY <1>0, <1>1, <1>2, <1>4, <1>8, <1>9, <1>10 DEF ModesAgree
<1> QED BY <1>6, <1>11

LEMMA JoinAgrees ==
    ASSUME Calm, NEW a \in Attempts, ModesAgree(a), PeerJoins(a)
    PROVE  ModesAgree(a)'
<1>0. /\ peer[a] = "none" /\ sock[relay(a)] = "open" /\ peer' = [peer EXCEPT ![a] = "first"]
      /\ fromPeer' = [fromPeer EXCEPT ![a] = Append(@, [enc |-> FALSE, kind |-> "signed_id"])]
      /\ UNCHANGED <<pc, sock, buf, key, toPeer, garbled>>
    BY DEF PeerJoins
<1>1. ModesAgree(a)
    OBVIOUS
<1>2. /\ fromPeer[a] = <<>> /\ buf[relay(a)] = <<>> /\ relay(a) \notin key /\ pc[a] # "keying"
      /\ ~KeyOnItsWay(a)
    BY <1>0, <1>1 DEF ModesAgree
<1>3. peer'[a] = "first" /\ fromPeer'[a] = Append(<<>>, [enc |-> FALSE, kind |-> "signed_id"])
    BY <1>0, <1>2, WireTypes
<1>4. Len(fromPeer'[a]) = 1 /\ fromPeer'[a][1] = [enc |-> FALSE, kind |-> "signed_id"]
    BY <1>3
<1>5. \A i \in 1..Len(fromPeer'[a]) : ~fromPeer'[a][i].enc
    BY <1>4
<1>6. Len(fromPeer'[a]) + Len(buf'[relay(a)]) <= 1
    BY <1>0, <1>2, <1>4
<1>7. ~KeyOnItsWay(a)'
    BY <1>0, <1>2, <1>3 DEF KeyOnItsWay
<1>8. ModesAgree(a)'
    BY <1>0, <1>1, <1>2, <1>3, <1>5, <1>6, <1>7 DEF ModesAgree
<1> QED BY <1>8

LEMMA ReadAgrees ==
    ASSUME Calm, NEW a \in Attempts, ModesAgree(a), a \notin garbled, PeerReads(a)
    PROVE  ModesAgree(a)' /\ a \notin garbled'
<1> DEFINE q == toPeer[a]
<1>0. /\ peer[a] # "none" /\ q # <<>>
      /\ garbled' = IF Head(q).enc = (peer[a] = "secret") THEN garbled ELSE garbled \cup {a}
      /\ peer' = IF peer[a] = "first"
                 THEN [peer EXCEPT ![a] = IF Head(q).kind = "key" THEN "secret" ELSE "plain"]
                 ELSE peer
      /\ toPeer' = [toPeer EXCEPT ![a] = Tail(@)]
      /\ UNCHANGED <<pc, sock, buf, key, fromPeer>>
    BY DEF PeerReads
<1>1. ModesAgree(a)
    OBVIOUS
<1>2. /\ q \in Seq(Message) /\ toPeer'[a] = Tail(q)
      /\ peer[a] \in {"first", "plain", "secret"}
      /\ peer[a] = "first" => peer'[a] = IF Head(q).kind = "key" THEN "secret" ELSE "plain"
      /\ peer[a] # "first" => peer'[a] = peer[a]
    BY <1>0, WireTypes
<1>3. /\ pc[a] \notin Keyless
      /\ sock[relay(a)] \notin {"none", "connecting"}
    BY <1>0, <1>1 DEF ModesAgree
<1>4. /\ peer[a] \in {"plain", "secret"} =>
            \A i \in 1..Len(q) : q[i].enc <=> peer[a] = "secret"
      /\ peer[a] = "first" =>
            /\ ~q[1].enc
            /\ \A i \in 2..Len(q) : q[i].enc <=> q[1].kind = "key"
    BY <1>0, <1>1 DEF ModesAgree
<1>5. KeyOnItsWay(a) <=> peer[a] = "secret" \/ (peer[a] = "first" /\ q[1].kind = "key")
    BY <1>0 DEF KeyOnItsWay
<1> HIDE DEF q
<1>6. /\ Head(q) \in Message /\ Head(q) = q[1] /\ Len(q) \in Nat /\ Len(q) >= 1
      /\ Len(Tail(q)) = Len(q) - 1
      /\ \A i \in 1..Len(Tail(q)) : i + 1 \in 2..Len(q) /\ Tail(q)[i] = q[i + 1]
    BY <1>0, <1>2, QueueTail
<1>7. a \notin garbled'
  <2>1. q[1].enc \in BOOLEAN
    BY <1>6 DEF Message
  <2>2. q[1].enc <=> peer[a] = "secret"
    BY <1>2, <1>4, <1>6
  <2> QED BY <1>0, <1>6, <2>1, <2>2
<1>8. peer'[a] \in {"plain", "secret"} /\ (peer'[a] = "secret" <=> KeyOnItsWay(a))
    BY <1>2, <1>5, <1>6
<1>9. KeyOnItsWay(a)' <=> KeyOnItsWay(a)
    BY <1>8 DEF KeyOnItsWay
<1>10. \A i \in 1..Len(Tail(q)) : Tail(q)[i].enc <=> peer'[a] = "secret"
  <2>1. \A i \in 2..Len(q) : i \in 1..Len(q)
    BY <1>6
  <2>2. \A i \in 2..Len(q) : q[i].enc <=> peer'[a] = "secret"
    BY <1>2, <1>4, <1>5, <1>8, <2>1
  <2> QED BY <1>6, <2>2
<1>11. ModesAgree(a)'
  <2>1. sock[relay(a)] = "open" =>
            /\ relay(a) \in key <=> KeyOnItsWay(a)
            /\ \A i \in 1..Len(fromPeer[a]) : fromPeer[a][i].enc <=> relay(a) \in key
    BY <1>1 DEF ModesAgree
  <2> QED BY <1>0, <1>2, <1>3, <1>8, <1>9, <1>10, <2>1 DEF ModesAgree
<1> QED BY <1>7, <1>11

LEMMA PeerSendAgrees ==
    ASSUME Calm, NEW a \in Attempts, ModesAgree(a), PeerSends(a)
    PROVE  ModesAgree(a)'
<1> DEFINE m == [enc |-> peer[a] = "secret", kind |-> "data"]
           q == fromPeer[a]
<1>0. /\ peer[a] \in {"plain", "secret"} /\ fromPeer' = [fromPeer EXCEPT ![a] = Append(@, m)]
      /\ UNCHANGED <<pc, sock, buf, key, peer, toPeer, garbled>>
    BY DEF PeerSends
<1>1. ModesAgree(a)
    OBVIOUS
<1>2. fromPeer'[a] = Append(q, m) /\ q \in Seq(Message)
    BY <1>0, WireTypes
<1>3. m \in Message
    BY DEF Message
<1>4. m.enc = (peer[a] = "secret")
    OBVIOUS
<1>5. KeyOnItsWay(a) <=> peer[a] = "secret"
    BY <1>0 DEF KeyOnItsWay
<1>6. sock[relay(a)] = "open" =>
        /\ relay(a) \in key <=> KeyOnItsWay(a)
        /\ \A i \in 1..Len(q) : q[i].enc <=> relay(a) \in key
    BY <1>1 DEF ModesAgree
<1>7. pc[a] # "keying"
    BY <1>0, <1>1 DEF ModesAgree
<1> HIDE DEF m, q
<1>8. /\ Len(q) \in Nat /\ Len(Append(q, m)) = Len(q) + 1
      /\ \A i \in 1..Len(q) : Append(q, m)[i] = q[i]
      /\ Append(q, m)[Len(q) + 1] = m
    BY <1>2, <1>3, QueueAppend
<1>9. ASSUME sock[relay(a)] = "open", NEW i \in 1..Len(Append(q, m))
      PROVE  Append(q, m)[i].enc <=> relay(a) \in key
  <2>1. CASE i \in 1..Len(q)
    BY <1>6, <1>8, <1>9, <2>1
  <2>2. CASE i = Len(q) + 1
    <3>1. Append(q, m)[i] = m
      BY <1>8, <2>2
    <3> QED BY <1>4, <1>5, <1>6, <1>9, <3>1
  <2> QED BY <1>8, <2>1, <2>2
<1>10. KeyOnItsWay(a)' <=> KeyOnItsWay(a)
    BY <1>0 DEF KeyOnItsWay
<1>11. ModesAgree(a)'
    BY <1>0, <1>1, <1>2, <1>6, <1>7, <1>9, <1>10 DEF ModesAgree
<1> QED BY <1>11

\* No message is misread but after early input.
Unharmed == \A a \in Attempts : a \notin early => a \notin garbled

LEMMA WireAgrees ==
    ASSUME Calm, Agree, Unharmed, NEW a \in Attempts,
           Receive(a) \/ PeerJoins(a) \/ PeerReads(a) \/ PeerSends(a)
    PROVE  Agree' /\ Unharmed'
<1>1. UNCHANGED <<pc, sock, key, early>> /\ \A b \in Attempts : b # a /\ b \notin garbled => b \notin garbled'
    BY DEF Receive, PeerJoins, PeerReads, PeerSends
<1>2. ASSUME a \notin early PROVE ModesAgree(a)' /\ a \notin garbled'
  <2>1. ModesAgree(a) /\ a \notin garbled
    BY <1>2 DEF Agree, Unharmed
  <2>2. PeerJoins(a) \/ PeerSends(a) => UNCHANGED garbled
    BY DEF PeerJoins, PeerSends
  <2> QED BY <2>1, <2>2, ReceiveAgrees, JoinAgrees, ReadAgrees, PeerSendAgrees
<1>3. Agree'
    BY <1>1, <1>2, OtherWires
<1> QED BY <1>1, <1>2, <1>3 DEF Unharmed

\* Input of the user once secure() is over goes out in the mode of the session.
LEMMA InputAgrees ==
    ASSUME Calm, Agree, UserSends
    PROVE  Agree'
<1>1. /\ Sends("data", key) /\ early \subseteq early'
      /\ UNCHANGED <<pc, sock, buf, ws, key, peer, fromPeer>>
    BY DEF UserSends
<1> SUFFICES ASSUME NEW a \in Attempts, a \notin early', ModesAgree(a) PROVE ModesAgree(a)'
    BY <1>1 DEF Agree
<1>2. CASE ws = relay(a) /\ sock[relay(a)] = "open"
  <2>1. pc[a] \notin Keyless
    BY <1>2 DEF UserSends
  <2> QED BY <1>1, <1>2, <2>1, AnswerAgrees
<1>3. CASE ~(ws = relay(a) /\ sock[relay(a)] = "open")
  <2>1. toPeer'[a] = toPeer[a]
    BY <1>1, <1>3, CalmTypes, WireTypes, SendsFacts
  <2> QED BY <1>1, <2>1, StillAgrees
<1> QED BY <1>2, <1>3

-----------------------------------------------------------------------------
(* After early input *)

Plain == \A a \in early : relay(a) \notin key => PlainSoFar(a)

\* A queue of messages in the clear stays one.
LEMMA PlainAppend ==
    ASSUME NEW q \in Seq(Message), NEW m \in Message, ~m.enc, NEW K,
           \A i \in 1..Len(q) : ~q[i].enc /\ q[i].kind \notin K, m.kind \notin K
    PROVE  \A i \in 1..Len(Append(q, m)) : ~Append(q, m)[i].enc /\ Append(q, m)[i].kind \notin K
<1>1. /\ Len(q) \in Nat /\ Len(Append(q, m)) = Len(q) + 1
      /\ \A i \in 1..Len(q) : Append(q, m)[i] = q[i]
      /\ Append(q, m)[Len(q) + 1] = m
    BY QueueAppend
<1> SUFFICES ASSUME NEW i \in 1..Len(Append(q, m))
             PROVE  ~Append(q, m)[i].enc /\ Append(q, m)[i].kind \notin K
    OBVIOUS
<1>2. i \in 1..Len(q) \/ i = Len(q) + 1
    BY <1>1
<1> QED BY <1>1, <1>2

LEMMA PlainTail ==
    ASSUME NEW q \in Seq(Message), q # <<>>, NEW K,
           \A i \in 1..Len(q) : ~q[i].enc /\ q[i].kind \notin K
    PROVE  /\ ~Head(q).enc /\ Head(q).kind \notin K /\ Head(q) \in Message
           /\ \A i \in 1..Len(Tail(q)) : ~Tail(q)[i].enc /\ Tail(q)[i].kind \notin K
<1>1. /\ Head(q) \in Message /\ Head(q) = q[1] /\ Len(q) \in Nat /\ Len(q) >= 1
      /\ \A i \in 1..Len(Tail(q)) : i + 1 \in 2..Len(q) /\ Tail(q)[i] = q[i + 1]
    BY QueueTail
<1>2. 1 \in 1..Len(q) /\ \A i \in 2..Len(q) : i \in 1..Len(q)
    BY <1>1
<1> QED BY <1>1, <1>2

\* What a client without a key sends leaves the queue in the clear.
LEMMA PlainSends ==
    ASSUME Calm, NEW a \in Attempts, relay(a) \notin key, NEW kind \in {"no_key", "data"},
           Sends(kind, key), PlainSoFar(a), UNCHANGED <<peer, fromPeer, garbled>>
    PROVE  PlainSoFar(a)'
<1>1. CASE toPeer'[a] = toPeer[a]
    BY <1>1 DEF PlainSoFar
<1>2. CASE toPeer'[a] = Append(toPeer[a], [enc |-> relay(a) \in key, kind |-> kind])
  <2> DEFINE m == [enc |-> relay(a) \in key, kind |-> kind]
  <2>1. m \in Message /\ m.kind \notin {"key"}
    BY DEF Message
  <2>2. m.enc = (relay(a) \in key)
    OBVIOUS
  <2>3. toPeer[a] \in Seq(Message) /\ toPeer'[a] = Append(toPeer[a], m)
    BY <1>2, WireTypes
  <2>4. \A i \in 1..Len(toPeer[a]) : ~toPeer[a][i].enc /\ toPeer[a][i].kind \notin {"key"}
    BY DEF PlainSoFar
  <2> HIDE DEF m
  <2>5. \A i \in 1..Len(toPeer'[a]) : ~toPeer'[a][i].enc /\ toPeer'[a][i].kind \notin {"key"}
    BY <2>1, <2>2, <2>3, <2>4, PlainAppend
  <2> QED BY <2>5 DEF PlainSoFar
<1>3. toPeer'[a] = toPeer[a] \/ toPeer'[a] = Append(toPeer[a], [enc |-> relay(a) \in key, kind |-> kind])
    BY CalmTypes, WireTypes, SendsFacts
<1> QED BY <1>1, <1>2, <1>3

\* Input during secure() is sent in the clear, and nothing was encrypted yet.
LEMMA InputPlain ==
    ASSUME Calm, Agree, Unharmed, Plain, UserSends
    PROVE  Plain'
<1>1. Sends("data", key) /\ UNCHANGED <<key, peer, fromPeer, garbled>>
    BY DEF UserSends
<1> SUFFICES ASSUME NEW a \in early', relay(a) \notin key PROVE PlainSoFar(a)'
    BY <1>1 DEF Plain
<1>2. a \in Attempts
    BY DEF UserSends, Calm, Typed, TypeOK
<1>3. CASE a \in early
    BY <1>1, <1>2, <1>3, PlainSends DEF Plain
<1>4. CASE a \notin early
  <2>1. sock[relay(a)] = "open" /\ pc[a] \in Keyless
    BY <1>4 DEF UserSends
  <2>2. ModesAgree(a) /\ a \notin garbled
    BY <1>2, <1>4 DEF Agree, Unharmed
  <2>3. /\ toPeer[a] = <<>> /\ peer[a] # "secret"
        /\ \A i \in 1..Len(fromPeer[a]) : ~fromPeer[a][i].enc
    BY <2>1, <2>2 DEF ModesAgree
  <2>4. \A i \in 1..Len(toPeer[a]) : FALSE
    BY <2>3
  <2>5. PlainSoFar(a)
    BY <2>2, <2>3, <2>4 DEF PlainSoFar
  <2> QED BY <1>1, <1>2, <2>5, PlainSends
<1> QED BY <1>3, <1>4

LEMMA SessionPlain ==
    ASSUME Calm, Plain, NEW a \in Attempts,
           \/ Handshake(a) \/ Proceeds(a) \/ CloseReason(a) \/ UnknownPermission(a)
           \/ \E answers \in BOOLEAN : Loop(a, answers)
    PROVE  Plain'
<1> USE DEF Proceeds
<1>1. UNCHANGED <<peer, fromPeer, garbled, early>> /\ key \subseteq key'
    BY DEF Handshake, Verify, SendKey, Loop, Handled, CloseReason, UnknownPermission, wire
<1> SUFFICES ASSUME NEW b \in early, relay(b) \notin key' PROVE PlainSoFar(b)'
    BY <1>1 DEF Plain
<1>2. b \in Attempts /\ relay(b) \notin key /\ PlainSoFar(b)
    BY <1>1 DEF Plain, Calm, Typed, TypeOK
<1>3. CASE \E kind \in {"no_key", "data"} : Sends(kind, key)
    BY <1>1, <1>2, <1>3, PlainSends
<1>4. CASE UNCHANGED toPeer
    BY <1>1, <1>2, <1>4 DEF PlainSoFar
<1>5. CASE SendKey(a, TRUE)
  <2>1. ws = relay(a) /\ Sends("key", key) /\ relay(a) \in key'
    BY <1>5, SessionFacts DEF SendKey
  <2>2. b # a
    BY <2>1
  <2>3. toPeer'[b] = toPeer[b]
    BY <1>2, <2>1, <2>2, SendsHere
  <2> QED BY <1>1, <1>2, <2>3 DEF PlainSoFar
<1> QED BY <1>3, <1>4, <1>5
       DEF Handshake, Verify, SendKey, Loop, Handled, CloseReason, UnknownPermission, wire

LEMMA WirePlain ==
    ASSUME Calm, Plain, NEW a \in Attempts,
           Receive(a) \/ PeerJoins(a) \/ PeerReads(a) \/ PeerSends(a)
    PROVE  Plain'
<1>1. UNCHANGED <<key, early>>
    BY DEF Receive, PeerJoins, PeerReads, PeerSends
<1> SUFFICES ASSUME NEW b \in early, relay(b) \notin key PROVE PlainSoFar(b)'
    BY <1>1 DEF Plain
<1>2. b \in Attempts /\ PlainSoFar(b)
    BY DEF Plain, Calm, Typed, TypeOK
<1>3. CASE b # a
  <2>1. /\ peer'[b] = peer[b] /\ toPeer'[b] = toPeer[b] /\ fromPeer'[b] = fromPeer[b]
        /\ b \in garbled' => b \in garbled
    BY <1>2, <1>3, WireTypes DEF Receive, PeerJoins, PeerReads, PeerSends
  <2> QED BY <1>2, <2>1 DEF PlainSoFar
<1>4. CASE b = a
  <2>0. /\ toPeer[a] \in Seq(Message) /\ fromPeer[a] \in Seq(Message)
        /\ peer[a] # "secret" /\ a \notin garbled
        /\ \A i \in 1..Len(toPeer[a]) : ~toPeer[a][i].enc /\ toPeer[a][i].kind \notin {"key"}
        /\ \A i \in 1..Len(fromPeer[a]) : ~fromPeer[a][i].enc /\ fromPeer[a][i].kind \notin {}
    BY <1>2, <1>4, WireTypes DEF PlainSoFar
  <2>1. CASE Receive(a)
    <3>1. /\ fromPeer[a] # <<>> /\ fromPeer'[a] = Tail(fromPeer[a]) /\ UNCHANGED <<peer, toPeer>>
          /\ garbled' = IF Head(fromPeer[a]).enc = (relay(a) \in key) THEN garbled ELSE garbled \cup {a}
      BY <2>1, WireTypes DEF Receive
    <3>2. /\ ~Head(fromPeer[a]).enc /\ Head(fromPeer[a]) \in Message
          /\ \A i \in 1..Len(Tail(fromPeer[a])) : ~Tail(fromPeer[a])[i].enc
      BY <2>0, <3>1, PlainTail
    <3>3. Head(fromPeer[a]).enc = FALSE /\ (relay(a) \in key) = FALSE
      BY <1>4, <3>2 DEF Message
    <3>4. UNCHANGED garbled
      BY <3>1, <3>3
    <3> QED BY <1>4, <2>0, <3>1, <3>2, <3>4 DEF PlainSoFar
  <2>2. ASSUME NEW m \in Message, ~m.enc, fromPeer'[a] = Append(fromPeer[a], m),
               UNCHANGED <<toPeer, garbled>>, peer'[a] # "secret"
        PROVE  PlainSoFar(a)'
    <3>1. \A i \in 1..Len(fromPeer'[a]) : ~fromPeer'[a][i].enc
      BY <2>0, <2>2, PlainAppend
    <3> QED BY <2>0, <2>2, <3>1 DEF PlainSoFar
  <2>3. CASE PeerJoins(a)
    <3> DEFINE m == [enc |-> FALSE, kind |-> "signed_id"]
    <3>1. m \in Message /\ ~m.enc
      BY DEF Message
    <3>2. fromPeer'[a] = Append(fromPeer[a], m) /\ peer'[a] = "first" /\ UNCHANGED <<toPeer, garbled>>
      BY <2>3, WireTypes DEF PeerJoins
    <3> HIDE DEF m
    <3> QED BY <1>4, <2>2, <3>1, <3>2
  <2>4. CASE PeerSends(a)
    <3> DEFINE m == [enc |-> peer[a] = "secret", kind |-> "data"]
    <3>1. m \in Message
      BY DEF Message
    <3>2. m.enc = (peer[a] = "secret")
      OBVIOUS
    <3>3. fromPeer'[a] = Append(fromPeer[a], m) /\ UNCHANGED <<peer, toPeer, garbled>>
      BY <2>4, WireTypes DEF PeerSends
    <3> HIDE DEF m
    <3> QED BY <1>4, <2>0, <2>2, <3>1, <3>2, <3>3
  <2>5. CASE PeerReads(a)
    <3>1. /\ toPeer[a] # <<>> /\ toPeer'[a] = Tail(toPeer[a]) /\ UNCHANGED fromPeer
          /\ garbled' = IF Head(toPeer[a]).enc = (peer[a] = "secret") THEN garbled ELSE garbled \cup {a}
          /\ peer' = IF peer[a] = "first"
                     THEN [peer EXCEPT ![a] = IF Head(toPeer[a]).kind = "key" THEN "secret" ELSE "plain"]
                     ELSE peer
      BY <2>5, WireTypes DEF PeerReads
    <3>2. /\ ~Head(toPeer[a]).enc /\ Head(toPeer[a]) \in Message /\ Head(toPeer[a]).kind \notin {"key"}
          /\ \A i \in 1..Len(Tail(toPeer[a])) : ~Tail(toPeer[a])[i].enc /\ Tail(toPeer[a])[i].kind \notin {"key"}
      BY <2>0, <3>1, PlainTail
    <3>3. Head(toPeer[a]).enc = FALSE /\ (peer[a] = "secret") = FALSE
      BY <2>0, <3>2 DEF Message
    <3>4. UNCHANGED garbled
      BY <3>1, <3>3
    <3>5. peer'[a] # "secret"
      BY <2>0, <3>1, <3>2, WireTypes
    <3> QED BY <1>4, <2>0, <3>1, <3>2, <3>4, <3>5 DEF PlainSoFar
  <2> QED BY <2>1, <2>3, <2>4, <2>5
<1> QED BY <1>3, <1>4

LEMMA AgreeInitial == Init => Agree
<1> SUFFICES ASSUME Init, NEW a \in Attempts PROVE ModesAgree(a)
    BY DEF Agree
<1>1. /\ pc[a] = "idle" /\ peer[a] = "none" /\ toPeer[a] = <<>> /\ fromPeer[a] = <<>>
      /\ buf[relay(a)] = <<>> /\ sock[relay(a)] = "none" /\ key = {}
    BY SockFacts DEF Init
<1> QED BY <1>1 DEF ModesAgree

LEMMA AgreeStep ==
    ASSUME Calm, Agree, Unharmed, Plain, [Next]_vars
    PROVE  Agree' /\ Unharmed' /\ Plain'
<1>0. ASSUME UNCHANGED <<key, wire>> PROVE Unharmed' /\ Plain'
    BY <1>0 DEF Unharmed, Plain, PlainSoFar, wire
<1>1. CASE UNCHANGED vars
  <2>1. Agree'
    BY <1>1 DEF vars, Agree, ModesAgree, KeyOnItsWay
  <2> QED BY <1>0, <1>1, <2>1 DEF vars, wire
<1>2. CASE Close
    BY <1>0, <1>2, UserAgrees DEF Close
<1>3. ASSUME NEW s \in Socks, Reset(s) PROVE Agree' /\ Unharmed' /\ Plain'
  <2>1. s[1] \in Attempts
    BY SockFacts
  <2>2. UNCHANGED <<key, wire>>
    BY <1>3 DEF Reset
  <2> QED BY <1>0, <1>3, <2>1, <2>2, SocketAgrees
<1>4. CASE UserSends
  <2>1. Unharmed'
    BY <1>4 DEF UserSends, Unharmed
  <2> QED BY <1>4, <2>1, InputAgrees, InputPlain
<1>5. ASSUME NEW a \in Attempts,
             \/ Start(a) \/ OpenRdv(a) \/ OpenRelay(a) \/ NextFails(a) \/ Handshake(a)
             \/ \E ok \in BOOLEAN : Answer(a, ok) \/ Loop(a, ok)
             \/ Proceeds(a)
             \/ \E s \in Socks, timeout \in BOOLEAN : OpenFails(a, s, timeout)
             \/ CloseReason(a) \/ UnknownPermission(a) \/ Receive(a)
             \/ RdvAnswers(a) \/ PeerJoins(a) \/ PeerReads(a) \/ PeerSends(a)
      PROVE  Agree' /\ Unharmed' /\ Plain'
  <2>1. CASE Receive(a) \/ PeerJoins(a) \/ PeerReads(a) \/ PeerSends(a)
    BY <2>1, WireAgrees, WirePlain
  <2>2. CASE \/ Handshake(a) \/ Proceeds(a) \/ CloseReason(a) \/ UnknownPermission(a)
             \/ \E answers \in BOOLEAN : Loop(a, answers)
    <3>1. UNCHANGED <<garbled, early>>
      BY <2>2 DEF Handshake, Loop, Proceeds, Handled, Verify, SendKey, CloseReason,
            UnknownPermission, wire
    <3> QED BY <2>2, <3>1, SessionAgrees, SessionPlain DEF Unharmed
  <2>3. CASE \/ Start(a) \/ OpenRdv(a) \/ OpenRelay(a) \/ NextFails(a) \/ RdvAnswers(a)
             \/ \E ok \in BOOLEAN : Answer(a, ok)
             \/ \E s \in Socks, timeout \in BOOLEAN : OpenFails(a, s, timeout)
    <3>1. UNCHANGED <<key, wire>>
      BY <2>3 DEF Start, OpenRdv, OpenRelay, NextFails, Answer, OpenFails, RdvAnswers
    <3> QED BY <1>0, <2>3, <3>1, UserAgrees, SocketAgrees, OpenRelayAgrees
  <2> QED BY <1>5, <2>1, <2>2, <2>3
<1> QED BY <1>1, <1>2, <1>3, <1>4, <1>5 DEF Next

-----------------------------------------------------------------------------
(* The theorems *)

LEMMA InvInitial == Init => Inv
<1> QED BY TypedInitial, HoldsInitial, AgreeInitial DEF Inv, Holds, Agree, Init

LEMMA InvStep == Inv /\ [Next]_vars => Inv'
<1> SUFFICES ASSUME Inv, [Next]_vars PROVE Inv'
    OBVIOUS
<1>1. Typed'
    BY TypedStep DEF Inv
<1>2. CASE interrupted'
    BY <1>1, <1>2 DEF Inv
<1>3. CASE ~interrupted'
  <2>1. ~interrupted
    BY <1>3, InterruptedStays DEF Inv
  <2>2. Calm /\ Agree /\ Unharmed /\ Plain
    BY <2>1 DEF Inv, Calm, Holds, Agree, Unharmed, Plain
  <2>3. Holds' /\ DroppedEnds'
    BY <1>3, <2>2, HoldsStep
  <2>4. Agree' /\ Unharmed' /\ Plain'
    BY <2>2, AgreeStep
  <2> QED BY <1>1, <2>3, <2>4 DEF Inv, Holds, Agree, Unharmed, Plain
<1> QED BY <1>2, <1>3

LEMMA InvAlways == Spec => []Inv
<1> QED BY InvInitial, InvStep, PTL DEF Spec

\* Connection.start, secure and msgLoop keep every attempt, socket and queue
\* in its type, whatever close() interrupts.
THEOREM ClientTypeCorrect == Spec => []TypeOK
<1>1. Inv => TypeOK
    BY DEF Inv, Typed
<1> QED BY <1>1, InvAlways, PTL

\* The only open socket is the one close() would close: start and reconnect
\* leave no other behind, but for a relay socket that opened after its attempt
\* gave up and after a close() that found an attempt busy.
THEOREM OpenSocketsStayHeld == Spec => []OpenSocketsAreHeld
<1>1. ASSUME Inv, ~interrupted, NEW s \in Socks, sock[s] = "open"
      PROVE  s = ws \/ s[1] \in late
  <2>1. s[1] \in Attempts /\ (s = rdv(s[1]) \/ s = relay(s[1]))
    BY SockFacts
  <2>2. AttemptHolds(s[1])
    BY <1>1, <2>1 DEF Inv
  <2> QED BY <1>1, <2>1, <2>2 DEF AttemptHolds
<1>2. Inv => OpenSocketsAreHeld
    BY <1>1 DEF OpenSocketsAreHeld
<1> QED BY <1>2, InvAlways, PTL

\* A connection that the user interface closed and forgot has no attempt that
\* still handles or takes a message, unless one was busy when it was closed.
THEOREM DroppedStaysSilent == Spec => []DroppedIsSilent
<1>1. Inv => DroppedIsSilent
    BY DEF Inv, DroppedEnds, DroppedIsSilent
<1> QED BY <1>1, InvAlways, PTL

\* sendMessage and _recv_message use the key at the same messages as the peer,
\* whichever way secure() falls back, whatever the user sends and however the
\* queues interleave, except on a connection that uses a key although input of
\* the user went out ahead of it.
THEOREM CipherStaysAgreed == Spec => []CipherAgreed
<1>1. ASSUME Inv, ~interrupted, NEW a \in garbled PROVE a \in early /\ relay(a) \in key
  <2>1. a \in Attempts
    BY <1>1 DEF Inv, Typed, TypeOK
  <2>2. a \in early
    BY <1>1, <2>1 DEF Inv
  <2> QED BY <1>1, <2>2 DEF Inv, PlainSoFar
<1>2. Inv => CipherAgreed
    BY <1>1 DEF CipherAgreed
<1> QED BY <1>2, InvAlways, PTL
=============================================================================
