-------------------------------- MODULE Tls --------------------------------
(* The TLS extension, src/extension/openssl/mnet_tls.c, on the extension     *)
(* interface of src/src/mnet_core.c: callbacks at open, close, listen,       *)
(* accept, connect and disconnect, and a filter every message passes, which  *)
(* holds back ACCEPT and CONNECTED until the handshake is over.              *)
(*                                                                           *)
(* A step is one call of the application or one event that mnet_result_next  *)
(* works on, with every callback it makes.  OpenSSL and the peer are         *)
(* external: what a call returns follows from the bytes that have come in.   *)
EXTENDS Integers, FiniteSets

CONSTANTS Channs, Null,
          Freed         \* a pointer to a chann that was destroyed

States == {"DISCONNECT", "CONNECTING", "CONNECTED", "LISTENING"}

(* mnet_tls_ud_t *)
Ud == [state : States, ssl : BOOLEAN, ln : Channs \cup {Null, Freed}]

ASSUME TlsAssumption == Null \notin Channs /\ Freed \notin Channs /\ Null # Freed /\ Null \notin Ud

VARIABLES
    registered,  \* the extension type is reserved
    st,          \* n->state; "FREE" is no chann
    fd,          \* channs with a socket
    ud,          \* n->ext_ud: the TLS state, whether tu->ssl is set, tu->ln; or Null
    hs,          \* external: how far the SSL object's handshake has got
    pend,        \* external: channs whose SSL object could not send its flight
    tcp,         \* external: "none", "syn", "up", "refused"
    in,          \* external: what the socket has for SSL to read
    eof,         \* external: channs whose peer has hung up
    backlog,     \* external: connections waiting in listening sockets
    msg,         \* the message mnet_result_next() has returned
    told,        \* history: what the application knows of a chann
    from         \* history: the listener a chann was accepted by

coreVars == <<registered, st, fd, ud>>
peerVars == <<hs, pend, tcp, in, eof, backlog>>
vars == <<coreVars, peerVars, msg, told, from>>

NoMsg == [event |-> "none", n |-> Null, r |-> Null]
Msg(e, n, r) == [event |-> e, n |-> n, r |-> r]

Reset(f, c, v) == [f EXCEPT ![c] = v]

-----------------------------------------------------------------------------
(* OpenSSL, from how the extension uses it *)

Inputs == {"none", "more", "last", "bad", "data"}

(* What the handshake comes to with the peer's flights that are read: "run"  *)
(* when the next flight is ours, "last" when only our answer is missing      *)
SslRead(c) ==
    IF in[c] = "last" \/ hs[c] = "last" THEN "last"
    ELSE IF tcp[c] = "up" /\ (ud[c].state # "LISTENING" \/ in[c] = "more") THEN "run" ELSE hs[c]

(* SSL_accept() and SSL_connect(), with _ssl_is_rw(): dead when what is read *)
(* is wrong or the connection was refused, over when the peer's last flight  *)
(* is read and what we send fits in the socket's buffer, SSL_ERROR_WANT_READ *)
(* or SSL_ERROR_WANT_WRITE otherwise                                         *)
SslResult(c, fits) ==
    IF in[c] = "bad" \/ tcp[c] = "refused" THEN "fail"
    ELSE IF SslRead(c) = "last" /\ fits THEN "ok" ELSE "want"

SslStep(c, fits) ==
    /\ hs' = Reset(hs, c, CASE SslResult(c, fits) = "ok" -> "done"
                            [] SslResult(c, fits) = "fail" -> "failed"
                            [] OTHER -> SslRead(c))
    /\ pend' = IF fits \/ SslRead(c) = "new" THEN pend \ {c} ELSE pend \cup {c}
    /\ in' = Reset(in, c, "none")

-----------------------------------------------------------------------------
(* The callbacks *)

Up(state) == state \in {"CONNECTING", "CONNECTED", "LISTENING"}   \* > CHANN_STATE_DISCONNECT

\* Mutant: the TLS state is forgotten.
disconnect_keeps_state(c) == ud[c]

(* _tls_disconnect_cb(): the SSL object is shut down and cleared *)
DisconnectedUd(c) ==
    IF ud[c] # Null /\ Up(ud[c].state) THEN [ud[c] EXCEPT !.state = "DISCONNECT"] ELSE ud[c]

(* _chann_disconnect_socket(), where it is called on a chann that has a socket *)
DisconnectSocket(c) ==
    /\ fd' = fd \ {c}
    /\ st' = Reset(st, c, "DISCONNECT")
    /\ ud' = Reset(ud, c, DisconnectedUd(c))
    /\ eof' = eof \ {c} /\ backlog' = backlog \ {c} /\ pend' = pend \ {c}
    /\ tcp' = Reset(tcp, c, "none") /\ in' = Reset(in, c, "none") /\ hs' = Reset(hs, c, "new")

-----------------------------------------------------------------------------
(* The application's calls *)

(* mnet_ext_register() takes a type once *)
MnetExtRegister == ~registered /\ registered' = TRUE

(* mnet_tls_config() *)
Register ==
    /\ MnetExtRegister
    /\ UNCHANGED <<st, fd, ud, peerVars, msg, told, from>>

(* mnet_chann_open() of the reserved type, _tls_open_cb() *)
Open(c) ==
    /\ registered /\ st[c] = "FREE"
    /\ st' = Reset(st, c, "DISCONNECT")
    /\ ud' = Reset(ud, c, [state |-> "DISCONNECT", ssl |-> FALSE, ln |-> Null])
    /\ told' = Reset(told, c, "own")
    /\ msg' = NoMsg
    /\ UNCHANGED <<registered, fd, peerVars, from>>

(* mnet_chann_listen(), _tls_listen_cb(): a listener has no TLS state *)
Listen(c) ==
    /\ st[c] = "DISCONNECT" /\ told[c] # "no" /\ c \notin fd
    /\ st' = Reset(st, c, "LISTENING")
    /\ fd' = fd \cup {c}
    /\ ud' = Reset(ud, c, Null)
    /\ msg' = NoMsg
    /\ UNCHANGED <<registered, peerVars, told, from>>

(* mnet_chann_connect(), _tls_connect_cb(): a new SSL object makes its first *)
(* step.  One that fails at once, because the connection is refused already, *)
(* is disconnected under the call, which returns 1 all the same.             *)
Connect(c) ==
    /\ st[c] = "DISCONNECT" /\ told[c] # "no" /\ c \notin fd
    /\ \/ /\ st' = Reset(st, c, "CONNECTING")
          /\ fd' = fd \cup {c}
          /\ tcp' = Reset(tcp, c, "syn")
          /\ ud' = IF ud[c] = Null THEN ud ELSE Reset(ud, c, [ud[c] EXCEPT !.state = "CONNECTING", !.ssl = TRUE])
       \/ /\ ud[c] # Null
          /\ ud' = Reset(ud, c, [ud[c] EXCEPT !.ssl = TRUE])
          /\ UNCHANGED <<st, fd, tcp>>
    /\ msg' = NoMsg
    /\ UNCHANGED <<registered, hs, pend, in, eof, backlog, told, from>>

(* mnet_chann_disconnect() *)
Disconnect(c) ==
    /\ told[c] # "no" /\ c \in fd
    /\ DisconnectSocket(c)
    /\ told' = Reset(told, c, "own")
    /\ msg' = NoMsg
    /\ UNCHANGED <<registered, from>>

(* mnet_chann_close(): disconnected, then _tls_close_cb() frees the TLS state *)
Close(c) ==
    /\ told[c] # "no" /\ st[c] \notin {"FREE", "CLOSED"}
    /\ fd' = fd \ {c}
    /\ st' = Reset(st, c, "CLOSED")
    /\ ud' = Reset(ud, c, Null)
    /\ eof' = eof \ {c} /\ backlog' = backlog \ {c} /\ pend' = pend \ {c}
    /\ tcp' = Reset(tcp, c, "none") /\ in' = Reset(in, c, "none") /\ hs' = Reset(hs, c, "new")
    /\ msg' = NoMsg
    /\ UNCHANGED <<registered, told, from>>

(* mnet_chann_state() and the check in mnet_chann_recv() and _send() *)
ChannState(c) == IF ud[c] # Null THEN ud[c].state ELSE st[c]
Usable(c) == told[c] = "up" /\ ChannState(c) \in {"CONNECTED", "LISTENING"} /\ c \in fd

(* A failed call disconnects and DISCONNECT is reported (the queue of such   *)
(* reports is MnetCore's)                                                    *)
Fails(c) ==
    /\ DisconnectSocket(c)
    /\ msg' = Msg("DISCONNECT", c, Null)
    /\ told' = Reset(told, c, "own")

(* _tls_recv_fn(): a chann without TLS state cannot read *)
Recv(c) ==
    /\ Usable(c)
    /\ IF in[c] # "bad" /\ ud[c] # Null
       THEN /\ in' = Reset(in, c, "none") /\ msg' = NoMsg
            /\ UNCHANGED <<fd, st, ud, hs, pend, tcp, eof, backlog, told>>
       ELSE Fails(c)
    /\ UNCHANGED <<registered, from>>

(* _tls_send_fn(), when it fails *)
Send(c) ==
    /\ Usable(c) /\ (ud[c] = Null \/ c \in eof)
    /\ Fails(c)
    /\ UNCHANGED <<registered, from>>

(* mnet_poll() destroys what was closed; pointers to it stay where they are *)
Poll ==
    /\ \E c \in Channs : st[c] = "CLOSED"
    /\ LET gone == {c \in Channs : st[c] = "CLOSED"} IN
          /\ st' = [c \in Channs |-> IF c \in gone THEN "FREE" ELSE st[c]]
          /\ ud' = [c \in Channs |-> IF ud[c] # Null /\ ud[c].ln \in gone
                                     THEN [ud[c] EXCEPT !.ln = Freed] ELSE ud[c]]
          /\ from' = [c \in Channs |-> IF c \in gone THEN Null
                                       ELSE IF from[c] \in gone THEN Freed ELSE from[c]]
          /\ told' = [c \in Channs |-> IF c \in gone THEN "no" ELSE told[c]]
    /\ msg' = NoMsg
    /\ UNCHANGED <<registered, fd, peerVars>>

-----------------------------------------------------------------------------
(* The events mnet_result_next() works on *)

\* Mutant: the filter does not keep the listener.
accept_without_ln(l, c) ==
    /\ st[l] = "LISTENING" /\ l \in backlog /\ st[c] = "FREE"
    /\ backlog' = backlog \ {l}
    /\ from' = Reset(from, c, l)
    /\ st' = Reset(st, c, "CONNECTED") /\ fd' = fd \cup {c}
    /\ ud' = Reset(ud, c, [state |-> "LISTENING", ssl |-> TRUE, ln |-> Null])
    /\ tcp' = Reset(tcp, c, "up")
    /\ msg' = NoMsg
    /\ UNCHANGED <<registered, hs, pend, in, eof, told>>

(* A listener's socket is readable: _chann_accept() with _tls_accept_cb(),   *)
(* then the filter keeps the listener in tu->ln and holds ACCEPT back.  A    *)
(* handshake that fails at once leaves a chann without a socket.             *)
Accept(l, c) ==
    /\ st[l] = "LISTENING" /\ l \in backlog /\ st[c] = "FREE"
    /\ backlog' = backlog \ {l}
    /\ from' = Reset(from, c, l)
    /\ \/ /\ st' = Reset(st, c, "CONNECTED") /\ fd' = fd \cup {c}
          /\ ud' = Reset(ud, c, [state |-> "LISTENING", ssl |-> TRUE, ln |-> l])
          /\ tcp' = Reset(tcp, c, "up")
       \/ /\ st' = Reset(st, c, "DISCONNECT") /\ UNCHANGED <<fd, tcp>>
          /\ ud' = Reset(ud, c, [state |-> "DISCONNECT", ssl |-> TRUE, ln |-> l])
    /\ msg' = NoMsg
    /\ UNCHANGED <<registered, hs, pend, in, eof, told>>

(* _tls_filter_fn() on RECV or CONNECTED of a chann whose handshake is under *)
(* way; `core` is what the event has made of the chann's state.  Whatever    *)
(* SSL wants, the chann goes on watching EPOLLIN.                            *)
FilterHandshake(c, core) ==
    LET server == ud[c].state = "LISTENING" IN
    \E fits \in BOOLEAN :
      CASE SslResult(c, fits) = "want" ->
             st' = core /\ SslStep(c, fits) /\ msg' = NoMsg /\ UNCHANGED <<fd, ud, eof, tcp, backlog, told>>
        [] SslResult(c, fits) = "ok" ->
             /\ st' = core /\ SslStep(c, fits)
             /\ ud' = Reset(ud, c, [ud[c] EXCEPT !.state = "CONNECTED", !.ln = Null])
             /\ msg' = IF server THEN Msg("ACCEPT", ud[c].ln, c) ELSE Msg("CONNECTED", c, Null)
             /\ told' = Reset(told, c, "up")
             /\ UNCHANGED <<fd, eof, tcp, backlog>>
        [] OTHER ->
             /\ DisconnectSocket(c)
             /\ msg' = IF server THEN NoMsg ELSE Msg("DISCONNECT", c, Null)
             /\ told' = IF server THEN told ELSE Reset(told, c, "own")

(* The filter lets RECV and CONNECTED pass otherwise *)
FilterPass(c, event, core) ==
    /\ st' = core
    /\ msg' = Msg(event, c, Null)
    /\ told' = Reset(told, c, "up")
    /\ UNCHANGED <<fd, ud, peerVars>>

\* Mutant: only CONNECTED is held back for the handshake.
filter_connected_only(c, event, core) ==
    IF ud[c] = Null \/ ud[c].state = "CONNECTED" \/ event = "RECV"
    THEN FilterPass(c, event, core) ELSE FilterHandshake(c, core)

\* Mutant: a failed server handshake is held back and not disconnected.
filter_fail_open(c, event, core) ==
    IF ud[c] = Null \/ ud[c].state = "CONNECTED"
    THEN FilterPass(c, event, core)
    ELSE IF SslResult(c, TRUE) = "fail" /\ ud[c].state = "LISTENING"
         THEN SslStep(c, TRUE) /\ st' = core /\ msg' = NoMsg /\ UNCHANGED <<fd, ud, eof, tcp, backlog, told>>
         ELSE FilterHandshake(c, core)

\* Mutant: a handshake that is over is not recorded.
filter_never_done(c, event, core) ==
    IF ud[c] = Null \/ ud[c].state = "CONNECTED"
    THEN FilterPass(c, event, core)
    ELSE IF SslResult(c, TRUE) = "ok"
         THEN SslStep(c, TRUE) /\ st' = core /\ msg' = NoMsg /\ UNCHANGED <<fd, ud, eof, tcp, backlog, told>>
         ELSE FilterHandshake(c, core)

Filter(c, event, core) ==
    IF ud[c] = Null \/ ud[c].state = "CONNECTED"
    THEN FilterPass(c, event, core) ELSE FilterHandshake(c, core)

(* The peer hung up or the connection was refused: checked before all else,  *)
(* and DISCONNECT passes the filter                                          *)
EventHup(c) ==
    /\ c \in fd /\ (c \in eof \/ tcp[c] = "refused")
    /\ Fails(c)
    /\ UNCHANGED <<registered, from>>

(* connect() has succeeded *)
EventOut(c) ==
    /\ c \in fd \ eof /\ st[c] = "CONNECTING" /\ tcp[c] = "up"
    /\ Filter(c, "CONNECTED", Reset(st, c, "CONNECTED"))
    /\ UNCHANGED <<registered, from>>

EventIn(c) ==
    /\ c \in fd \ eof /\ st[c] = "CONNECTED" /\ in[c] # "none"
    /\ Filter(c, "RECV", st)
    /\ UNCHANGED <<registered, from>>

-----------------------------------------------------------------------------
(* The peers *)

PeerConnects(l) ==
    /\ st[l] = "LISTENING" /\ backlog' = backlog \cup {l}
    /\ UNCHANGED <<coreVars, hs, pend, tcp, in, eof, msg, told, from>>

TcpEnds(c) ==
    /\ tcp[c] = "syn"
    /\ \E r \in {"up", "refused"} : tcp' = Reset(tcp, c, r)
    /\ UNCHANGED <<coreVars, hs, pend, in, eof, backlog, msg, told, from>>

(* The last flight answers ours, so it comes after the first exchange and    *)
(* only when ours was sent                                                   *)
PeerSends(c, x) ==
    /\ tcp[c] = "up" /\ c \notin eof /\ in[c] = "none"
    /\ x = "data" => hs[c] = "done"
    /\ x = "last" => hs[c] = "run" /\ c \notin pend
    /\ x = "more" => hs[c] \in {"new", "run", "last"}
    /\ in' = Reset(in, c, x)
    /\ UNCHANGED <<coreVars, hs, pend, tcp, eof, backlog, msg, told, from>>

PeerHangsUp(c) ==
    /\ tcp[c] = "up" /\ eof' = eof \cup {c}
    /\ UNCHANGED <<coreVars, hs, pend, tcp, in, backlog, msg, told, from>>

-----------------------------------------------------------------------------
Init ==
    /\ registered = FALSE
    /\ st = [c \in Channs |-> "FREE"] /\ fd = {} /\ ud = [c \in Channs |-> Null]
    /\ hs = [c \in Channs |-> "new"] /\ tcp = [c \in Channs |-> "none"]
    /\ in = [c \in Channs |-> "none"] /\ eof = {} /\ backlog = {} /\ pend = {}
    /\ msg = NoMsg
    /\ told = [c \in Channs |-> "no"] /\ from = [c \in Channs |-> Null]

Event(c) == EventHup(c) \/ EventOut(c) \/ EventIn(c)
Peer(c) ==
    \/ PeerConnects(c) \/ TcpEnds(c) \/ PeerHangsUp(c)
    \/ \E x \in Inputs \ {"none"} : PeerSends(c, x)

Next ==
    \/ Register \/ Poll
    \/ \E c \in Channs :
          \/ Open(c) \/ Listen(c) \/ Connect(c) \/ Disconnect(c) \/ Close(c) \/ Recv(c) \/ Send(c)
          \/ Event(c) \/ Peer(c)
          \/ \E l \in Channs : Accept(l, c)

Spec == Init /\ [][Next]_vars

(* An application that keeps polling: a chann's events are worked on *)
FairSpec == Spec /\ \A c \in Channs : WF_vars(Event(c))

-----------------------------------------------------------------------------
(* Properties *)

(* The types of the channs' and the extension's state. *)
TypeOK ==
    /\ st \in [Channs -> States \cup {"FREE", "CLOSED"}]
    /\ fd \subseteq Channs /\ eof \subseteq fd /\ backlog \subseteq fd /\ pend \subseteq fd
    /\ ud \in [Channs -> Ud \cup {Null}]
    /\ hs \in [Channs -> {"new", "run", "last", "done", "failed"}]
    /\ told \in [Channs -> {"no", "own", "up"}]
    /\ in \in [Channs -> Inputs] /\ tcp \in [Channs -> {"none", "syn", "up", "refused"}]
    /\ from \in [Channs -> Channs \cup {Null, Freed}]

(* What mnet_chann_state() says of a TLS chann is true: CONNECTED means an   *)
(* open connection with its handshake done, a chann without a connection     *)
(* says so, and whatever state lets SSL_read, SSL_write or SSL_shutdown be   *)
(* called has an SSL object.  Everything is of its type.                     *)
StateAgrees ==
    /\ TypeOK
    /\ \A c \in Channs : ud[c] # Null =>
          /\ ud[c].state = "CONNECTED" => st[c] = "CONNECTED" /\ c \in fd /\ hs[c] = "done"
          /\ st[c] = "DISCONNECT" <=> ud[c].state = "DISCONNECT"
          /\ Up(ud[c].state) => ud[c].ssl

(* A chann that was accepted and that the application has never heard of     *)
(* holds a socket only while its handshake is under way.                     *)
NoStrandedSocket ==
    \A c \in fd : told[c] = "no" =>
        ud[c] # Null /\ ud[c].state = "LISTENING" /\ hs[c] \in {"new", "run", "last"}

(* The application gets no RECV before the handshake is over, and only of a  *)
(* chann that ACCEPT or CONNECTED has told it of.                            *)
DataAfterHandshake ==
    [][\A c \in Channs : msg' = Msg("RECV", c, Null) => told[c] = "up" /\ (ud[c] # Null => hs[c] = "done")]_vars

(* ACCEPT, when the handshake is over, names the listener that accepted the  *)
(* connection (or its freed memory, when it was closed in the meantime).     *)
AcceptNamesListener == msg.event = "ACCEPT" => msg.n # Null /\ msg.n = from[msg.r]

(* A peer that plays its part: the connection is made or refused, the server *)
(* gets a first flight, and flights of ours that were sent are answered.     *)
PeerAnswers ==
    \A c \in Channs :
        /\ WF_vars(TcpEnds(c))
        /\ SF_vars(hs[c] = "new" /\ PeerSends(c, "more"))
        /\ SF_vars(PeerSends(c, "last"))

(* Where the peer plays its part every handshake comes to an end, through    *)
(* all of its events: the application is told, or the chann is disconnected. *)
(* The exception is a flight of ours that did not fit in the socket's buffer *)
(* (SSL_ERROR_WANT_WRITE): EPOLLOUT is not watched, so that nothing is sent  *)
(* until the peer happens to send.                                           *)
HandshakeEnds ==
    PeerAnswers =>
      \A c \in Channs :
        (c \in fd /\ ud[c] # Null /\ ud[c].state \in {"LISTENING", "CONNECTING"})
            ~> (c \notin fd \/ ud[c] = Null \/ ud[c].state = "CONNECTED" \/ c \in pend)
=============================================================================
