------------------------------ MODULE TlsProofs ------------------------------
(* The safety properties of the TLS extension, proved for every set of       *)
(* channs: what mnet_chann_state() says of a chann is true, a connection the *)
(* application never heard of is not left behind, ACCEPT names the listener  *)
(* that accepted, and no data is reported before the handshake is over.      *)
EXTENDS Tls, TLAPS

(* What relates the state of a chann, its socket, its TLS state, the SSL     *)
(* object and what the application was told of it.  The last three clauses   *)
(* are what the properties rest on and do not say themselves: only a new     *)
(* SSL object waits for a socket, tu->ln is the listener as long as ACCEPT   *)
(* is held back, and what passes the filter has been announced.              *)
ChannOK(c) ==
    /\ c \in fd <=> Up(st[c])
    /\ st[c] \in {"FREE", "CLOSED"} => ud[c] = Null
    /\ ud[c] # Null =>
          /\ ud[c].state = "CONNECTED" => st[c] = "CONNECTED" /\ hs[c] = "done"
          /\ st[c] = "DISCONNECT" <=> ud[c].state = "DISCONNECT"
          /\ Up(ud[c].state) => ud[c].ssl
    /\ c \in fd /\ told[c] = "no" =>
          ud[c] # Null /\ ud[c].state = "LISTENING" /\ hs[c] \in {"new", "run", "last"}
    /\ c \notin fd => hs[c] = "new" /\ in[c] = "none" /\ tcp[c] = "none"
    /\ ud[c] # Null /\ ud[c].state = "LISTENING" => ud[c].ln = from[c] /\ from[c] # Null
    /\ st[c] = "CONNECTED" /\ (ud[c] = Null \/ ud[c].state = "CONNECTED") => told[c] = "up"

(* The message that was returned last is true of the state it left. *)
MsgOK ==
    /\ AcceptNamesListener
    /\ \A c \in Channs : msg = Msg("RECV", c, Null) => told[c] = "up" /\ (ud[c] # Null => hs[c] = "done")

Inv == TypeOK /\ (\A c \in Channs : ChannOK(c)) /\ MsgOK

(* _tls_connect_cb() *)
LEMMA UdConnect ==
  ASSUME NEW u \in Ud
  PROVE  /\ [u EXCEPT !.state = "CONNECTING", !.ssl = TRUE] \in Ud
         /\ [u EXCEPT !.state = "CONNECTING", !.ssl = TRUE].state = "CONNECTING"
         /\ [u EXCEPT !.state = "CONNECTING", !.ssl = TRUE].ssl
         /\ [u EXCEPT !.ssl = TRUE] \in Ud
         /\ [u EXCEPT !.ssl = TRUE].state = u.state
         /\ [u EXCEPT !.ssl = TRUE].ssl
         /\ [u EXCEPT !.ssl = TRUE].ln = u.ln
  BY DEF Ud, States

(* The handshake is over: the filter forgets the listener. *)
LEMMA UdDone ==
  ASSUME NEW u \in Ud
  PROVE  /\ [u EXCEPT !.state = "CONNECTED", !.ln = Null] \in Ud
         /\ [u EXCEPT !.state = "CONNECTED", !.ln = Null].state = "CONNECTED"
         /\ [u EXCEPT !.state = "CONNECTED", !.ln = Null].ssl = u.ssl
  BY DEF Ud, States

(* _tls_disconnect_cb() *)
LEMMA UdDisconnect ==
  ASSUME NEW u \in Ud
  PROVE  /\ [u EXCEPT !.state = "DISCONNECT"] \in Ud
         /\ [u EXCEPT !.state = "DISCONNECT"].state = "DISCONNECT"
  BY DEF Ud, States

(* The listener is destroyed: tu->ln points to freed memory. *)
LEMMA UdFreed ==
  ASSUME NEW u \in Ud
  PROVE  /\ [u EXCEPT !.ln = Freed] \in Ud
         /\ [u EXCEPT !.ln = Freed].state = u.state
         /\ [u EXCEPT !.ln = Freed].ssl = u.ssl
         /\ [u EXCEPT !.ln = Freed].ln = Freed
  BY DEF Ud

(* A chann the step does not touch is as it was. *)
LEMMA Untouched ==
  ASSUME NEW d, ChannOK(d), d \in fd' <=> d \in fd,
         st'[d] = st[d], ud'[d] = ud[d], hs'[d] = hs[d], tcp'[d] = tcp[d],
         in'[d] = in[d], told'[d] = told[d], from'[d] = from[d]
  PROVE  ChannOK(d)'
  BY DEF ChannOK

(* A message that is neither ACCEPT nor RECV claims nothing. *)
LEMMA QuietMsg ==
  ASSUME msg'.event \notin {"ACCEPT", "RECV"}
  PROVE  MsgOK'
  BY DEF MsgOK, AcceptNamesListener, Msg

(* A step on one chann. *)
LEMMA OneChann ==
  ASSUME Inv, NEW c \in Channs, TypeOK', MsgOK', ChannOK(c)',
         \A d \in Channs \ {c} :
            /\ d \in fd' <=> d \in fd
            /\ st'[d] = st[d] /\ ud'[d] = ud[d] /\ hs'[d] = hs[d] /\ tcp'[d] = tcp[d]
            /\ in'[d] = in[d] /\ told'[d] = told[d] /\ from'[d] = from[d]
  PROVE  Inv'
  BY Untouched DEF Inv

(* _chann_disconnect_socket() of a chann that has a socket, whether or not   *)
(* the application is told.                                                  *)
LEMMA DropOK ==
  ASSUME Inv, NEW c \in fd, DisconnectSocket(c), from' = from,
         told' = told \/ told' = Reset(told, c, "own"), MsgOK'
  PROVE  Inv'
  <1>1. c \in Channs /\ TypeOK /\ ChannOK(c)
    BY DEF Inv, TypeOK
  <1>2. /\ fd' = fd \ {c} /\ eof' = eof \ {c} /\ backlog' = backlog \ {c} /\ pend' = pend \ {c}
        /\ st' = [st EXCEPT ![c] = "DISCONNECT"]
        /\ ud' = [ud EXCEPT ![c] = DisconnectedUd(c)]
        /\ tcp' = [tcp EXCEPT ![c] = "none"]
        /\ in' = [in EXCEPT ![c] = "none"]
        /\ hs' = [hs EXCEPT ![c] = "new"]
    BY DEF DisconnectSocket, Reset
  <1>3. /\ DisconnectedUd(c) \in Ud \cup {Null}
        /\ DisconnectedUd(c) # Null => DisconnectedUd(c).state = "DISCONNECT"
    BY <1>1, UdDisconnect, TlsAssumption DEF DisconnectedUd, TypeOK, Up, Ud, States
  <1>4. TypeOK'
    <2>1. told' \in [Channs -> {"no", "own", "up"}]
      BY <1>1 DEF TypeOK, Reset
    <2>2. st' \in [Channs -> States \cup {"FREE", "CLOSED"}]
      BY <1>1, <1>2 DEF TypeOK, States
    <2>3. ud' \in [Channs -> Ud \cup {Null}]
      BY <1>1, <1>2, <1>3 DEF TypeOK
    <2>4. in' \in [Channs -> Inputs]
      BY <1>1, <1>2 DEF TypeOK, Inputs
    <2> QED BY <1>1, <1>2, <2>1, <2>2, <2>3, <2>4 DEF TypeOK
  <1>5. ChannOK(c)'
    BY <1>1, <1>2, <1>3 DEF ChannOK, TypeOK, Up
  <1> QED BY <1>1, <1>2, <1>4, <1>5, OneChann DEF TypeOK, Reset

(* A failed call or a lost connection: DISCONNECT is reported. *)
LEMMA FailsOK ==
  ASSUME Inv, NEW c \in fd, Fails(c), from' = from
  PROVE  Inv'
  <1>1. MsgOK'
    BY QuietMsg DEF Fails, Msg
  <1> QED BY <1>1, DropOK DEF Fails

-----------------------------------------------------------------------------
(* The application's calls *)

(* mnet_chann_open() *)
LEMMA OpenOK ==
  ASSUME Inv, NEW c \in Channs, Open(c)
  PROVE  Inv'
  <1>1. TypeOK /\ ChannOK(c)
    BY DEF Inv
  <1> DEFINE u == [state |-> "DISCONNECT", ssl |-> FALSE, ln |-> Null]
  <1>2. /\ st[c] = "FREE" /\ st' = [st EXCEPT ![c] = "DISCONNECT"]
        /\ ud' = [ud EXCEPT ![c] = u] /\ told' = [told EXCEPT ![c] = "own"]
        /\ msg' = NoMsg
        /\ UNCHANGED <<fd, hs, pend, tcp, in, eof, backlog, from>>
    BY DEF Open, Reset, peerVars
  <1>3. u \in Ud /\ u.state = "DISCONNECT"
    BY DEF Ud, States
  <1> HIDE DEF u
  <1>4. TypeOK'
    BY <1>1, <1>2, <1>3 DEF TypeOK, States
  <1>5. ChannOK(c)'
    BY <1>1, <1>2, <1>3 DEF ChannOK, TypeOK, Up
  <1>6. MsgOK'
    BY <1>2, QuietMsg DEF NoMsg
  <1> QED BY <1>1, <1>2, <1>4, <1>5, <1>6, OneChann DEF TypeOK

(* mnet_chann_listen() *)
LEMMA ListenOK ==
  ASSUME Inv, NEW c \in Channs, Listen(c)
  PROVE  Inv'
  <1>1. TypeOK /\ ChannOK(c)
    BY DEF Inv
  <1>2. /\ st[c] = "DISCONNECT" /\ told[c] # "no" /\ c \notin fd
        /\ st' = [st EXCEPT ![c] = "LISTENING"] /\ fd' = fd \cup {c}
        /\ ud' = [ud EXCEPT ![c] = Null] /\ msg' = NoMsg
        /\ UNCHANGED <<hs, pend, tcp, in, eof, backlog, told, from>>
    BY DEF Listen, Reset, peerVars
  <1>4. TypeOK'
    BY <1>1, <1>2 DEF TypeOK, States
  <1>5. ChannOK(c)'
    BY <1>1, <1>2 DEF ChannOK, TypeOK, Up
  <1>6. MsgOK'
    BY <1>2, QuietMsg DEF NoMsg
  <1> QED BY <1>1, <1>2, <1>4, <1>5, <1>6, OneChann DEF TypeOK

(* mnet_chann_connect() *)
LEMMA ConnectOK ==
  ASSUME Inv, NEW c \in Channs, Connect(c)
  PROVE  Inv'
  <1>1. TypeOK /\ ChannOK(c)
    BY DEF Inv
  <1>2. /\ st[c] = "DISCONNECT" /\ told[c] # "no" /\ c \notin fd /\ msg' = NoMsg
        /\ UNCHANGED <<hs, pend, in, eof, backlog, told, from>>
    BY DEF Connect
  <1>3. MsgOK'
    BY <1>2, QuietMsg DEF NoMsg
  <1>4. CASE /\ st' = Reset(st, c, "CONNECTING") /\ fd' = fd \cup {c}
             /\ tcp' = Reset(tcp, c, "syn")
             /\ ud' = IF ud[c] = Null THEN ud
                      ELSE Reset(ud, c, [ud[c] EXCEPT !.state = "CONNECTING", !.ssl = TRUE])
    <2>1. /\ \A d \in Channs \ {c} : ud'[d] = ud[d]
          /\ ud' \in [Channs -> Ud \cup {Null}]
          /\ ud'[c] # Null => ud'[c].state = "CONNECTING" /\ ud'[c].ssl
      <3>1. CASE ud[c] = Null
        BY <1>1, <1>4, <3>1 DEF TypeOK
      <3>2. CASE ud[c] # Null
        <4> DEFINE u == [ud[c] EXCEPT !.state = "CONNECTING", !.ssl = TRUE]
        <4>0. ud[c] \in Ud
          BY <1>1, <3>2 DEF TypeOK
        <4>1. u \in Ud /\ u.state = "CONNECTING" /\ u.ssl
          BY ONLY <4>0, UdConnect, Zenon
        <4>2. ud' = [ud EXCEPT ![c] = u]
          BY <1>4, <3>2 DEF Reset
        <4> HIDE DEF u
        <4> QED BY <1>1, <4>1, <4>2 DEF TypeOK
      <3> QED BY <3>1, <3>2
    <2>2. TypeOK'
      BY <1>1, <1>2, <1>4, <2>1 DEF TypeOK, States, Reset
    <2>3. ChannOK(c)'
      BY <1>1, <1>2, <1>4, <2>1 DEF ChannOK, TypeOK, Up, Reset
    <2> QED BY <1>1, <1>2, <1>3, <1>4, <2>1, <2>2, <2>3, OneChann DEF TypeOK, Reset
  <1>5. CASE /\ ud[c] # Null
             /\ ud' = Reset(ud, c, [ud[c] EXCEPT !.ssl = TRUE])
             /\ UNCHANGED <<st, fd, tcp>>
    <2> DEFINE u == [ud[c] EXCEPT !.ssl = TRUE]
    <2>1. u \in Ud /\ u.state = ud[c].state
      BY <1>1, <1>5, UdConnect DEF TypeOK
    <2>2. ud' = [ud EXCEPT ![c] = u]
      BY <1>5 DEF Reset
    <2> HIDE DEF u
    <2>3. TypeOK'
      BY <1>1, <1>2, <1>5, <2>1, <2>2 DEF TypeOK
    <2>4. ChannOK(c)'
      BY <1>1, <1>2, <1>5, <2>1, <2>2 DEF ChannOK, TypeOK, Up
    <2> QED BY <1>1, <1>2, <1>3, <1>5, <2>2, <2>3, <2>4, OneChann DEF TypeOK
  <1> QED BY <1>4, <1>5 DEF Connect

(* mnet_chann_close() *)
LEMMA CloseOK ==
  ASSUME Inv, NEW c \in Channs, Close(c)
  PROVE  Inv'
  <1>1. TypeOK /\ ChannOK(c)
    BY DEF Inv
  <1>2. /\ fd' = fd \ {c} /\ eof' = eof \ {c} /\ backlog' = backlog \ {c} /\ pend' = pend \ {c}
        /\ st' = [st EXCEPT ![c] = "CLOSED"] /\ ud' = [ud EXCEPT ![c] = Null]
        /\ tcp' = [tcp EXCEPT ![c] = "none"] /\ in' = [in EXCEPT ![c] = "none"]
        /\ hs' = [hs EXCEPT ![c] = "new"] /\ msg' = NoMsg
        /\ UNCHANGED <<told, from>>
    BY DEF Close, Reset
  <1>3. TypeOK'
    BY <1>1, <1>2 DEF TypeOK, Inputs
  <1>4. ChannOK(c)'
    BY <1>1, <1>2 DEF ChannOK, TypeOK, Up
  <1>5. MsgOK'
    BY <1>2, QuietMsg DEF NoMsg
  <1> QED BY <1>1, <1>2, <1>3, <1>4, <1>5, OneChann DEF TypeOK

(* mnet_chann_recv() *)
LEMMA RecvOK ==
  ASSUME Inv, NEW c \in Channs, Recv(c)
  PROVE  Inv'
  <1>1. c \in fd /\ TypeOK /\ ChannOK(c) /\ from' = from
    BY DEF Inv, Recv, Usable
  <1>2. CASE in[c] # "bad" /\ ud[c] # Null
    <2>1. /\ in' = [in EXCEPT ![c] = "none"] /\ msg' = NoMsg
          /\ UNCHANGED <<fd, st, ud, hs, pend, tcp, eof, backlog, told>>
      BY <1>2 DEF Recv, Reset
    <2>2. TypeOK'
      BY <1>1, <2>1 DEF TypeOK, Inputs
    <2>3. ChannOK(c)'
      BY <1>1, <2>1 DEF ChannOK
    <2>4. MsgOK'
      BY <2>1, QuietMsg DEF NoMsg
    <2> QED BY <1>1, <2>1, <2>2, <2>3, <2>4, OneChann DEF TypeOK
  <1>3. CASE ~(in[c] # "bad" /\ ud[c] # Null)
    BY <1>1, <1>3, FailsOK DEF Recv
  <1> QED BY <1>2, <1>3

(* mnet_poll(): what was closed is destroyed; the pointers to it that are    *)
(* left are the ones from tu->ln.                                            *)
LEMMA PollOK ==
  ASSUME Inv, Poll
  PROVE  Inv'
  <1> DEFINE gone == {c \in Channs : st[c] = "CLOSED"}
  <1>1. TypeOK /\ \A c \in Channs : ChannOK(c)
    BY DEF Inv
  <1>2. /\ st' = [c \in Channs |-> IF c \in gone THEN "FREE" ELSE st[c]]
        /\ ud' = [c \in Channs |-> IF ud[c] # Null /\ ud[c].ln \in gone
                                   THEN [ud[c] EXCEPT !.ln = Freed] ELSE ud[c]]
        /\ from' = [c \in Channs |-> IF c \in gone THEN Null
                                     ELSE IF from[c] \in gone THEN Freed ELSE from[c]]
        /\ told' = [c \in Channs |-> IF c \in gone THEN "no" ELSE told[c]]
        /\ msg' = NoMsg /\ UNCHANGED <<fd, hs, pend, tcp, in, eof, backlog>>
    BY DEF Poll, peerVars
  <1>3. \A c \in Channs :
          /\ ud'[c] \in Ud \cup {Null}
          /\ ud'[c] # Null <=> ud[c] # Null
          /\ ud[c] # Null => /\ ud'[c].state = ud[c].state /\ ud'[c].ssl = ud[c].ssl
                             /\ ud'[c].ln = IF ud[c].ln \in gone THEN Freed ELSE ud[c].ln
    <2> HIDE DEF gone
    <2> SUFFICES ASSUME NEW c \in Channs
                 PROVE  /\ ud'[c] \in Ud \cup {Null}
                        /\ ud'[c] # Null <=> ud[c] # Null
                        /\ ud[c] # Null =>
                             /\ ud'[c].state = ud[c].state /\ ud'[c].ssl = ud[c].ssl
                             /\ ud'[c].ln = IF ud[c].ln \in gone THEN Freed ELSE ud[c].ln
      OBVIOUS
    <2>1. CASE ud[c] # Null /\ ud[c].ln \in gone
      <3> DEFINE u == [ud[c] EXCEPT !.ln = Freed]
      <3>1. /\ u \in Ud /\ u.state = ud[c].state /\ u.ssl = ud[c].ssl /\ u.ln = Freed
        BY <1>1, <2>1, UdFreed DEF TypeOK
      <3>2. ud'[c] = u
        BY <1>2, <2>1
      <3> HIDE DEF u
      <3> QED BY <2>1, <3>1, <3>2, TlsAssumption
    <2>2. CASE ~(ud[c] # Null /\ ud[c].ln \in gone)
      <3>1. ud'[c] = ud[c]
        BY <1>2, <2>2
      <3> QED BY <1>1, <2>2, <3>1 DEF TypeOK
    <2> QED BY <2>1, <2>2
  <1>4. TypeOK'
    <2>1. ud' \in [Channs -> Ud \cup {Null}]
      <3>1. ud' = [c \in Channs |-> ud'[c]]
        BY <1>2
      <3> QED BY <1>3, <3>1
    <2>2. st' \in [Channs -> States \cup {"FREE", "CLOSED"}]
      BY <1>1, <1>2 DEF TypeOK
    <2>3. from' \in [Channs -> Channs \cup {Null, Freed}]
      BY <1>1, <1>2 DEF TypeOK
    <2>4. told' \in [Channs -> {"no", "own", "up"}]
      BY <1>1, <1>2 DEF TypeOK
    <2> QED BY <1>1, <1>2, <2>1, <2>2, <2>3, <2>4 DEF TypeOK
  <1>5. ASSUME NEW c \in Channs
        PROVE  ChannOK(c)'
    <2>1. CASE c \in gone
      <3>1. /\ st'[c] = "FREE" /\ told'[c] = "no" /\ c \notin fd' /\ ud'[c] = Null
            /\ UNCHANGED <<hs, in, tcp>>
        BY <1>1, <1>2, <1>3, <2>1 DEF ChannOK, Up
      <3> QED BY <1>1, <2>1, <3>1 DEF ChannOK, Up
    <2>2. CASE c \notin gone
      <3>1. /\ st'[c] = st[c] /\ told'[c] = told[c]
            /\ from'[c] = IF from[c] \in gone THEN Freed ELSE from[c]
            /\ UNCHANGED <<fd, hs, in, tcp>>
        BY <1>2, <2>2
      <3>2. ud'[c] # Null /\ ud'[c].state = "LISTENING" =>
              ud'[c].ln = from'[c] /\ from'[c] # Null
        BY <1>1, <1>3, <3>1, TlsAssumption DEF ChannOK
      <3> QED BY <1>1, <1>3, <3>1, <3>2 DEF ChannOK
    <2> QED BY <2>1, <2>2
  <1>6. MsgOK'
    BY <1>2, QuietMsg DEF NoMsg
  <1> QED BY <1>4, <1>5, <1>6 DEF Inv

-----------------------------------------------------------------------------
(* The events *)

(* A listener's socket is readable; the chann is new to the application. *)
LEMMA AcceptOK ==
  ASSUME Inv, NEW l \in Channs, NEW c \in Channs, Accept(l, c)
  PROVE  Inv'
  <1>1. TypeOK /\ ChannOK(c) /\ ChannOK(l)
    BY DEF Inv
  <1>2. /\ st[c] = "FREE" /\ backlog' = backlog \ {l} /\ from' = [from EXCEPT ![c] = l]
        /\ msg' = NoMsg /\ UNCHANGED <<hs, pend, in, eof, told>>
    BY DEF Accept, Reset
  <1>3. c \notin fd /\ hs[c] = "new" /\ in[c] = "none" /\ tcp[c] = "none" /\ l # Null
    BY <1>1, <1>2, TlsAssumption DEF ChannOK, Up
  <1>4. MsgOK'
    BY <1>2, QuietMsg DEF NoMsg
  <1>5. CASE /\ st' = Reset(st, c, "CONNECTED") /\ fd' = fd \cup {c}
             /\ ud' = Reset(ud, c, [state |-> "LISTENING", ssl |-> TRUE, ln |-> l])
             /\ tcp' = Reset(tcp, c, "up")
    <2> DEFINE u == [state |-> "LISTENING", ssl |-> TRUE, ln |-> l]
    <2>1. u \in Ud /\ u.state = "LISTENING" /\ u.ln = l
      BY DEF Ud, States
    <2>2. u.ssl
      OBVIOUS
    <2>3. /\ st' = [st EXCEPT ![c] = "CONNECTED"] /\ ud' = [ud EXCEPT ![c] = u]
          /\ tcp' = [tcp EXCEPT ![c] = "up"] /\ fd' = fd \cup {c}
      BY <1>5 DEF Reset
    <2> HIDE DEF u
    <2>4. TypeOK'
      BY <1>1, <1>2, <1>3, <2>1, <2>3 DEF TypeOK, States
    <2>5. ud'[c] = u
      BY <1>1, <2>3 DEF TypeOK
    <2>6. ud'[c] # Null /\ ud'[c].state = "LISTENING" /\ ud'[c].ln = l
      BY <2>1, <2>5, TlsAssumption
    <2>7. ud'[c].ssl
      BY ONLY <2>2, <2>5, Zenon
    <2>8. ChannOK(c)'
      BY <1>1, <1>2, <1>3, <2>3, <2>6, <2>7 DEF ChannOK, TypeOK, Up
    <2> QED BY <1>1, <1>2, <1>4, <2>3, <2>4, <2>8, OneChann DEF TypeOK
  <1>6. CASE /\ st' = Reset(st, c, "DISCONNECT") /\ UNCHANGED <<fd, tcp>>
             /\ ud' = Reset(ud, c, [state |-> "DISCONNECT", ssl |-> TRUE, ln |-> l])
    <2> DEFINE u == [state |-> "DISCONNECT", ssl |-> TRUE, ln |-> l]
    <2>1. u \in Ud /\ u.state = "DISCONNECT"
      BY DEF Ud, States
    <2>2. /\ st' = [st EXCEPT ![c] = "DISCONNECT"] /\ ud' = [ud EXCEPT ![c] = u]
          /\ UNCHANGED <<fd, tcp>>
      BY <1>6 DEF Reset
    <2> HIDE DEF u
    <2>3. TypeOK'
      BY <1>1, <1>2, <1>3, <2>1, <2>2 DEF TypeOK, States
    <2>4. ChannOK(c)'
      BY <1>1, <1>2, <1>3, <2>1, <2>2 DEF ChannOK, TypeOK, Up
    <2> QED BY <1>1, <1>2, <1>4, <2>2, <2>3, <2>4, OneChann DEF TypeOK
  <1> QED BY <1>5, <1>6 DEF Accept

(* The three ways a handshake step ends: SSL waits, it is over, it failed. *)
LEMMA HandshakeCases ==
  ASSUME NEW c, NEW core, FilterHandshake(c, core)
  PROVE  \E fits \in BOOLEAN :
            /\ SslResult(c, fits) = "want" =>
                 /\ st' = core /\ SslStep(c, fits) /\ msg' = NoMsg
                 /\ UNCHANGED <<fd, ud, eof, tcp, backlog, told>>
            /\ SslResult(c, fits) = "ok" =>
                 /\ st' = core /\ SslStep(c, fits)
                 /\ ud' = Reset(ud, c, [ud[c] EXCEPT !.state = "CONNECTED", !.ln = Null])
                 /\ msg' = IF ud[c].state = "LISTENING" THEN Msg("ACCEPT", ud[c].ln, c)
                           ELSE Msg("CONNECTED", c, Null)
                 /\ told' = Reset(told, c, "up")
                 /\ UNCHANGED <<fd, eof, tcp, backlog>>
            /\ SslResult(c, fits) \notin {"want", "ok"} =>
                 /\ DisconnectSocket(c)
                 /\ msg' = NoMsg \/ msg' = Msg("DISCONNECT", c, Null)
                 /\ told' = told \/ told' = Reset(told, c, "own")
  <1> USE DEF FilterHandshake
  <1> HIDE DEF SslResult, SslStep, DisconnectSocket, Reset, Msg, NoMsg
  <1> QED OBVIOUS

(* The filter on the CONNECTED of a socket that was connecting, and on the   *)
(* RECV of a connected one.                                                  *)
LEMMA FilterOK ==
  ASSUME Inv, NEW c \in fd, NEW event \in {"CONNECTED", "RECV"},
         st[c] \in {"CONNECTING", "CONNECTED"}, event = "RECV" => st[c] = "CONNECTED",
         Filter(c, event, [st EXCEPT ![c] = "CONNECTED"]), from' = from
  PROVE  Inv'
  <1> DEFINE core == [st EXCEPT ![c] = "CONNECTED"]
  <1>1. c \in Channs /\ TypeOK /\ ChannOK(c) /\ MsgOK
    BY DEF Inv, TypeOK
  <1>2. core \in [Channs -> States \cup {"FREE", "CLOSED"}]
    BY <1>1 DEF TypeOK, States
  <1>3. CASE ud[c] = Null \/ ud[c].state = "CONNECTED"
    <2>1. /\ st' = core /\ msg' = Msg(event, c, Null) /\ told' = [told EXCEPT ![c] = "up"]
          /\ UNCHANGED <<fd, ud, hs, pend, tcp, in, eof, backlog>>
      BY <1>3 DEF Filter, FilterPass, Reset, peerVars
    <2>2. TypeOK'
      BY <1>1, <1>2, <2>1 DEF TypeOK
    <2>3. ChannOK(c)'
      BY <1>1, <1>3, <2>1 DEF ChannOK, TypeOK, Up
    <2>4. MsgOK'
      BY <1>1, <1>3, <2>1 DEF MsgOK, AcceptNamesListener, Msg, ChannOK, TypeOK
    <2> QED BY <1>1, <2>1, <2>2, <2>3, <2>4, OneChann DEF TypeOK
  <1>4. CASE ud[c] # Null /\ ud[c].state # "CONNECTED"
    <2>1. FilterHandshake(c, core)
      BY <1>4 DEF Filter
    <2>2. ud[c] \in Ud /\ ud[c].state \in {"LISTENING", "CONNECTING"} /\ ud[c].ssl
      <3>1. ud[c] \in Ud
        BY <1>1, <1>4 DEF TypeOK
      <3>2. ud[c].state \in {"LISTENING", "CONNECTING"}
        BY <1>1, <1>4, <3>1 DEF ChannOK, Ud, States
      <3> QED BY <1>1, <1>4, <3>1, <3>2 DEF ChannOK, Up
    <2>0. PICK fits \in BOOLEAN :
            /\ SslResult(c, fits) = "want" =>
                 /\ st' = core /\ SslStep(c, fits) /\ msg' = NoMsg
                 /\ UNCHANGED <<fd, ud, eof, tcp, backlog, told>>
            /\ SslResult(c, fits) = "ok" =>
                 /\ st' = core /\ SslStep(c, fits)
                 /\ ud' = Reset(ud, c, [ud[c] EXCEPT !.state = "CONNECTED", !.ln = Null])
                 /\ msg' = IF ud[c].state = "LISTENING" THEN Msg("ACCEPT", ud[c].ln, c)
                           ELSE Msg("CONNECTED", c, Null)
                 /\ told' = Reset(told, c, "up")
                 /\ UNCHANGED <<fd, eof, tcp, backlog>>
            /\ SslResult(c, fits) \notin {"want", "ok"} =>
                 /\ DisconnectSocket(c)
                 /\ msg' = NoMsg \/ msg' = Msg("DISCONNECT", c, Null)
                 /\ told' = told \/ told' = Reset(told, c, "own")
      BY <2>1, HandshakeCases
    <2>3. CASE SslResult(c, fits) = "want"
      <3>1. /\ st' = core /\ in' = [in EXCEPT ![c] = "none"] /\ msg' = NoMsg
            /\ UNCHANGED <<fd, ud, eof, tcp, backlog, told>>
        BY <2>0, <2>3 DEF SslStep, Reset
      <3>2. hs' = [hs EXCEPT ![c] = SslRead(c)] /\ pend' \in {pend \ {c}, pend \cup {c}}
        BY <2>0, <2>3 DEF SslStep, Reset
      <3>5. SslRead(c) \in {hs[c], "run", "last"}
        BY DEF SslRead
      <3>3. hs' \in [Channs -> {"new", "run", "last", "done", "failed"}] /\ hs'[c] = SslRead(c)
        BY <1>1, <3>2, <3>5 DEF TypeOK
      <3>4. TypeOK'
        BY <1>1, <1>2, <3>1, <3>2, <3>3 DEF TypeOK, Inputs
      <3>6. ChannOK(c)'
        BY <1>1, <1>4, <2>2, <3>1, <3>3, <3>5 DEF ChannOK, TypeOK, Up
      <3>7. MsgOK'
        BY <3>1, QuietMsg DEF NoMsg
      <3> QED BY <1>1, <3>1, <3>2, <3>4, <3>6, <3>7, OneChann DEF TypeOK
    <2>4. CASE SslResult(c, fits) = "ok"
      <3> DEFINE u == [ud[c] EXCEPT !.state = "CONNECTED", !.ln = Null]
      <3>1. /\ st' = core /\ in' = [in EXCEPT ![c] = "none"] /\ hs' = [hs EXCEPT ![c] = "done"]
            /\ ud' = [ud EXCEPT ![c] = u] /\ told' = [told EXCEPT ![c] = "up"]
            /\ msg' = IF ud[c].state = "LISTENING" THEN Msg("ACCEPT", ud[c].ln, c)
                      ELSE Msg("CONNECTED", c, Null)
            /\ pend' \in {pend \ {c}, pend \cup {c}}
            /\ UNCHANGED <<fd, eof, tcp, backlog>>
        BY <2>0, <2>4 DEF SslStep, Reset
      <3>2. u \in Ud /\ u.state = "CONNECTED" /\ u.ssl = ud[c].ssl
        BY ONLY <2>2, UdDone
      <3> HIDE DEF u
      <3>3. TypeOK'
        BY <1>1, <1>2, <3>1, <3>2 DEF TypeOK, Inputs
      <3>4. ChannOK(c)'
        BY <1>1, <2>2, <3>1, <3>2 DEF ChannOK, TypeOK, Up
      <3>5. MsgOK'
        <4>1. CASE ud[c].state = "LISTENING"
          BY <1>1, <1>4, <3>1, <4>1 DEF MsgOK, AcceptNamesListener, Msg, ChannOK
        <4>2. CASE ud[c].state # "LISTENING"
          BY <3>1, <4>2, QuietMsg DEF Msg
        <4> QED BY <4>1, <4>2
      <3> QED BY <1>1, <3>1, <3>3, <3>4, <3>5, OneChann DEF TypeOK
    <2>5. CASE SslResult(c, fits) \notin {"want", "ok"}
      <3>1. /\ DisconnectSocket(c)
            /\ msg' = NoMsg \/ msg' = Msg("DISCONNECT", c, Null)
            /\ told' = told \/ told' = Reset(told, c, "own")
        BY <2>0, <2>5
      <3>2. MsgOK'
        BY <3>1, QuietMsg DEF NoMsg, Msg
      <3> QED BY <3>1, <3>2, DropOK
    <2> QED BY <2>3, <2>4, <2>5
  <1> QED BY <1>3, <1>4

(* The events of a chann that has a socket. *)
LEMMA EventOK ==
  ASSUME Inv, NEW c \in Channs, Event(c)
  PROVE  Inv'
  <1>1. CASE EventHup(c)
    BY <1>1, FailsOK DEF EventHup
  <1>2. CASE EventOut(c)
    BY <1>2, FilterOK DEF EventOut, Reset
  <1>3. CASE EventIn(c)
    <2>1. c \in fd /\ st[c] = "CONNECTED" /\ Filter(c, "RECV", st) /\ from' = from
      BY <1>3 DEF EventIn
    <2>2. st = [st EXCEPT ![c] = "CONNECTED"]
      BY <2>1 DEF Inv, TypeOK
    <2>3. Filter(c, "RECV", [st EXCEPT ![c] = "CONNECTED"])
      BY <2>1, <2>2
    <2> QED BY <2>1, <2>3, FilterOK
  <1> QED BY <1>1, <1>2, <1>3 DEF Event

(* The peers change what the network holds and nothing else. *)
LEMMA PeerOK ==
  ASSUME Inv, NEW c \in Channs, Peer(c)
  PROVE  Inv'
  <1>1. TypeOK /\ ChannOK(c) /\ MsgOK
    BY DEF Inv
  <1>2. UNCHANGED <<st, fd, ud, hs, pend, msg, told, from>>
    BY DEF Peer, PeerConnects, TcpEnds, PeerHangsUp, PeerSends, coreVars
  <1>3. MsgOK'
    BY <1>1, <1>2 DEF MsgOK, AcceptNamesListener
  <1>4. CASE PeerConnects(c)
    <2>1. c \in fd /\ backlog' = backlog \cup {c} /\ UNCHANGED <<tcp, in, eof>>
      BY <1>1, <1>4 DEF PeerConnects, ChannOK, Up
    <2>2. TypeOK'
      BY <1>1, <1>2, <2>1 DEF TypeOK
    <2>3. ChannOK(c)'
      BY <1>1, <1>2, <2>1 DEF ChannOK
    <2> QED BY <1>2, <1>3, <2>1, <2>2, <2>3, OneChann
  <1>5. CASE TcpEnds(c)
    <2>1. PICK r \in {"up", "refused"} : tcp' = [tcp EXCEPT ![c] = r]
      BY <1>5 DEF TcpEnds, Reset
    <2>2. c \in fd /\ UNCHANGED <<in, eof, backlog>>
      BY <1>1, <1>5 DEF TcpEnds, ChannOK
    <2>3. TypeOK'
      BY <1>1, <1>2, <2>1, <2>2 DEF TypeOK
    <2>4. ChannOK(c)'
      BY <1>1, <1>2, <2>1, <2>2 DEF ChannOK
    <2> QED BY <1>1, <1>2, <1>3, <2>1, <2>2, <2>3, <2>4, OneChann DEF TypeOK
  <1>6. CASE PeerHangsUp(c)
    <2>1. c \in fd /\ eof' = eof \cup {c} /\ UNCHANGED <<tcp, in, backlog>>
      BY <1>1, <1>6 DEF PeerHangsUp, ChannOK
    <2>2. TypeOK'
      BY <1>1, <1>2, <2>1 DEF TypeOK
    <2>3. ChannOK(c)'
      BY <1>1, <1>2, <2>1 DEF ChannOK
    <2> QED BY <1>2, <1>3, <2>1, <2>2, <2>3, OneChann
  <1>7. ASSUME NEW x \in Inputs, PeerSends(c, x)
        PROVE  Inv'
    <2>1. c \in fd /\ in' = [in EXCEPT ![c] = x] /\ UNCHANGED <<tcp, eof, backlog>>
      BY <1>1, <1>7 DEF PeerSends, ChannOK, Reset
    <2>2. TypeOK'
      BY <1>1, <1>2, <2>1 DEF TypeOK
    <2>3. ChannOK(c)'
      BY <1>1, <1>2, <2>1 DEF ChannOK
    <2> QED BY <1>1, <1>2, <1>3, <2>1, <2>2, <2>3, OneChann DEF TypeOK
  <1> QED BY <1>4, <1>5, <1>6, <1>7 DEF Peer

-----------------------------------------------------------------------------
(* The invariant *)

(* Before mnet_init() there is no chann. *)
LEMMA InitOK ==
  Init => Inv
  <1> SUFFICES ASSUME Init PROVE Inv
    OBVIOUS
  <1>1. TypeOK
    BY DEF Init, TypeOK, Inputs
  <1>2. ASSUME NEW c \in Channs
        PROVE  ChannOK(c)
    BY DEF Init, ChannOK, Up
  <1>3. MsgOK
    BY DEF Init, MsgOK, AcceptNamesListener, NoMsg, Msg
  <1> QED BY <1>1, <1>2, <1>3 DEF Inv

(* Registering the extension, and a step that changes nothing. *)
LEMMA QuietOK ==
  ASSUME Inv, UNCHANGED <<st, fd, ud, hs, pend, tcp, in, eof, backlog, msg, told, from>>
  PROVE  Inv'
  <1>1. TypeOK'
    BY DEF Inv, TypeOK
  <1>2. \A c \in Channs : ChannOK(c)'
    BY Untouched DEF Inv
  <1>3. MsgOK'
    BY DEF Inv, MsgOK, AcceptNamesListener
  <1> QED BY <1>1, <1>2, <1>3 DEF Inv

(* Every step keeps the invariant. *)
LEMMA NextOK ==
  Inv /\ [Next]_vars => Inv'
  <1> SUFFICES ASSUME Inv, [Next]_vars PROVE Inv'
    OBVIOUS
  <1>1. CASE Register \/ UNCHANGED vars
    BY <1>1, QuietOK DEF Register, vars, coreVars, peerVars
  <1>2. CASE Poll
    BY <1>2, PollOK
  <1>3. ASSUME NEW c \in Channs, Open(c) \/ Listen(c) \/ Connect(c) \/ Close(c) \/ Recv(c)
        PROVE  Inv'
    BY <1>3, OpenOK, ListenOK, ConnectOK, CloseOK, RecvOK
  <1>4. ASSUME NEW c \in Channs, Disconnect(c)
        PROVE  Inv'
    <2>1. MsgOK'
      BY <1>4, QuietMsg DEF Disconnect, NoMsg
    <2> QED BY <1>4, <2>1, DropOK DEF Disconnect
  <1>5. ASSUME NEW c \in Channs, Send(c)
        PROVE  Inv'
    BY <1>5, FailsOK DEF Send, Usable
  <1>6. ASSUME NEW c \in Channs, Event(c) \/ Peer(c)
        PROVE  Inv'
    BY <1>6, EventOK, PeerOK
  <1>7. ASSUME NEW c \in Channs, NEW l \in Channs, Accept(l, c)
        PROVE  Inv'
    BY <1>7, AcceptOK
  <1> QED BY <1>1, <1>2, <1>3, <1>4, <1>5, <1>6, <1>7 DEF Next

(* The relations between the channs' sockets, TLS state and SSL objects hold *)
(* in every reachable state.                                                 *)
LEMMA Invariance ==
  Spec => []Inv
  BY InitOK, NextOK, PTL DEF Spec

-----------------------------------------------------------------------------
(* The properties *)

(* What mnet_chann_state() reports of a TLS chann is true of the socket and  *)
(* of the SSL object below it, whatever the application, the peers and the   *)
(* order of events do.                                                       *)
THEOREM StateIsTrue ==
  Spec => []StateAgrees
  <1>1. Inv => StateAgrees
    BY DEF Inv, ChannOK, StateAgrees, Up
  <1> QED BY <1>1, Invariance, PTL

(* A connection whose handshake failed, or that was accepted and never       *)
(* announced, does not keep its socket (_tls_filter_fn()).                   *)
THEOREM NothingStranded ==
  Spec => []NoStrandedSocket
  <1>1. Inv => NoStrandedSocket
    BY DEF Inv, TypeOK, ChannOK, NoStrandedSocket
  <1> QED BY <1>1, Invariance, PTL

(* The listener that the filter keeps in tu->ln while it holds ACCEPT back   *)
(* is the one that accepted, up to its being freed.                          *)
THEOREM AcceptIsNamed ==
  Spec => []AcceptNamesListener
  <1>1. Inv => AcceptNamesListener
    BY DEF Inv, MsgOK
  <1> QED BY <1>1, Invariance, PTL

(* No step reports RECV of a chann that was not announced or whose           *)
(* handshake is not over: _tls_filter_fn() holds back all that comes before. *)
THEOREM DataIsAnnounced ==
  Spec => DataAfterHandshake
  <1>1. ASSUME Inv, [Next]_vars, NEW c \in Channs, msg' = Msg("RECV", c, Null)
        PROVE  told[c] = "up" /\ (ud[c] # Null => hs[c] = "done")
    <2>1. CASE msg' = msg
      BY <1>1, <2>1 DEF Inv, MsgOK
    <2>2. CASE msg' # msg
      <3>1. msg' # NoMsg /\ \A d : msg' # Msg("DISCONNECT", d, Null)
        BY <1>1 DEF Msg, NoMsg
      <3>2. PICK d \in Channs : EventOut(d) \/ EventIn(d)
        <4>1. ~(Register \/ UNCHANGED vars \/ Poll)
          BY <2>2, <3>1 DEF Register, vars, Poll
        <4>2. ASSUME NEW d \in Channs
              PROVE  /\ ~Open(d) /\ ~Listen(d) /\ ~Connect(d) /\ ~Disconnect(d) /\ ~Close(d)
                     /\ ~Recv(d) /\ ~Send(d) /\ ~EventHup(d) /\ ~Peer(d)
                     /\ \A l \in Channs : ~Accept(l, d)
          <5>1. ~Open(d) /\ ~Listen(d) /\ ~Connect(d) /\ ~Disconnect(d) /\ ~Close(d)
            BY <3>1 DEF Open, Listen, Connect, Disconnect, Close
          <5>2. ~Recv(d) /\ ~Send(d) /\ ~EventHup(d)
            BY <3>1 DEF Recv, Send, EventHup, Fails
          <5>3. ~Peer(d)
            BY <2>2 DEF Peer, PeerConnects, TcpEnds, PeerHangsUp, PeerSends
          <5>4. \A l \in Channs : ~Accept(l, d)
            BY <3>1 DEF Accept
          <5> QED BY <5>1, <5>2, <5>3, <5>4
        <4> QED BY <1>1, <4>1, <4>2 DEF Next, Event
      <3>3. d \in fd /\ TypeOK /\ ChannOK(d)
        BY <1>1, <3>2 DEF EventOut, EventIn, Inv
      <3>4. ASSUME NEW core, FilterHandshake(d, core)
            PROVE  FALSE
        <4>1. \/ msg' = NoMsg
              \/ msg' = Msg("ACCEPT", ud[d].ln, d)
              \/ msg' = Msg("CONNECTED", d, Null)
              \/ msg' = Msg("DISCONNECT", d, Null)
          BY <3>4, HandshakeCases
        <4> QED BY <1>1, <4>1 DEF Msg, NoMsg
      <3>5. ~EventOut(d)
        BY <1>1, <3>4 DEF EventOut, Filter, FilterPass, Msg
      <3>6. /\ st[d] = "CONNECTED" /\ (ud[d] = Null \/ ud[d].state = "CONNECTED")
            /\ msg' = Msg("RECV", d, Null)
        BY <3>2, <3>4, <3>5 DEF EventIn, Filter, FilterPass
      <3>7. c = d
        BY <1>1, <3>6 DEF Msg
      <3> QED BY <3>3, <3>6, <3>7 DEF ChannOK
    <2> QED BY <2>1, <2>2
  <1>2. Inv /\ [Next]_vars =>
          [\A c \in Channs : msg' = Msg("RECV", c, Null) => told[c] = "up" /\ (ud[c] # Null => hs[c] = "done")]_vars
    BY <1>1
  <1> QED BY <1>2, Invariance, PTL DEF Spec, DataAfterHandshake
=============================================================================
