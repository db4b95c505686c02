-------------------------- MODULE SSHTunnelProofs --------------------------
(***************************************************************************)
(* The safety theorems of SSHTunnel, for any set of connections.           *)
(***************************************************************************)
EXTENDS SSHTunnel, TLAPS

\* What may be set, and what may be open, at each place of the owner.
Settable(place) ==
  CASE place \in {"dialThrough", "handshake", "closeJump", "clearJump"} -> {"jump"}
    [] place \in {"listen", "closeClient", "clearClient"} -> {"client", "jump"}
    [] place \in {"up", "clearListener"} -> {"listener", "client", "jump"}
    [] OTHER -> {}
Openable(place) ==
  CASE place \in {"dialThrough", "clearClient", "closeJump"} -> {"jump"}
    [] place = "handshake" -> {"jump", "raw"}
    [] place \in {"listen", "clearListener", "closeClient"} -> {"client", "jump"}
    [] place = "up" -> {"listener", "client", "jump"}
    [] OTHER -> {}

\* Without a jump host nothing is ever called "jump", at any place.
OwnerInv ==
  /\ hasJump \in BOOLEAN
  /\ owner \in Owner
  /\ fields \subseteq Settable(owner)
  /\ open \subseteq Openable(owner)
  /\ ~hasJump => /\ "jump" \notin fields /\ "jump" \notin open
                 /\ owner \notin {"dialJump", "dialThrough", "handshake"}

LEMMA OwnerSettled == OwnerInv => NothingLeftOpen
BY DEF OwnerInv, NothingLeftOpen, Settable, Openable

LEMMA OwnerInit == Init => OwnerInv
BY DEF Init, OwnerInv, Settable, Openable, Owner, Connecting, Disconnecting

LEMMA OwnerStep == OwnerInv /\ [Next]_vars => OwnerInv'
<1> SUFFICES ASSUME OwnerInv, [Next]_vars PROVE OwnerInv'
  OBVIOUS
<1> USE DEF OwnerInv, Settable, Openable, Owner, Connecting, Disconnecting,
           Fails, Continues, Dialled, CloseClients
<1>1. CASE UNCHANGED <<hasJump, owner, fields, open>>
  BY <1>1
<1>2. CASE Connect
  <2>1. CASE Auth
    BY <2>1 DEF Auth
  <2>2. CASE Dial
    BY <2>2 DEF Dial
  <2>3. CASE DialJump
    BY <2>3 DEF DialJump
  <2>4. CASE DialThrough
    BY <2>4 DEF DialThrough
  <2>5. CASE Handshake
    BY <2>5 DEF Handshake
  <2>6. CASE Listen
    BY <2>6 DEF Listen
  <2> QED
    BY <1>2, <2>1, <2>2, <2>3, <2>4, <2>5, <2>6 DEF Connect
<1>3. CASE Disconnect
  <2>1. CASE CloseListener
    BY <2>1 DEF CloseListener
  <2>2. CASE ClearListener
    BY <2>2 DEF ClearListener, Clear
  <2>3. CASE CloseClient
    BY <2>3 DEF CloseClient, Close
  <2>4. CASE ClearClient
    BY <2>4 DEF ClearClient, Clear
  <2>5. CASE CloseJump
    BY <2>5 DEF CloseJump, Close
  <2>6. CASE ClearJump
    BY <2>6 DEF ClearJump, Clear
  <2> QED
    BY <1>3, <2>1, <2>2, <2>3, <2>4, <2>5, <2>6 DEF Disconnect
<1>4. CASE \E s \in Sockets : Breaks(s)
  BY <1>4 DEF Breaks, Sockets
<1>5. Connect \/ Disconnect \/ (\E s \in Sockets : Breaks(s))
      \/ UNCHANGED <<hasJump, owner, fields, open>>
  <2>1. Forward => UNCHANGED <<hasJump, owner, fields, open>>
    BY DEF Forward, ReadListener, Crashes, AcceptFails, Accept
  <2>2. \A c \in Conns : HandleConn(c) => UNCHANGED <<hasJump, owner, fields, open>>
    BY DEF HandleConn, ReadClient, Crashes, DialRemote, Return
  <2>3. \A c \in Conns, d \in Directions : Copy(c, d) => UNCHANGED <<hasJump, owner, fields, open>>
    BY DEF Copy, ReadsEnd, WriteFails, StopsCopying, SendDone
  <2>4. (\E c \in Conns : ApiConnects(c) \/ ApiHangsUp(c) \/ ServerHangsUp(c))
        => UNCHANGED <<hasJump, owner, fields, open>>
    BY DEF ApiConnects, ApiHangsUp, ServerHangsUp
  <2> QED
    BY <2>1, <2>2, <2>3, <2>4 DEF Next, Outside, Over, vars
<1> QED
  BY <1>1, <1>2, <1>3, <1>4, <1>5

\* After a failed Connect, whatever step failed and whatever broke before it,
\* and after Disconnect, nothing is open and no field is set (tunnel.go:13).
THEOREM NothingIsLeftOpen == Spec => []NothingLeftOpen
<1> QED
  BY OwnerInit, OwnerStep, OwnerSettled, PTL DEF Spec

-----------------------------------------------------------------------------
(* The connections *)

ConnInv ==
  /\ handler \in [Conns -> {"none", "start", "dial", "wait", "gone"}]
  /\ copier \in [Conns -> [Directions -> {"none", "copy", "send", "gone"}]]
  /\ local \in [Conns -> {"none", "queued", "open", "hungup", "closed"}]
  /\ remote \in [Conns -> {"none", "open", "ended", "closed"}]
  /\ done \in [Conns -> 0..2]

\* How far each connection has come: its handler, its ends and its channel.
\* What a copier has still to say fits into the channel.
ConnState(c) ==
  /\ handler[c] = "none" => local[c] \in {"none", "queued", "closed"} /\ remote[c] = "none"
  /\ handler[c] \in {"start", "dial"} => local[c] \in {"open", "hungup"} /\ remote[c] = "none"
  /\ handler[c] = "wait" => local[c] \in {"open", "hungup"} /\ remote[c] \in {"open", "ended"}
  /\ handler[c] = "gone" => local[c] = "closed" /\ remote[c] \in {"none", "closed"}
  /\ handler[c] \in {"none", "start", "dial"} =>
       done[c] = 0 /\ \A d \in Directions : copier[c][d] = "none"
  /\ (\E d \in Directions : copier[c][d] # "gone") => done[c] <= 1
  /\ (\A d \in Directions : copier[c][d] # "gone") => done[c] = 0

ConnStates == \A c \in Conns : ConnState(c)

LEMMA ConnInit == Init => ConnInv /\ ConnStates
BY DEF Init, ConnInv, ConnStates, ConnState, Directions

LEMMA ConnStep == ConnInv /\ ConnStates /\ [Next]_vars => ConnInv' /\ ConnStates'
<1> SUFFICES ASSUME ConnInv, ConnStates, [Next]_vars PROVE ConnInv' /\ ConnStates'
  OBVIOUS
<1> USE DEF ConnInv, ConnStates, ConnState, Directions
<1>1. CASE UNCHANGED connVars
  BY <1>1 DEF connVars
<1>2. CASE CloseListener
  BY <1>2 DEF CloseListener
<1>3. ASSUME NEW c \in Conns, Accept(c) PROVE ConnInv' /\ ConnStates'
  <2>1. /\ local[c] = "queued" /\ local' = [local EXCEPT ![c] = "open"]
        /\ handler' = [handler EXCEPT ![c] = "start"]
        /\ UNCHANGED <<copier, remote, done>>
    BY <1>3 DEF Accept
  <2>2. ConnInv'
    BY <2>1
  <2>3. handler[c] = "none"
    BY <2>1
  <2>4. ConnState(c)'
    BY <2>1, <2>3
  <2>5. \A e \in Conns \ {c} : ConnState(e)'
    BY <2>1
  <2> QED
    BY <2>2, <2>4, <2>5
<1>4. ASSUME NEW c \in Conns, ReadClient(c) PROVE ConnInv' /\ ConnStates'
  <2>1. /\ UNCHANGED <<copier, local, remote, done>>
        /\ \/ UNCHANGED handler
           \/ handler[c] = "start" /\ handler' = [handler EXCEPT ![c] = "dial"]
    BY <1>4 DEF ReadClient, Crashes, connVars
  <2>2. ConnInv'
    BY <2>1
  <2>3. ConnState(c)'
    BY <2>1
  <2>4. \A e \in Conns \ {c} : ConnState(e)'
    BY <2>1
  <2> QED
    BY <2>2, <2>3, <2>4
<1>5. ASSUME NEW c \in Conns, DialRemote(c) PROVE ConnInv' /\ ConnStates'
  <2>1. CASE UNCHANGED <<copier, remote>>
    <3>1. /\ handler[c] = "dial"
          /\ handler' = [handler EXCEPT ![c] = "gone"]
          /\ local' = [local EXCEPT ![c] = "closed"]
          /\ UNCHANGED <<copier, remote, done>>
      <4>1. remote[c] = "none" /\ remote' = remote
        BY <1>5, <2>1 DEF DialRemote
      <4> QED
        BY <1>5, <2>1, <4>1 DEF DialRemote
    <3>2. ConnInv'
      BY <3>1
    <3>3. ConnState(c)'
      BY <3>1
    <3>4. \A e \in Conns \ {c} : ConnState(e)'
      BY <3>1
    <3> QED
      BY <3>2, <3>3, <3>4
  <2>2. CASE UNCHANGED local
    <3> DEFINE started == [d \in Directions |-> "copy"]
    <3>1. /\ handler[c] = "dial"
          /\ handler' = [handler EXCEPT ![c] = "wait"]
          /\ copier' = [copier EXCEPT ![c] = started]
          /\ remote' = [remote EXCEPT ![c] = "open"]
          /\ UNCHANGED <<local, done>>
      BY <1>5, <2>2 DEF DialRemote
    <3>2. started \in [Directions -> {"none", "copy", "send", "gone"}]
      OBVIOUS
    <3>3. \A d \in Directions : started[d] = "copy"
      OBVIOUS
    <3> HIDE DEF started
    <3>4. ConnInv'
      BY <3>1, <3>2
    <3>5. ConnState(c)'
      BY <3>1, <3>3
    <3>6. \A e \in Conns \ {c} : ConnState(e)'
      BY <3>1
    <3> QED
      BY <3>4, <3>5, <3>6
  <2> QED
    BY <1>5, <2>1, <2>2 DEF DialRemote
<1>6. ASSUME NEW c \in Conns, Return(c) PROVE ConnInv' /\ ConnStates'
  BY <1>6 DEF Return
<1>7. ASSUME NEW c \in Conns, NEW d \in Directions, StopsCopying(c, d) PROVE ConnInv' /\ ConnStates'
  <2>1. /\ copier[c][d] = "copy" /\ copier' = [copier EXCEPT ![c][d] = "send"]
        /\ UNCHANGED <<handler, local, remote, done>>
    BY <1>7 DEF StopsCopying
  <2>2. ConnInv'
    BY <2>1
  <2>3. ConnState(c)'
    BY <2>1
  <2>4. \A e \in Conns \ {c} : ConnState(e)'
    BY <2>1
  <2> QED
    BY <2>2, <2>3, <2>4
<1>8. ASSUME NEW c \in Conns, NEW d \in Directions, SendDone(c, d) PROVE ConnInv' /\ ConnStates'
  <2>1. /\ copier[c][d] = "send" /\ copier' = [copier EXCEPT ![c][d] = "gone"]
        /\ done' = [done EXCEPT ![c] = @ + 1]
        /\ UNCHANGED <<handler, local, remote>>
    BY <1>8 DEF SendDone
  <2>2. ConnInv'
    BY <2>1
  <2>3. ConnState(c)'
    BY <2>1
  <2>4. \A e \in Conns \ {c} : ConnState(e)'
    BY <2>1
  <2> QED
    BY <2>2, <2>3, <2>4
<1>9. ASSUME NEW c \in Conns, ApiConnects(c) \/ ApiHangsUp(c) \/ ServerHangsUp(c)
      PROVE ConnInv' /\ ConnStates'
  <2>1. CASE ApiConnects(c) \/ ApiHangsUp(c)
    <3>1. /\ \/ local[c] = "none" /\ local' = [local EXCEPT ![c] = "queued"]
             \/ local[c] = "open" /\ local' = [local EXCEPT ![c] = "hungup"]
          /\ UNCHANGED <<handler, copier, remote, done>>
      BY <2>1 DEF ApiConnects, ApiHangsUp
    <3>2. ConnInv'
      BY <3>1
    <3>3. ConnState(c)'
      BY <3>1
    <3>4. \A e \in Conns \ {c} : ConnState(e)'
      BY <3>1
    <3> QED
      BY <3>2, <3>3, <3>4
  <2>2. CASE ServerHangsUp(c)
    BY <2>2 DEF ServerHangsUp
  <2> QED
    BY <1>9, <2>1, <2>2
<1>10. Connect \/ (\E s \in Sockets : Breaks(s)) \/ Over => UNCHANGED connVars
  <2>1. Connect => UNCHANGED connVars
    BY DEF Connect, Auth, Dial, DialJump, DialThrough, Handshake, Listen
  <2>2. (\E s \in Sockets : Breaks(s)) => UNCHANGED connVars
    BY DEF Breaks
  <2>3. Over => UNCHANGED connVars
    BY DEF Over, vars, connVars
  <2> QED
    BY <2>1, <2>2, <2>3
<1>11. Disconnect => CloseListener \/ UNCHANGED connVars
  BY DEF Disconnect, ClearListener, CloseClient, ClearClient, CloseJump, ClearJump, Close, Clear
<1>12. Forward => UNCHANGED connVars \/ \E c \in Conns : Accept(c)
  BY DEF Forward, ReadListener, Crashes, AcceptFails
<1>13. Outside => \/ \E s \in Sockets : Breaks(s)
                  \/ \E c \in Conns : ApiConnects(c) \/ ApiHangsUp(c) \/ ServerHangsUp(c)
  BY DEF Outside
<1>14. \A c \in Conns : HandleConn(c) => ReadClient(c) \/ DialRemote(c) \/ Return(c)
  BY DEF HandleConn
<1>15. \A c \in Conns, d \in Directions : Copy(c, d) => StopsCopying(c, d) \/ SendDone(c, d)
  BY DEF Copy, ReadsEnd, WriteFails
<1>16. UNCHANGED vars => UNCHANGED connVars
  BY DEF vars
<1> HIDE DEF ConnInv, ConnStates, ConnState, Directions
<1>17. CASE Connect \/ Disconnect \/ Forward \/ Outside \/ Over \/ UNCHANGED vars
  BY <1>1, <1>2, <1>3, <1>9, <1>10, <1>11, <1>12, <1>13, <1>16, <1>17
<1>18. CASE \E c \in Conns : HandleConn(c) \/ \E d \in Directions : Copy(c, d)
  BY <1>4, <1>5, <1>6, <1>7, <1>8, <1>14, <1>15, <1>18
<1> QED
  BY <1>17, <1>18 DEF Next

\* A connection is closed at both ends once handleConn has returned from it and
\* at neither before (ssh.go:179-193), however the copiers and the hosts end.
THEOREM ConnectionsAreClosed == Spec => []BothEndsClosed
<1>1. ConnInv /\ ConnStates => BothEndsClosed
  BY DEF ConnInv, ConnStates, ConnState, BothEndsClosed
<1> QED
  BY <1>1, ConnInit, ConnStep, PTL DEF Spec

Control == forward \in {"none", "loop", "accept", "gone"} /\ crashed \in BOOLEAN

LEMMA ControlStep == Control /\ [Next]_vars => Control'
<1> SUFFICES ASSUME Control, [Next]_vars PROVE Control'
  OBVIOUS
<1>1. CASE Connect
  BY <1>1 DEF Control, Connect, Auth, Dial, DialJump, DialThrough, Handshake, Listen
<1>2. CASE Disconnect
  BY <1>2 DEF Control, Disconnect, CloseListener, ClearListener, CloseClient, ClearClient,
              CloseJump, ClearJump, Close, Clear
<1>3. CASE Forward
  BY <1>3 DEF Control, Forward, ReadListener, Crashes, Accept, AcceptFails
<1>4. ASSUME NEW c \in Conns, HandleConn(c) PROVE Control'
  BY <1>4 DEF Control, HandleConn, ReadClient, Crashes, DialRemote, Return
<1>5. ASSUME NEW c \in Conns, NEW d \in Directions, Copy(c, d) PROVE Control'
  BY <1>5 DEF Control, Copy, ReadsEnd, WriteFails, StopsCopying, SendDone
<1>6. CASE Outside
  BY <1>6 DEF Control, Outside, ApiConnects, ApiHangsUp, ServerHangsUp, Breaks
<1>7. CASE Over \/ UNCHANGED vars
  BY <1>7 DEF Control, Over, vars
<1> QED
  BY <1>1, <1>2, <1>3, <1>4, <1>5, <1>6, <1>7 DEF Next

\* Every variable keeps its type; above all the channel of a connection never
\* holds more than the two values it has room for (ssh.go:189-192).
THEOREM TypeCorrect == Spec => []TypeOK
<1> DEFINE IInv == OwnerInv /\ ConnInv /\ ConnStates /\ Control
<1>1. Init => IInv
  BY OwnerInit, ConnInit DEF Init, Control
<1>2. IInv /\ [Next]_vars => IInv'
  BY OwnerStep, ConnStep, ControlStep
<1>3. IInv => TypeOK
  <2>1. OwnerInv => fields \subseteq {"listener", "client", "jump"} /\ open \subseteq Sockets
    BY DEF OwnerInv, Settable, Openable, Sockets
  <2> QED
    BY <2>1 DEF OwnerInv, ConnInv, Control, TypeOK
<1> QED
  BY <1>1, <1>2, <1>3, PTL DEF Spec

-----------------------------------------------------------------------------
(* SSH implements Tunnel *)

\* While Connect is at work, or has failed, no other goroutine has started.
Quiet ==
  owner \in Connecting \cup {"failed"} => forward = "none" /\ \A c \in Conns : handler[c] = "none"

LEMMA QuietStep ==
  ASSUME OwnerInv, ConnInv, Quiet, [Next]_vars
  PROVE  Quiet'
<1> USE DEF Connecting
<1> DEFINE Starting == {"auth", "dial", "dialJump", "dialThrough", "handshake", "listen", "failed"}
<1>1. CASE Connect
  <2>1. owner \in Starting /\ handler' = handler
    BY <1>1 DEF Connect, Auth, Dial, DialJump, DialThrough, Handshake, Listen, connVars
  <2>2. owner' = "up" \/ forward' = forward
    BY <1>1 DEF Connect, Auth, Dial, DialJump, DialThrough, Handshake, Listen, Continues
  <2> QED
    BY <2>1, <2>2 DEF Quiet
<1>2. CASE Disconnect
  <2>1. owner' \in Disconnecting \cup {"down"}
    BY <1>2 DEF Disconnect, CloseListener, ClearListener, CloseClient, ClearClient, CloseJump,
                ClearJump, Close, Clear, Continues, Disconnecting
  <2> QED
    BY <2>1 DEF Quiet, Disconnecting
<1>3. ASSUME UNCHANGED <<owner, forward, handler>> PROVE Quiet'
  BY <1>3 DEF Quiet
<1>4. CASE Forward
  <2>1. forward # "none" /\ owner' = owner
    BY <1>4 DEF Forward, ReadListener, Crashes, AcceptFails, Accept
  <2> QED
    BY <2>1 DEF Quiet
<1>5. ASSUME NEW c \in Conns, HandleConn(c) PROVE Quiet'
  <2>1. handler[c] # "none" /\ owner' = owner
    BY <1>5 DEF HandleConn, ReadClient, Crashes, DialRemote, Return
  <2> QED
    BY <2>1 DEF Quiet
<1>6. \A c \in Conns, d \in Directions : Copy(c, d) => UNCHANGED <<owner, forward, handler>>
  BY DEF Copy, ReadsEnd, WriteFails, StopsCopying, SendDone
<1>7. Outside => UNCHANGED <<owner, forward, handler>>
  BY DEF Outside, ApiConnects, ApiHangsUp, ServerHangsUp, Breaks, connVars
<1>8. UNCHANGED vars => UNCHANGED <<owner, forward, handler>>
  BY DEF vars, connVars
<1> QED
  BY <1>1, <1>2, <1>3, <1>4, <1>5, <1>6, <1>7, <1>8 DEF Next, Over

\* Every step leaves the tunnel's state and what it carries alone, or is one of
\* Tunnel's: handleConn adds a connection only while the owner has its client open.
LEMMA CarriedStep ==
  ASSUME OwnerInv, ConnInv, ConnStates, Quiet, [Next]_vars
  PROVE  Abstract!Next \/ UNCHANGED <<State, Carried>>
<1>1. ASSUME UNCHANGED <<owner, open, remote>> PROVE UNCHANGED <<State, Carried>>
  BY <1>1 DEF State, Carried
<1>2. ASSUME UNCHANGED owner, Carried' \subseteq Carried PROVE Abstract!Next
  <2>1. State' = State
    BY <1>2 DEF State
  <2> QED
    BY <1>2, <2>1 DEF Abstract!Next, Abstract!Drop
<1>3. CASE Connect
  <2>1. /\ owner \in Connecting /\ owner' \in Connecting \cup {"up", "failed"} /\ remote' = remote
        /\ \A c \in Conns : remote[c] = "none"
    <3>1. owner \in Connecting /\ owner' \in Connecting \cup {"up", "failed"} /\ remote' = remote
      BY <1>3 DEF Connect, Auth, Dial, DialJump, DialThrough, Handshake, Listen, connVars,
                  Continues, Fails, Connecting
    <3> QED
      BY <3>1 DEF Quiet, ConnStates, ConnState
  <2>2. Carried = {} /\ Carried' = {}
    BY <2>1 DEF Carried
  <2>3. State = "new" /\ State' \in {"new", "up", "failed"}
    BY <2>1 DEF State, Connecting
  <2> QED
    BY <2>2, <2>3 DEF Abstract!Next, Abstract!Connect
<1>4. CASE Disconnect
  <2>1. CASE CloseListener
    <3>1. State = "up" /\ State' = State /\ Carried' = Carried
      BY <2>1 DEF CloseListener, Continues, State, Carried, Connecting
    <3> QED
      BY <3>1
  <2>2. CASE ClearListener
    <3>1. State = "up" /\ State' = State /\ Carried' = Carried
      BY <2>2 DEF ClearListener, Clear, Continues, connVars, State, Carried, Connecting
    <3> QED
      BY <3>1
  <2>3. CASE CloseClient
    <3>1. State = "up" /\ State' = "down" /\ Carried' = {}
      BY <2>3 DEF CloseClient, Close, Continues, State, Carried, Connecting
    <3> QED
      BY <3>1 DEF Abstract!Next, Abstract!Disconnect
  <2>4. CASE ClearClient \/ CloseJump \/ ClearJump
    <3>1. State = "down" /\ State' = "down" /\ remote' = remote /\ open' \subseteq open /\ "client" \notin open
      BY <2>4 DEF ClearClient, CloseJump, ClearJump, Clear, Close, Continues, connVars, State,
                  Connecting, OwnerInv, Openable
    <3>2. Carried = {} /\ Carried' = {}
      BY <3>1 DEF Carried
    <3> QED
      BY <3>1, <3>2
  <2> QED
    BY <1>4, <2>1, <2>2, <2>3, <2>4 DEF Disconnect
<1>5. CASE Forward
  BY <1>1, <1>5 DEF Forward, ReadListener, Crashes, AcceptFails, Accept, connVars
<1>6. ASSUME NEW c \in Conns, HandleConn(c) PROVE Abstract!Next \/ UNCHANGED <<State, Carried>>
  <2>1. CASE ReadClient(c)
    BY <1>1, <2>1 DEF ReadClient, Crashes, connVars
  <2>2. CASE DialRemote(c)
    <3>1. CASE UNCHANGED remote
      BY <1>1, <2>2, <3>1 DEF DialRemote
    <3>2. CASE ~UNCHANGED remote
      <4>1. /\ handler[c] = "dial" /\ "client" \in open /\ remote' = [remote EXCEPT ![c] = "open"]
            /\ UNCHANGED <<owner, open>>
        BY <2>2, <3>2 DEF DialRemote
      <4>2. owner \in {"up", "clearListener", "closeClient"}
        BY <4>1 DEF Quiet, Connecting, OwnerInv, Owner, Disconnecting, Openable
      <4>3. State = "up" /\ State' = State
        BY <4>1, <4>2 DEF State, Connecting
      <4>4. Carried' = Carried \cup {c}
        BY <4>1 DEF Carried, ConnInv
      <4> QED
        BY <4>3, <4>4 DEF Abstract!Next, Abstract!Carry
    <3> QED
      BY <3>1, <3>2
  <2>3. CASE Return(c)
    <3>1. UNCHANGED owner /\ Carried' \subseteq Carried
      BY <2>3 DEF Return, Carried, ConnInv
    <3> QED
      BY <1>2, <3>1
  <2> QED
    BY <1>6, <2>1, <2>2, <2>3 DEF HandleConn
<1>7. ASSUME NEW c \in Conns, NEW d \in Directions, Copy(c, d) PROVE UNCHANGED <<State, Carried>>
  BY <1>1, <1>7 DEF Copy, ReadsEnd, WriteFails, StopsCopying, SendDone
<1>8. ASSUME NEW c \in Conns, ApiConnects(c) \/ ApiHangsUp(c) \/ ServerHangsUp(c)
      PROVE  Abstract!Next
  <2>1. UNCHANGED owner /\ Carried' \subseteq Carried
    BY <1>8 DEF ApiConnects, ApiHangsUp, ServerHangsUp, Carried, ConnInv
  <2> QED
    BY <1>2, <2>1
<1>9. ASSUME NEW s \in Sockets, Breaks(s) PROVE Abstract!Next
  <2>1. UNCHANGED owner /\ Carried' \subseteq Carried
    BY <1>9 DEF Breaks, Carried, connVars
  <2> QED
    BY <1>2, <2>1
<1>10. CASE UNCHANGED vars
  BY <1>1, <1>10 DEF vars, connVars
<1> QED
  BY <1>3, <1>4, <1>5, <1>6, <1>7, <1>8, <1>9, <1>10 DEF Next, Over, Outside

\* An SSH tunnel is a tunnel (tunnel.go:13): it carries connections only between
\* a Connect that has succeeded and the moment Disconnect closes its client,
\* and none afterwards, whatever its goroutines are still about to do.
THEOREM ItIsATunnel == Spec => IsATunnel
<1> DEFINE IInv == OwnerInv /\ ConnInv /\ ConnStates /\ Quiet
<1>1. Init => IInv
  BY OwnerInit, ConnInit DEF Init, Quiet
<1>2. IInv /\ [Next]_vars => IInv'
  BY OwnerStep, ConnStep, QuietStep
<1>3. Init => Abstract!Init
  BY DEF Init, Abstract!Init, State, Carried, Connecting
<1>4. IInv /\ [Next]_vars => [Abstract!Next]_<<State, Carried>>
  BY CarriedStep
<1> QED
  BY <1>1, <1>2, <1>3, <1>4, PTL DEF Spec, IsATunnel, Abstract!Spec

-----------------------------------------------------------------------------
(* When Disconnect is safe for the goroutines it meets *)

\* Disconnect clears a field that a goroutine has yet to read: forward is
\* between two turns, or a handleConn has been started and not gone on.
ClearsUnderReader ==
  \/ ClearListener /\ forward = "loop"
  \/ ClearClient /\ \E c \in Conns : handler[c] = "start"

\* A field that a goroutine may still read is set.
Readable ==
  /\ ~crashed
  /\ owner \in {"up", "clearListener"} => "listener" \in fields
  /\ owner \in {"listen", "up", "clearListener", "closeClient", "clearClient"} =>
       "client" \in fields
  /\ owner \in {"closeClient", "clearClient", "closeJump", "clearJump", "down"} =>
       forward # "loop"
  /\ owner \in {"closeJump", "clearJump", "down"} => \A c \in Conns : handler[c] # "start"

LEMMA ReadableStep ==
  ASSUME OwnerInv, ConnInv, Quiet, Readable, [Next]_vars, [~ClearsUnderReader]_vars
  PROVE  Readable'
<1>1. ASSUME UNCHANGED <<owner, fields, crashed>>,
             forward' = "loop" => forward = "loop",
             \A c \in Conns : handler'[c] = "start" => handler[c] = "start"
      PROVE  Readable'
  BY <1>1 DEF Readable
<1>2. CASE Connect
  <2>1. UNCHANGED <<crashed, handler>>
    BY <1>2 DEF Connect, Auth, Dial, DialJump, DialThrough, Handshake, Listen, connVars
  <2>2. \/ owner' \in {"dial", "dialJump", "dialThrough", "handshake", "failed"}
        \/ owner' = "listen" /\ "client" \in fields'
        \/ owner' = "up" /\ {"client", "listener"} \subseteq fields'
    BY <1>2 DEF Connect, Auth, Dial, DialJump, DialThrough, Handshake, Listen, Continues, Fails,
                Dialled, Readable
  <2> QED
    BY <2>1, <2>2 DEF Readable
<1>3. CASE Disconnect
  <2>1. UNCHANGED <<crashed, forward, handler>>
    BY <1>3 DEF Disconnect, CloseListener, ClearListener, CloseClient, ClearClient, CloseJump,
                ClearJump, Close, Clear, connVars
  <2>2. CASE CloseListener
    BY <2>1, <2>2 DEF CloseListener, Continues, Readable
  <2>3. CASE ClearListener
    <3>1. owner = "clearListener" /\ owner' = "closeClient" /\ fields' = fields \ {"listener"}
      BY <2>3 DEF ClearListener, Clear, Continues
    <3>2. forward # "loop"
      BY <2>3, <3>1 DEF ClearsUnderReader, vars
    <3> QED
      BY <2>1, <3>1, <3>2 DEF Readable
  <2>4. CASE CloseClient
    BY <2>1, <2>4 DEF CloseClient, Close, Continues, Readable
  <2>5. CASE ClearClient
    <3>1. owner = "clearClient" /\ owner' \in {"closeJump", "down"}
      BY <2>5 DEF ClearClient, Clear, Continues
    <3>2. \A c \in Conns : handler[c] # "start"
      BY <2>5, <3>1 DEF ClearsUnderReader, vars
    <3> QED
      BY <2>1, <3>1, <3>2 DEF Readable
  <2>6. CASE CloseJump \/ ClearJump
    BY <2>1, <2>6 DEF CloseJump, ClearJump, Close, Clear, Continues, Readable
  <2> QED
    BY <1>3, <2>2, <2>3, <2>4, <2>5, <2>6 DEF Disconnect
\* forward finds the listener set: it exists after Connect only (Quiet).
<1>4. CASE ReadListener
  <2>1. "listener" \in fields
    BY <1>4 DEF ReadListener, Readable, Quiet, OwnerInv, Owner, Disconnecting
  <2> QED
    BY <1>1, <1>4, <2>1 DEF ReadListener, connVars
\* A new handler comes from a listener that is open still.
<1>5. ASSUME NEW c \in Conns, Accept(c) PROVE Readable'
  <2>1. owner = "up" /\ UNCHANGED <<owner, fields, crashed>>
    BY <1>5 DEF Accept, OwnerInv, Owner, Connecting, Disconnecting, Openable
  <2> QED
    BY <2>1 DEF Readable
<1>6. CASE AcceptFails
  BY <1>1, <1>6 DEF AcceptFails, connVars
<1>7. ASSUME NEW c \in Conns, ReadClient(c) PROVE Readable'
  <2>1. "client" \in fields
    BY <1>7 DEF ReadClient, Readable, Quiet, OwnerInv, Owner, Disconnecting
  <2> QED
    BY <1>1, <1>7, <2>1 DEF ReadClient, ConnInv
<1>8. ASSUME NEW c \in Conns, DialRemote(c) \/ Return(c) PROVE Readable'
  BY <1>1, <1>8 DEF DialRemote, Return, ConnInv
<1>9. ASSUME NEW c \in Conns, NEW d \in Directions, Copy(c, d) PROVE Readable'
  BY <1>1, <1>9 DEF Copy, ReadsEnd, WriteFails, StopsCopying, SendDone
<1>10. CASE Outside
  BY <1>1, <1>10 DEF Outside, ApiConnects, ApiHangsUp, ServerHangsUp, Breaks, connVars
<1>11. CASE UNCHANGED vars
  BY <1>1, <1>11 DEF vars, connVars
<1> QED
  BY <1>2, <1>3, <1>4, <1>5, <1>6, <1>7, <1>8, <1>9, <1>10, <1>11
  DEF Next, Over, Forward, HandleConn

\* "listener closed by Disconnect" (ssh.go:173) is what forward and handleConn
\* see, and they never use a nil field, unless Disconnect clears it in one of
\* two gaps: while forward is between two turns of its loop, or while a
\* handleConn has been started and has not yet read t.client.
THEOREM OnlyLateReadersCrash ==
  Spec /\ [][~ClearsUnderReader]_vars => []DisconnectEndsForward
<1> DEFINE IInv == OwnerInv /\ ConnInv /\ ConnStates /\ Quiet /\ Readable
<1>1. Init => IInv
  BY OwnerInit, ConnInit DEF Init, Quiet, Readable
<1>2. IInv /\ [Next]_vars /\ [~ClearsUnderReader]_vars => IInv'
  BY OwnerStep, ConnStep, QuietStep, ReadableStep
<1>3. IInv => DisconnectEndsForward
  BY DEF Readable, DisconnectEndsForward
<1> QED
  BY <1>1, <1>2, <1>3, PTL DEF Spec
=============================================================================
