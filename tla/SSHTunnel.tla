----------------------------- MODULE SSHTunnel -----------------------------
(***************************************************************************)
(* One SSH tunnel of internal/tunnel/ssh.go: the goroutine that owns it    *)
(* (executeRun, which calls Connect and later Disconnect), the goroutine   *)
(* forward that accepts local connections, and for each connection a       *)
(* handleConn and its two copiers.                                         *)
(*                                                                         *)
(* They share the fields client, jump and listener without a lock.  A      *)
(* field and the socket behind it are kept apart: `fields' are the fields  *)
(* that are not nil, `open' the sockets that are open.  Disconnect closes  *)
(* a socket in one step and clears its field in the next.                  *)
(*                                                                         *)
(* Outside: the API client opens local connections and hangs up, the       *)
(* network or the other host may end an SSH connection or a forwarded one. *)
(* What is sent is abstracted; a copier is where it is blocked.            *)
(***************************************************************************)
EXTENDS Naturals

CONSTANT Conns   \* the local connections the API client may make

VARIABLES
  hasJump,   \* cfg.JumpHost is not empty
  owner,     \* where the owner is in Connect and Disconnect
  fields,    \* the fields of SSH that are not nil
  open,      \* the sockets that are open
  forward,   \* where the goroutine forward is
  handler,   \* where handleConn of each connection is
  copier,    \* where the two copiers of each connection are
  local,     \* the local end of each connection
  remote,    \* its end at the BECS host
  done,      \* how many copiers have said that they are done
  crashed    \* a goroutine has used a field that is nil: the process is gone

connVars == <<handler, copier, local, remote, done>>
vars == <<hasJump, owner, fields, open, forward, connVars, crashed>>

-----------------------------------------------------------------------------
Sockets == {"listener", "client", "jump", "raw"}   \* raw: before its handshake
Connecting == {"auth", "dial", "dialJump", "dialThrough", "handshake", "listen"}
Disconnecting == {"clearListener", "closeClient", "clearClient", "closeJump", "clearJump"}
Owner == Connecting \cup {"up"} \cup Disconnecting \cup {"failed", "down"}
Directions == {"up", "down"}   \* local to remote, remote to local

Init ==
  /\ hasJump \in BOOLEAN
  /\ owner = "auth"
  /\ fields = {}
  /\ open = {}
  /\ forward = "none"
  /\ handler = [c \in Conns |-> "none"]
  /\ copier = [c \in Conns |-> [d \in Directions |-> "none"]]
  /\ local = [c \in Conns |-> "none"]
  /\ remote = [c \in Conns |-> "none"]
  /\ done = [c \in Conns |-> 0]
  /\ crashed = FALSE

-----------------------------------------------------------------------------
(* Connect *)

\* A dial that succeeds: a new socket, kept in the field of the same name
\* unless it is still to be handshaken.
Dialled(s) ==
  /\ open' = open \cup {s}
  /\ fields' = IF s = "raw" THEN fields ELSE fields \cup {s}

\* closeClients, from a failure point in Connect: no other goroutine runs yet.
\*   mutant: the jump host's connection is forgotten
CloseFinal ==
  /\ open' = open \ {"client", "raw"}
  /\ fields' = fields \ {"client"}
CloseClients ==
  /\ open' = open \ {"client", "jump", "raw"}
  /\ fields' = fields \ {"client", "jump"}

Fails == owner' = "failed"
Continues(place) == owner' = place

\* The credentials are made ready; the key file may be missing or damaged.
Auth ==
  /\ owner = "auth"
  /\ Fails \/ Continues(IF hasJump THEN "dialJump" ELSE "dial")
  /\ UNCHANGED <<hasJump, fields, open, forward, connVars, crashed>>

Dial ==
  /\ owner = "dial"
  /\ \/ Dialled("client") /\ Continues("listen")
     \/ UNCHANGED <<fields, open>> /\ Fails
  /\ UNCHANGED <<hasJump, forward, connVars, crashed>>

DialJump ==
  /\ owner = "dialJump"
  /\ \/ Dialled("jump") /\ Continues("dialThrough")
     \/ UNCHANGED <<fields, open>> /\ Fails
  /\ UNCHANGED <<hasJump, forward, connVars, crashed>>

DialThrough ==
  /\ owner = "dialThrough"
  /\ \/ "jump" \in open /\ Dialled("raw") /\ Continues("handshake")
     \/ CloseClients /\ Fails
  /\ UNCHANGED <<hasJump, forward, connVars, crashed>>

\* A handshake that fails closes the raw connection and then the clients.
Handshake ==
  /\ owner = "handshake"
  /\ \/ /\ "raw" \in open
        /\ open' = (open \ {"raw"}) \cup {"client"}
        /\ fields' = fields \cup {"client"}
        /\ Continues("listen")
     \/ CloseClients /\ Fails
  /\ UNCHANGED <<hasJump, forward, connVars, crashed>>

\* The local port may be taken.
Listen ==
  /\ owner = "listen"
  /\ \/ Dialled("listener") /\ forward' = "loop" /\ Continues("up")
     \/ CloseClients /\ UNCHANGED forward /\ Fails
  /\ UNCHANGED <<hasJump, connVars, crashed>>

-----------------------------------------------------------------------------
(* Disconnect: when the run is over, whatever the other goroutines are doing *)

\* Closing the listener resets the connections it has not handed out.
CloseListener ==
  /\ owner = "up"
  /\ open' = open \ {"listener"}
  /\ local' = [c \in Conns |-> IF local[c] = "queued" THEN "closed" ELSE local[c]]
  /\ Continues("clearListener")
  /\ UNCHANGED <<hasJump, fields, forward, handler, copier, remote, done, crashed>>

Close(s, from, to) ==
  /\ owner = from /\ Continues(to)
  /\ open' = open \ {s}
  /\ UNCHANGED <<hasJump, fields, forward, connVars, crashed>>

Clear(f, from, to) ==
  /\ owner = from /\ Continues(to)
  /\ fields' = fields \ {f}
  /\ UNCHANGED <<hasJump, open, forward, connVars, crashed>>

\*   mutant: the SSH connection is left for the handlers to give up
LeaveClient == owner = "closeClient" /\ Continues("clearClient")
               /\ UNCHANGED <<hasJump, fields, open, forward, connVars, crashed>>

ClearListener == Clear("listener", "clearListener", "closeClient")
CloseClient == Close("client", "closeClient", "clearClient")
ClearClient == Clear("client", "clearClient", IF hasJump THEN "closeJump" ELSE "down")
CloseJump == Close("jump", "closeJump", "clearJump")
ClearJump == Clear("jump", "clearJump", "down")

Disconnect == CloseListener \/ ClearListener \/ CloseClient \/ ClearClient \/ CloseJump \/ ClearJump

-----------------------------------------------------------------------------
(* forward *)

Crashes ==
  /\ crashed' = TRUE
  /\ UNCHANGED <<hasJump, owner, fields, open, forward, connVars>>

\* t.listener is read again at every turn of the loop.
ReadListener ==
  /\ forward = "loop"
  /\ \/ "listener" \notin fields /\ Crashes
     \/ /\ "listener" \in fields
        /\ forward' = "accept"
        /\ UNCHANGED <<hasJump, owner, fields, open, connVars, crashed>>

\* Accept returns a connection, for which handleConn is started, or an error.
Accept(c) ==
  /\ forward = "accept" /\ "listener" \in open
  /\ local[c] = "queued"
  /\ local' = [local EXCEPT ![c] = "open"]
  /\ handler' = [handler EXCEPT ![c] = "start"]
  /\ forward' = "loop"
  /\ UNCHANGED <<hasJump, owner, fields, open, copier, remote, done, crashed>>

AcceptFails ==
  /\ forward = "accept" /\ "listener" \notin open
  /\ forward' = "gone"
  /\ UNCHANGED <<hasJump, owner, fields, open, connVars, crashed>>

-----------------------------------------------------------------------------
(* handleConn and its copiers *)

ReadClient(c) ==
  /\ handler[c] = "start"
  /\ \/ "client" \notin fields /\ Crashes
     \/ /\ "client" \in fields
        /\ handler' = [handler EXCEPT ![c] = "dial"]
        /\ UNCHANGED <<hasJump, owner, fields, open, forward, copier, local, remote, done, crashed>>

\* The host may refuse; once the SSH connection is closed it always fails.
DialRemote(c) ==
  /\ handler[c] = "dial"
  /\ \/ /\ "client" \in open
        /\ handler' = [handler EXCEPT ![c] = "wait"]
        /\ copier' = [copier EXCEPT ![c] = [d \in Directions |-> "copy"]]
        /\ remote' = [remote EXCEPT ![c] = "open"]
        /\ UNCHANGED local
     \/ /\ handler' = [handler EXCEPT ![c] = "gone"]
        /\ local' = [local EXCEPT ![c] = "closed"]
        /\ UNCHANGED <<copier, remote>>
  /\ UNCHANGED <<hasJump, owner, fields, open, forward, done, crashed>>

\* A copier is blocked reading its source until the source ends; it may also
\* find out, when it has something to write, that its destination has.
LocalEnded(c) == local[c] \in {"hungup", "closed"}
RemoteEnded(c) == remote[c] \in {"ended", "closed"} \/ "client" \notin open
SourceEnded(c, d) == IF d = "up" THEN LocalEnded(c) ELSE RemoteEnded(c)
SinkEnded(c, d) == IF d = "up" THEN RemoteEnded(c) ELSE LocalEnded(c)

StopsCopying(c, d) ==
  /\ copier[c][d] = "copy"
  /\ copier' = [copier EXCEPT ![c][d] = "send"]
  /\ UNCHANGED <<hasJump, owner, fields, open, forward, handler, local, remote, done, crashed>>

ReadsEnd(c, d) == SourceEnded(c, d) /\ StopsCopying(c, d)
WriteFails(c, d) == SinkEnded(c, d) /\ StopsCopying(c, d)

\* done <- struct{}{}: the channel has room for both.
\*   mutants: it has none, and only a handler that waits can receive; a copier
\*   says twice that it is done
SendAgain(c, d) ==
  /\ copier[c][d] = "send" /\ done[c] < 3
  /\ copier' = [copier EXCEPT ![c][d] = IF done[c] = 0 THEN "send" ELSE "gone"]
  /\ done' = [done EXCEPT ![c] = @ + 1]
  /\ UNCHANGED <<hasJump, owner, fields, open, forward, handler, local, remote, crashed>>

SendUnbuffered(c, d) ==
  /\ copier[c][d] = "send" /\ handler[c] = "wait" /\ done[c] = 0
  /\ copier' = [copier EXCEPT ![c][d] = "gone"]
  /\ done' = [done EXCEPT ![c] = @ + 1]
  /\ UNCHANGED <<hasJump, owner, fields, open, forward, handler, local, remote, crashed>>

SendDone(c, d) ==
  /\ copier[c][d] = "send"
  /\ copier' = [copier EXCEPT ![c][d] = "gone"]
  /\ done' = [done EXCEPT ![c] = @ + 1]
  /\ UNCHANGED <<hasJump, owner, fields, open, forward, handler, local, remote, crashed>>

\* <-done, then the deferred Close of both ends.
\*   mutants: it waits for both copiers; it leaves the remote end to the copier
ReturnAfterBoth(c) ==
  /\ handler[c] = "wait" /\ done[c] = 2
  /\ handler' = [handler EXCEPT ![c] = "gone"]
  /\ local' = [local EXCEPT ![c] = "closed"]
  /\ remote' = [remote EXCEPT ![c] = "closed"]
  /\ UNCHANGED <<hasJump, owner, fields, open, forward, copier, done, crashed>>

ReturnWithoutClose(c) ==
  /\ handler[c] = "wait" /\ done[c] > 0
  /\ done' = [done EXCEPT ![c] = @ - 1]
  /\ handler' = [handler EXCEPT ![c] = "gone"]
  /\ local' = [local EXCEPT ![c] = "closed"]
  /\ UNCHANGED <<hasJump, owner, fields, open, forward, copier, remote, crashed>>

Return(c) ==
  /\ handler[c] = "wait" /\ done[c] > 0
  /\ done' = [done EXCEPT ![c] = @ - 1]
  /\ handler' = [handler EXCEPT ![c] = "gone"]
  /\ local' = [local EXCEPT ![c] = "closed"]
  /\ remote' = [remote EXCEPT ![c] = "closed"]
  /\ UNCHANGED <<hasJump, owner, fields, open, forward, copier, crashed>>

-----------------------------------------------------------------------------
(* Outside *)

\* The API client connects: the kernel queues the connection for Accept.
ApiConnects(c) ==
  /\ local[c] = "none" /\ "listener" \in open
  /\ local' = [local EXCEPT ![c] = "queued"]
  /\ UNCHANGED <<hasJump, owner, fields, open, forward, handler, copier, remote, done, crashed>>

ApiHangsUp(c) ==
  /\ local[c] = "open"
  /\ local' = [local EXCEPT ![c] = "hungup"]
  /\ UNCHANGED <<hasJump, owner, fields, open, forward, handler, copier, remote, done, crashed>>

ServerHangsUp(c) ==
  /\ remote[c] = "open"
  /\ remote' = [remote EXCEPT ![c] = "ended"]
  /\ UNCHANGED <<hasJump, owner, fields, open, forward, handler, copier, local, done, crashed>>

\* An SSH connection breaks, and with the one to the jump host all through it.
Breaks(s) ==
  /\ s \in open \ {"listener"}
  /\ open' = open \ (IF s = "jump" THEN {"jump", "client", "raw"} ELSE {s})
  /\ UNCHANGED <<hasJump, owner, fields, forward, connVars, crashed>>

-----------------------------------------------------------------------------
Connect == Auth \/ Dial \/ DialJump \/ DialThrough \/ Handshake \/ Listen

Forward == ReadListener \/ AcceptFails \/ \E c \in Conns : Accept(c)

HandleConn(c) == ReadClient(c) \/ DialRemote(c) \/ Return(c)

Copy(c, d) == ReadsEnd(c, d) \/ WriteFails(c, d) \/ SendDone(c, d)

Outside ==
  \/ \E c \in Conns : ApiConnects(c) \/ ApiHangsUp(c) \/ ServerHangsUp(c)
  \/ \E s \in Sockets : Breaks(s)

AllGone ==
  /\ forward \in {"none", "gone"}
  /\ \A c \in Conns : /\ handler[c] \in {"none", "gone"}
                      /\ \A d \in Directions : copier[c][d] \in {"none", "gone"}

\* The process has crashed, or the tunnel and its goroutines are over.
Over ==
  /\ \/ crashed
     \/ owner \in {"failed", "down"} /\ AllGone
  /\ UNCHANGED vars

Next ==
  \/ /\ ~crashed
     /\ \/ Connect \/ Disconnect \/ Forward \/ Outside
        \/ \E c \in Conns : HandleConn(c) \/ \E d \in Directions : Copy(c, d)
  \/ Over

Spec == Init /\ [][Next]_vars

\* Go runs every goroutine that can run.  Whether a copier is ever given
\* something to write, or either side hangs up, is up to others.
Fairness ==
  /\ WF_vars(~crashed /\ Forward)
  /\ \A c \in Conns : /\ WF_vars(~crashed /\ HandleConn(c))
                      /\ \A d \in Directions : WF_vars(~crashed /\ (ReadsEnd(c, d) \/ SendDone(c, d)))
FairSpec == Spec /\ Fairness

-----------------------------------------------------------------------------
(* Properties *)

\* Every variable has its type.  The channel done of a connection never holds
\* more than it has room for, so no copier blocks for ever sending to it.
TypeOK ==
  /\ hasJump \in BOOLEAN
  /\ owner \in Owner
  /\ fields \subseteq {"listener", "client", "jump"}
  /\ open \subseteq Sockets
  /\ forward \in {"none", "loop", "accept", "gone"}
  /\ handler \in [Conns -> {"none", "start", "dial", "wait", "gone"}]
  /\ copier \in [Conns -> [Directions -> {"none", "copy", "send", "gone"}]]
  /\ local \in [Conns -> {"none", "queued", "open", "hungup", "closed"}]
  /\ remote \in [Conns -> {"none", "open", "ended", "closed"}]
  /\ done \in [Conns -> 0..2]
  /\ crashed \in BOOLEAN

\* Disconnect is "safe to call even if Connect failed" and tears the tunnel down
\* (tunnel.go:13); a Connect that fails is never disconnected (runner.go:105-109):
\* after either, at whatever step it failed and whatever broke before, no socket
\* is open, no local port held, and no field is left to be used.
NothingLeftOpen == owner \in {"failed", "down"} => open = {} /\ fields = {}

\* A connection that handleConn has returned from (ssh.go:179-193) is closed at
\* both ends, and one still handled is closed at neither by this program.
BothEndsClosed ==
  \A c \in Conns :
    /\ handler[c] = "gone" => local[c] = "closed" /\ remote[c] \in {"none", "closed"}
    /\ handler[c] \in {"start", "dial", "wait"} => local[c] # "closed" /\ remote[c] # "closed"

\* SSH "implements Tunnel" (ssh.go:16, tunnel.go:13): a connection reaches the
\* BECS host only while the tunnel is up, and when Disconnect has closed the SSH
\* connection none does, whatever handleConn and its copiers are still about to
\* do with theirs: a later tunnel on the same port has this one's none.
State == CASE owner \in Connecting -> "new"
           [] owner \in {"up", "clearListener", "closeClient"} -> "up"
           [] owner = "failed" -> "failed"
           [] OTHER -> "down"
Carried == {c \in Conns : remote[c] = "open" /\ "client" \in open}
Abstract == INSTANCE Tunnel WITH state <- State, carried <- Carried
IsATunnel == Abstract!Spec

\* After Disconnect every goroutine of the tunnel ends, the copier included that
\* nobody waits for and that reads from an API client that keeps its connection
\* open: closing the SSH connection ends one copier, that one wakes handleConn,
\* and handleConn closes what the other reads (unless the process has crashed).
GoroutinesEnd == owner = "down" ~> crashed \/ AllGone

\* "return // listener closed by Disconnect" (ssh.go:173): a Disconnect that comes
\* while forward and handleConn run makes Accept and Dial return errors.  They
\* read the fields again, though, and find nil once Disconnect has cleared them.
DisconnectEndsForward == ~crashed
=============================================================================
