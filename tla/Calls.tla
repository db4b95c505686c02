------------------------------- MODULE Calls -------------------------------
(***************************************************************************)
(* The API calls of internal/becs/client.go on their way: the client of    *)
(* each run, the HTTP transport under it and the connections that one      *)
(* keeps for later, the tunnel they may go through (tunnel/ssh.go as a     *)
(* Tunnel, wireguard.go step by step), and the recorder of apilog.go that  *)
(* the API monitor shows.                                                  *)
(*                                                                         *)
(* Runs follow one another (Runner!OneJobAtATime).  Those without a tunnel *)
(* and those through SSH all use http.DefaultTransport, which keys its     *)
(* idle connections by address only, and every SSH tunnel is reached at    *)
(* an address of 127.0.0.1; so what an earlier run has left there matters. *)
(* A run through WireGuard has a transport of its own.                     *)
(*                                                                         *)
(* A connection knows the host at its far end and the run whose tunnel     *)
(* carries it.  Which calls a run makes is Runner's business: here they    *)
(* are numbered.                                                           *)
(***************************************************************************)
EXTENDS Naturals, Sequences

CONSTANTS
  Envs,       \* the environments a run may be for
  Direct,     \* the host at each address that is reached without a tunnel
  NoHost,     \* nobody answers there
  MaxEntries, \* Recorder.max
  MaxRuns, MaxCalls   \* bounds: of the runs, and of the calls in each

Addresses == DOMAIN Direct
Hosts == {e.host : e \in Envs} \cup {Direct[a] : a \in Addresses}

\* `at' is BECSHost:BECSPort, `listen' 127.0.0.1:LocalPort, `host' the BECS
\* server the environment is about.
ASSUME CallsAssumption ==
  /\ \A e \in Envs : /\ e.tunnel \in {"none", "ssh", "wireguard"}
                     /\ e.at \in Addresses /\ e.listen \in Addresses
  /\ MaxEntries \in Nat \ {0} /\ MaxRuns \in Nat /\ MaxCalls \in Nat

VARIABLES
  run,       \* the number of the current or the last run
  env,       \* its environment
  stage,     \* where executeRun or call is
  link,      \* an SSH tunnel listens
  device,    \* a WireGuard device exists
  idle,      \* the connections the transports keep
  conn,      \* the one the request was written to
  nextID,
  got,       \* where the request of this call has arrived
  entries,   \* Recorder.entries
  recorded, cleared   \* history: how often Record ran, and before the last Clear

tunnelVars == <<link, device>>
logVars == <<entries, recorded, cleared>>
vars == <<run, env, stage, tunnelVars, idle, conn, nextID, got, logVars>>

-----------------------------------------------------------------------------
\* pool: the run whose own transport keeps the connection, 0 for the default
\* one; via: the run whose tunnel carries it, 0 if none does; used: it has
\* carried a call before.
Conn == [pool : 0..MaxRuns, at : Addresses, host : Hosts, via : 0..MaxRuns,
         used : BOOLEAN, alive : BOOLEAN]
NoConn == [alive |-> FALSE]

\* The transport that serves the run.
Pool == IF env.tunnel = "wireguard" THEN run ELSE 0
Usable == {c \in idle : c.pool = Pool /\ c.at = env.at}

Calling == {"send", "sent", "arrived"}

Init ==
  /\ run = 0 /\ env \in Envs /\ stage = "idle"
  /\ link = FALSE /\ device = FALSE
  /\ idle = {} /\ conn = NoConn
  /\ nextID = 0 /\ got = <<>>
  /\ entries = <<>> /\ recorded = 0 /\ cleared = 0

-----------------------------------------------------------------------------
(* The recorder *)

\*   mutant: it is not noticed that the buffer is full until it has overflown
KeepOneMore(es) ==
  IF Len(es) > MaxEntries + 1 THEN SubSeq(es, Len(es) - MaxEntries + 1, Len(es)) ELSE es
Keep(es) ==
  IF Len(es) > MaxEntries THEN SubSeq(es, Len(es) - MaxEntries + 1, Len(es)) ELSE es

\* `n' stands for the time of the entry, `run' for its endpoint.
Record(dir, id) ==
  /\ recorded' = recorded + 1
  /\ entries' = Keep(Append(entries, [n |-> recorded + 1, dir |-> dir, run |-> run, id |-> id]))
  /\ UNCHANGED cleared

\* apiLogClear, whenever somebody asks for it.
Clear ==
  /\ entries # <<>>
  /\ entries' = <<>>
  /\ cleared' = recorded
  /\ UNCHANGED <<run, env, stage, tunnelVars, idle, conn, nextID, got, recorded>>

-----------------------------------------------------------------------------
(* executeRun: the tunnel around the calls *)

Begin(e) ==
  /\ stage = "idle" /\ run < MaxRuns
  /\ run' = run + 1 /\ env' = e
  /\ stage' = IF e.tunnel = "none" THEN "ready" ELSE "connect"
  /\ nextID' = 0 /\ got' = <<>>
  /\ UNCHANGED <<tunnelVars, idle, conn, logVars>>

\* An SSH Connect that fails leaves nothing (SSHTunnel!NothingLeftOpen).
ConnectSSH ==
  /\ stage = "connect" /\ env.tunnel = "ssh"
  /\ \/ stage' = "ready" /\ link' = TRUE
     \/ stage' = "idle" /\ UNCHANGED link
  /\ UNCHANGED <<run, env, device, idle, conn, nextID, got, logVars>>

\* A bad address, bad DNS or CreateNetTUN may fail before there is a device.
CreateDevice ==
  /\ stage = "connect" /\ env.tunnel = "wireguard"
  /\ \/ stage' = "device" /\ device' = TRUE
     \/ stage' = "idle" /\ UNCHANGED device
  /\ UNCHANGED <<run, env, link, idle, conn, nextID, got, logVars>>

\* buildIPC, IpcSet and Up; when one fails the device is closed, and as the
\* tunnel did not connect nobody will disconnect it.
\*   mutant: the device is left to Disconnect
ConfigureOnly ==
  /\ stage = "device"
  /\ stage' \in {"ready", "idle"}
  /\ UNCHANGED <<run, env, tunnelVars, idle, conn, nextID, got, logVars>>
ConfigureDevice ==
  /\ stage = "device"
  /\ \/ stage' = "ready" /\ UNCHANGED device
     \/ stage' = "idle" /\ device' = FALSE
  /\ UNCHANGED <<run, env, link, idle, conn, nextID, got, logVars>>

\* The end of the run: Disconnect, if there is a tunnel.  What it carried ends
\* (Tunnel!Disconnect), but the transport still keeps its end.
\*   mutant: the SSH connection is left open
Carries(r, c) == [c EXCEPT !.alive = c.alive /\ c.via # r]
CloseListenerOnly ==
  /\ stage = "ready" /\ stage' = "idle"
  /\ link' = FALSE /\ device' = FALSE
  /\ UNCHANGED <<run, env, idle, conn, nextID, got, logVars>>
Disconnect ==
  /\ stage = "ready" /\ stage' = "idle"
  /\ link' = FALSE /\ device' = FALSE
  /\ idle' = {Carries(run, c) : c \in idle}
  /\ UNCHANGED <<run, env, conn, nextID, got, logVars>>

-----------------------------------------------------------------------------
(* Client.call *)

\* The call returns at once when the request cannot be encoded, or when none can
\* be built for the endpoint: in the second case it has been recorded, and no
\* error is.
\*   mutant: the id is counted up after the request was recorded
CallCountsLate ==
  /\ stage = "ready" /\ nextID < MaxCalls
  /\ nextID' = nextID + 1 /\ got' = <<>>
  /\ \/ stage' = "ready" /\ UNCHANGED logVars
     \/ stage' \in {"send", "ready"} /\ Record("request", nextID)
  /\ UNCHANGED <<run, env, tunnelVars, idle, conn>>
Call ==
  /\ stage = "ready" /\ nextID < MaxCalls
  /\ nextID' = nextID + 1 /\ got' = <<>>
  /\ \/ stage' = "ready" /\ UNCHANGED logVars
     \/ stage' \in {"send", "ready"} /\ Record("request", nextID + 1)
  /\ UNCHANGED <<run, env, tunnelVars, idle, conn>>

\* The far end of a new connection: WireGuard dials inside its own network, an
\* SSH tunnel answers at the address it listens on, others elsewhere.
Dialled ==
  LET to(host, via) ==
        [pool |-> Pool, at |-> env.at, host |-> host, via |-> via, used |-> FALSE, alive |-> TRUE]
  IN CASE env.tunnel = "wireguard" -> to(env.host, run)
       [] link /\ env.at = env.listen -> to(env.host, run)
       [] OTHER -> to(Direct[env.at], 0)

\* The transport takes a connection it keeps for this address, if it has one.
Reuse(c) ==
  /\ stage = "send" /\ stage' = "sent"
  /\ conn' = c
  /\ idle' = idle \ {c}
  /\ UNCHANGED <<run, env, tunnelVars, nextID, got, logVars>>

Dial ==
  /\ stage = "send" /\ Usable = {}
  /\ Dialled.host # NoHost
  /\ conn' = Dialled /\ stage' = "sent"
  /\ UNCHANGED <<run, env, tunnelVars, idle, nextID, got, logVars>>

\* A kept connection turns out to be dead before anything was written: the
\* transport starts again.
Retry ==
  /\ stage = "sent" /\ conn.used /\ ~conn.alive
  /\ stage' = "send" /\ conn' = NoConn
  /\ UNCHANGED <<run, env, tunnelVars, idle, nextID, got, logVars>>

Arrive ==
  /\ stage = "sent" /\ conn.alive
  /\ got' = Append(got, [host |-> conn.host, via |-> conn.via])
  /\ stage' = "arrived"
  /\ UNCHANGED <<run, env, tunnelVars, idle, conn, nextID, logVars>>

\* http.Client.Do returns an error: nobody answers there, the connection breaks,
\* or the 20 s of the client are up, whether or not the request got through.
GiveUp ==
  /\ stage \in Calling
  /\ Record("error", nextID)
  /\ stage' = "ready" /\ conn' = NoConn
  /\ UNCHANGED <<run, env, tunnelVars, idle, nextID, got>>

\* An answer: a result; a status or an error object; or a body that cannot be
\* decoded, which is not recorded.  The connection is kept for the next call
\* unless something of the body was left unread.
Receive ==
  /\ stage = "arrived"
  /\ Record("response", nextID) \/ Record("error", nextID) \/ UNCHANGED logVars
  /\ idle' \in {idle, idle \cup {[conn EXCEPT !.used = TRUE]}}
  /\ stage' = "ready" /\ conn' = NoConn
  /\ UNCHANGED <<run, env, tunnelVars, nextID, got>>

-----------------------------------------------------------------------------
(* Outside *)

\* The other end of a connection closes it, or the SSH connection under it ends.
Ends ==
  \/ /\ conn.alive /\ conn' = [conn EXCEPT !.alive = FALSE]
     /\ UNCHANGED <<run, env, stage, tunnelVars, idle, nextID, got, logVars>>
  \/ \E c \in idle :
       /\ c.alive /\ idle' = (idle \ {c}) \cup {[c EXCEPT !.alive = FALSE]}
       /\ UNCHANGED <<run, env, stage, tunnelVars, conn, nextID, got, logVars>>

\* The transport finds out and forgets it.
Noticed ==
  /\ \E c \in idle : ~c.alive /\ idle' = idle \ {c}
  /\ UNCHANGED <<run, env, stage, tunnelVars, conn, nextID, got, logVars>>

-----------------------------------------------------------------------------
Connect == ConnectSSH \/ CreateDevice \/ ConfigureDevice

Sends == Dial \/ Retry \/ \E c \in Usable : Reuse(c)

Over == run = MaxRuns /\ stage = "idle" /\ UNCHANGED vars

Next ==
  \/ \E e \in Envs : Begin(e)
  \/ Connect \/ Disconnect
  \/ Call \/ Sends \/ Arrive \/ GiveUp \/ Receive
  \/ Clear \/ Ends \/ Noticed \/ Over

Spec == Init /\ [][Next]_vars

-----------------------------------------------------------------------------
(* Properties *)

Entry == [n : Nat, dir : {"request", "response", "error"}, run : 1..MaxRuns, id : 1..MaxCalls]

\* Every variable has its type; a call is numbered once, however often its
\* request is written.
TypeOK ==
  /\ run \in 0..MaxRuns /\ env \in Envs
  /\ stage \in {"idle", "connect", "device", "ready"} \cup Calling
  /\ link \in BOOLEAN /\ device \in BOOLEAN
  /\ idle \subseteq Conn
  /\ IF stage \in {"sent", "arrived"} THEN conn \in Conn ELSE conn = NoConn
  /\ nextID \in 0..MaxCalls
  /\ got \in Seq([host : Hosts, via : 0..MaxRuns])
  /\ entries \in Seq(Entry)
  /\ recorded \in Nat /\ cleared \in 0..recorded

\* What config.yaml must say for anything to arrive: without a tunnel the endpoint
\* is that of the server; with SSH it is the one the tunnel listens on, which no
\* environment without a tunnel uses.
Plain(a) == \E e \in Envs : e.tunnel = "none" /\ e.at = a
EnvsAgree ==
  \A e \in Envs : /\ e.tunnel = "none" => e.host = Direct[e.at]
                  /\ e.tunnel = "ssh" => e.at = e.listen /\ ~Plain(e.at)

\* Whatever earlier runs have left in the pool of the shared transport, a request
\* arrives at the BECS server of its own environment, also when two SSH tunnels
\* use the same local port one after the other (runner.go:116-124).
ReachesItsOwnHost == EnvsAgree => \A k \in DOMAIN got : got[k].host = env.host

\* When no run is at work there is no tunnel, no WireGuard device and no
\* connection that still goes through one, at whatever step the last Connect
\* failed (wireguard.go:61-77).
NothingLeftUp ==
  stage = "idle" => ~link /\ ~device /\ \A c \in idle : c.alive => c.via = 0

\* The monitor keeps the newest MaxEntries of what was recorded since the last
\* Clear, all of it and in order (apilog.go:32).
LogIsTheNewest ==
  LET since == recorded - cleared IN
  /\ Len(entries) = IF since < MaxEntries THEN since ELSE MaxEntries
  /\ \A k \in DOMAIN entries : entries[k].n = recorded - Len(entries) + k

\* An answer or an error is shown right after the request it belongs to, of the
\* same run and with the same id; only the oldest entry may have lost it.
AnswersFollowRequests ==
  \A k \in DOMAIN entries :
    entries[k].dir # "request" =>
      \/ k = 1
      \/ /\ entries[k - 1].dir = "request"
         /\ entries[k - 1].run = entries[k].run /\ entries[k - 1].id = entries[k].id

\* "The BECS client connects to 127.0.0.1:<local_port> after Connect returns"
\* (ssh.go:25): what a run with a tunnel sends goes through it.
ThroughTheTunnel ==
  env.tunnel # "none" => \A k \in DOMAIN got : got[k].via = run
=============================================================================
