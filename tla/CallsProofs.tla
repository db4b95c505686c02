---------------------------- MODULE CallsProofs ----------------------------
(***************************************************************************)
(* The safety theorems of Calls, for any environments, any numbers of runs *)
(* and calls and any size of the recorder.                                 *)
(***************************************************************************)
EXTENDS Calls, TLAPS

\* The stages between Connect and Disconnect.
Up == {"ready"} \cup Calling

-----------------------------------------------------------------------------
(* Types *)

\* A stage past "idle" belongs to a run, and one of a call to a call.
TypeInv ==
  /\ TypeOK
  /\ stage # "idle" => run \in 1..MaxRuns
  /\ stage \in Calling => nextID \in 1..MaxCalls

\* A connection that is dialled or kept by the transport of the run is one.
LEMMA PoolType == TypeInv => Pool \in 0..MaxRuns
BY CallsAssumption DEF TypeInv, TypeOK, Pool

LEMMA DialledType == TypeInv /\ stage = "send" => Dialled \in Conn
<1> SUFFICES ASSUME TypeInv, stage = "send" PROVE Dialled \in Conn
  OBVIOUS
<1>1. run \in 0..MaxRuns /\ 0 \in 0..MaxRuns /\ env \in Envs /\ Pool \in 0..MaxRuns
  BY PoolType, CallsAssumption DEF TypeInv, TypeOK
<1>2. env.host \in Hosts /\ env.at \in Addresses /\ Direct[env.at] \in Hosts
  BY <1>1, CallsAssumption DEF Hosts
<1> QED
  BY <1>1, <1>2 DEF Dialled, Conn

\* The recorder never holds more than it may, and nothing but entries.
LEMMA KeepType ==
  ASSUME NEW S, NEW es \in Seq(S)
  PROVE  /\ Keep(es) \in Seq(S)
         /\ Len(Keep(es)) = IF Len(es) > MaxEntries THEN MaxEntries ELSE Len(es)
         /\ \A k \in 1..Len(Keep(es)) : Keep(es)[k] = es[Len(es) - Len(Keep(es)) + k]
<1>1. MaxEntries \in Nat \ {0}
  BY CallsAssumption
<1>2. CASE Len(es) > MaxEntries
  <2> DEFINE m == Len(es) - MaxEntries + 1
  <2>1. m \in 1..Len(es) /\ Len(es) \in Nat
    BY <1>1, <1>2
  <2>2. Keep(es) = SubSeq(es, m, Len(es))
    BY <1>2 DEF Keep
  <2>3. \A i \in m..Len(es) : es[i] \in S
    BY <2>1
  <2>4. /\ SubSeq(es, m, Len(es)) \in Seq(S)
        /\ Len(SubSeq(es, m, Len(es))) = Len(es) - m + 1
        /\ \A k \in 1..(Len(es) - m + 1) : SubSeq(es, m, Len(es))[k] = es[m + k - 1]
    BY <2>1, <2>3
  <2> QED
    BY <1>1, <1>2, <2>1, <2>2, <2>4
<1>3. CASE ~(Len(es) > MaxEntries)
  BY <1>3 DEF Keep
<1> QED
  BY <1>2, <1>3

\* Record adds one entry and keeps the newest.
LEMMA RecordType ==
  ASSUME TypeInv, stage # "idle", NEW dir \in {"request", "response", "error"},
         NEW id \in 1..MaxCalls, Record(dir, id)
  PROVE  entries' \in Seq(Entry) /\ recorded' \in Nat /\ cleared' \in 0..recorded'
<1>1. recorded \in Nat /\ cleared \in 0..recorded /\ run \in 1..MaxRuns /\ entries \in Seq(Entry)
  BY DEF TypeInv, TypeOK
<1> DEFINE entry == [n |-> recorded + 1, dir |-> dir, run |-> run, id |-> id]
<1>2. entry \in Entry
  BY <1>1 DEF Entry
<1>3. entries' = Keep(Append(entries, entry)) /\ recorded' = recorded + 1 /\ cleared' = cleared
  BY DEF Record
<1> HIDE DEF entry
<1>4. Append(entries, entry) \in Seq(Entry)
  BY <1>1, <1>2
<1>5. entries' \in Seq(Entry)
  BY <1>3, <1>4, KeepType
<1> QED
  BY <1>1, <1>3, <1>5

LEMMA TypeInit == Init => TypeInv
<1> SUFFICES ASSUME Init PROVE TypeInv
  OBVIOUS
<1>1. <<>> \in Seq([host : Hosts, via : 0..MaxRuns]) /\ <<>> \in Seq(Entry)
  OBVIOUS
<1>2. got \in Seq([host : Hosts, via : 0..MaxRuns]) /\ entries \in Seq(Entry)
  BY <1>1 DEF Init
<1>3. 0 \in 0..MaxRuns /\ 0 \in 0..MaxCalls /\ 0 \in 0..0
  BY CallsAssumption
<1>4. TypeOK
  BY <1>2, <1>3 DEF Init, TypeOK, Calling
<1> QED
  BY <1>4 DEF Init, TypeInv, Calling

LEMMA TypeStep == TypeInv /\ [Next]_vars => TypeInv'
<1> SUFFICES ASSUME TypeInv, [Next]_vars PROVE TypeInv'
  OBVIOUS
<1>1. /\ run \in 0..MaxRuns /\ env \in Envs /\ nextID \in 0..MaxCalls
      /\ stage \in {"idle", "connect", "device", "ready", "send", "sent", "arrived"}
      /\ link \in BOOLEAN /\ device \in BOOLEAN /\ idle \subseteq Conn
      /\ MaxRuns \in Nat /\ MaxCalls \in Nat
  BY CallsAssumption DEF TypeInv, TypeOK, Calling
<1>2. ASSUME NEW e \in Envs, Begin(e) PROVE TypeInv'
  BY <1>1, <1>2 DEF Begin, TypeInv, TypeOK, Calling, tunnelVars, logVars
<1>3. CASE Connect
  BY <1>1, <1>3 DEF Connect, ConnectSSH, CreateDevice, ConfigureDevice, TypeInv, TypeOK,
    Calling, tunnelVars, logVars
<1>4. CASE Disconnect
  <2>1. \A c \in idle : Carries(run, c) \in Conn
    BY <1>1 DEF Carries, Conn
  <2>2. idle' \subseteq Conn
    BY <1>4, <2>1 DEF Disconnect
  <2> QED
    BY <1>1, <1>4, <2>2 DEF Disconnect, TypeInv, TypeOK, Calling, logVars
<1>5. CASE Call
  <2>1. /\ nextID + 1 \in 1..MaxCalls /\ stage # "idle"
        /\ UNCHANGED logVars \/ Record("request", nextID + 1)
    BY <1>1, <1>5 DEF Call
  <2>2. entries' \in Seq(Entry) /\ recorded' \in Nat /\ cleared' \in 0..recorded'
    BY <2>1, RecordType DEF TypeInv, TypeOK, logVars
  <2> QED
    BY <1>1, <1>5, <2>1, <2>2 DEF Call, TypeInv, TypeOK, Calling, tunnelVars
<1>6. ASSUME NEW c \in Usable, Reuse(c) PROVE TypeInv'
  BY <1>1, <1>6 DEF Reuse, Usable, TypeInv, TypeOK, Calling, tunnelVars, logVars
<1>7. CASE Dial
  BY <1>1, <1>7, DialledType DEF Dial, TypeInv, TypeOK, Calling, tunnelVars, logVars
<1>8. CASE Retry
  BY <1>1, <1>8 DEF Retry, TypeInv, TypeOK, Calling, tunnelVars, logVars
<1>9. CASE Arrive
  <2>1. conn \in Conn
    BY <1>9 DEF Arrive, TypeInv, TypeOK
  <2>2. [host |-> conn.host, via |-> conn.via] \in [host : Hosts, via : 0..MaxRuns]
    BY <2>1 DEF Conn
  <2>3. got' \in Seq([host : Hosts, via : 0..MaxRuns])
    BY <1>9, <2>2 DEF Arrive, TypeInv, TypeOK
  <2> QED
    BY <1>1, <1>9, <2>1, <2>3 DEF Arrive, TypeInv, TypeOK, Calling, tunnelVars, logVars
<1>10. CASE GiveUp
  <2>1. nextID \in 1..MaxCalls /\ stage # "idle" /\ Record("error", nextID)
    BY <1>10 DEF GiveUp, TypeInv, Calling
  <2>2. entries' \in Seq(Entry) /\ recorded' \in Nat /\ cleared' \in 0..recorded'
    BY <2>1, RecordType
  <2> QED
    BY <1>1, <1>10, <2>1, <2>2 DEF GiveUp, TypeInv, TypeOK, Calling, tunnelVars
<1>11. CASE Receive
  <2>1. nextID \in 1..MaxCalls /\ stage # "idle"
    BY <1>11 DEF Receive, TypeInv, Calling
  <2>2. entries' \in Seq(Entry) /\ recorded' \in Nat /\ cleared' \in 0..recorded'
    BY <1>11, <2>1, RecordType DEF Receive, TypeInv, TypeOK, logVars
  <2>3. [conn EXCEPT !.used = TRUE] \in Conn
    BY <1>11 DEF Receive, TypeInv, TypeOK, Conn
  <2>4. idle' \subseteq Conn
    BY <1>1, <1>11, <2>3 DEF Receive
  <2> QED
    BY <1>1, <1>11, <2>1, <2>2, <2>4 DEF Receive, TypeInv, TypeOK, Calling, tunnelVars
<1>12. CASE Clear
  BY <1>1, <1>12 DEF Clear, TypeInv, TypeOK, Calling, tunnelVars
<1>13. CASE Ends
  <2>1. ASSUME conn.alive, conn' = [conn EXCEPT !.alive = FALSE],
               UNCHANGED <<run, env, stage, tunnelVars, idle, nextID, got, logVars>>
        PROVE  TypeInv'
    <3>1. conn \in Conn /\ stage \in {"sent", "arrived"}
      BY <2>1 DEF TypeInv, TypeOK, NoConn
    <3>2. conn' \in Conn
      BY <2>1, <3>1 DEF Conn
    <3> QED
      BY <1>1, <2>1, <3>1, <3>2 DEF TypeInv, TypeOK, Calling, tunnelVars, logVars
  <2>2. ASSUME NEW c \in idle, idle' = (idle \ {c}) \cup {[c EXCEPT !.alive = FALSE]},
               UNCHANGED <<run, env, stage, tunnelVars, conn, nextID, got, logVars>>
        PROVE  TypeInv'
    <3>1. [c EXCEPT !.alive = FALSE] \in Conn
      BY <1>1 DEF Conn
    <3> QED
      BY <1>1, <2>2, <3>1 DEF TypeInv, TypeOK, Calling, tunnelVars, logVars
  <2> QED
    BY <1>13, <2>1, <2>2 DEF Ends
<1>14. CASE Noticed
  BY <1>1, <1>14 DEF Noticed, TypeInv, TypeOK, Calling, tunnelVars, logVars
<1>15. CASE UNCHANGED vars
  BY <1>15 DEF vars, TypeInv, TypeOK, Calling, tunnelVars, logVars
<1> QED
  BY <1>2, <1>3, <1>4, <1>5, <1>6, <1>7, <1>8, <1>9, <1>10, <1>11, <1>12, <1>13, <1>14, <1>15
  DEF Next, Sends, Over

\* Every variable keeps its type, whatever connections break and whoever clears
\* the log: a connection in use is one, and an entry has a call and a run.
THEOREM TypeCorrect == Spec => []TypeOK
<1>1. TypeInv => TypeOK
  BY DEF TypeInv
<1> QED
  BY <1>1, TypeInit, TypeStep, PTL DEF Spec

-----------------------------------------------------------------------------
(* The recorder *)

\* Only a call records, and only the handler of the monitor clears.
Records == \E dir \in {"request", "response", "error"}, id \in 1..MaxCalls : Record(dir, id)

LEMMA LogMoves ==
  TypeInv /\ [Next]_vars => UNCHANGED logVars \/ Clear \/ (stage # "idle" /\ Records)
<1> SUFFICES ASSUME TypeInv, [Next]_vars
             PROVE  UNCHANGED logVars \/ Clear \/ (stage # "idle" /\ Records)
  OBVIOUS
<1>1. nextID \in 0..MaxCalls /\ MaxCalls \in Nat
  BY CallsAssumption DEF TypeInv, TypeOK
<1>2. CASE Call
  <2>1. /\ nextID + 1 \in 1..MaxCalls /\ stage # "idle"
        /\ UNCHANGED logVars \/ Record("request", nextID + 1)
    BY <1>1, <1>2 DEF Call
  <2> QED
    BY <2>1 DEF Records
<1>3. CASE GiveUp
  <2>1. nextID \in 1..MaxCalls /\ stage # "idle" /\ Record("error", nextID)
    BY <1>3 DEF GiveUp, TypeInv, Calling
  <2> QED
    BY <2>1 DEF Records
<1>4. CASE Receive
  <2>1. nextID \in 1..MaxCalls /\ stage # "idle"
    BY <1>4 DEF Receive, TypeInv, Calling
  <2>2. Record("response", nextID) \/ Record("error", nextID) \/ UNCHANGED logVars
    BY <1>4 DEF Receive
  <2> QED
    BY <2>1, <2>2 DEF Records
<1>5. (\E e \in Envs : Begin(e)) \/ Connect \/ Disconnect \/ Sends \/ Arrive \/ Ends \/ Noticed
        \/ UNCHANGED vars
      => UNCHANGED logVars
  BY DEF Begin, Connect, ConnectSSH, CreateDevice, ConfigureDevice, Disconnect, Sends, Reuse,
    Dial, Retry, Arrive, Ends, Noticed, vars
<1> QED
  BY <1>2, <1>3, <1>4, <1>5 DEF Next, Over

LEMMA RecordNewest ==
  ASSUME TypeInv, LogIsTheNewest, Records
  PROVE  LogIsTheNewest'
<1>1. PICK dir, id : Record(dir, id)
  BY DEF Records
<1> DEFINE entry == [n |-> recorded + 1, dir |-> dir, run |-> run, id |-> id]
           es == Append(entries, entry)
<1>2. /\ recorded' = recorded + 1 /\ cleared' = cleared /\ entries' = Keep(es)
      /\ entry.n = recorded + 1
  BY <1>1 DEF Record
<1>3. /\ entries \in Seq(Entry) /\ recorded \in Nat /\ cleared \in 0..recorded
      /\ MaxEntries \in Nat \ {0}
  BY CallsAssumption DEF TypeInv, TypeOK
<1> HIDE DEF entry
<1>4. /\ es \in Seq(Entry \cup {entry}) /\ Len(es) = Len(entries) + 1
      /\ es[Len(es)] = entry /\ \A k \in 1..Len(entries) : es[k] = entries[k]
  BY <1>3
<1> HIDE DEF es
<1>5. /\ Keep(es) \in Seq(Entry \cup {entry})
      /\ Len(Keep(es)) = IF Len(es) > MaxEntries THEN MaxEntries ELSE Len(es)
      /\ \A k \in 1..Len(Keep(es)) : Keep(es)[k] = es[Len(es) - Len(Keep(es)) + k]
  BY <1>4, KeepType
<1> DEFINE since == recorded - cleared
<1>6. /\ Len(entries) = IF since < MaxEntries THEN since ELSE MaxEntries
      /\ since \in Nat
      /\ \A k \in 1..Len(entries) : entries[k].n = recorded - Len(entries) + k
  <2>1. since \in Nat
    BY <1>3
  <2>2. DOMAIN entries = 1..Len(entries)
    BY <1>3
  <2> QED
    BY <2>1, <2>2 DEF LogIsTheNewest
<1>7. Len(entries') = IF since + 1 < MaxEntries THEN since + 1 ELSE MaxEntries
  <2>1. Len(entries') = IF Len(es) > MaxEntries THEN MaxEntries ELSE Len(es)
    BY <1>2, <1>5
  <2>2. Len(es) = Len(entries) + 1 /\ MaxEntries \in Nat
    BY <1>3, <1>4
  <2> HIDE DEF since
  <2> QED
    BY <2>1, <2>2, <1>6
<1>8. recorded' - cleared' = since + 1
  BY <1>2, <1>3
<1> HIDE DEF since
<1>9. ASSUME NEW k \in 1..Len(entries') PROVE entries'[k].n = recorded' - Len(entries') + k
  <2> DEFINE i == Len(es) - Len(entries') + k
  <2>1. entries'[k] = es[i]
    BY <1>2, <1>5, <1>9
  <2>2. i \in 1..Len(es) /\ Len(es) \in Nat /\ Len(entries') \in Nat
    BY <1>2, <1>3, <1>4, <1>5, <1>9
  <2>3. CASE i = Len(es)
    BY <1>2, <1>3, <1>4, <1>9, <2>1, <2>2, <2>3
  <2>4. CASE i # Len(es)
    <3>1. i \in 1..Len(entries)
      BY <1>3, <1>4, <2>2, <2>4
    <3>2. entries'[k].n = recorded - Len(entries) + i
      BY <1>4, <1>6, <2>1, <3>1
    <3> QED
      BY <1>2, <1>3, <1>4, <2>2, <3>2
  <2> QED
    BY <2>3, <2>4
<1>10. DOMAIN entries' = 1..Len(entries')
  BY <1>2, <1>5
<1> QED
  BY <1>7, <1>8, <1>9, <1>10 DEF LogIsTheNewest

\* The monitor keeps the newest entries since the last Clear, in order
\* (apilog.go:43-52), however calls and clears alternate.
THEOREM TheLogIsTheNewest == Spec => []LogIsTheNewest
<1> DEFINE IInv == TypeInv /\ LogIsTheNewest
<1>1. Init => IInv
  <2> SUFFICES ASSUME Init PROVE LogIsTheNewest
    BY TypeInit
  <2> QED
    BY CallsAssumption DEF Init, LogIsTheNewest
<1>2. IInv /\ [Next]_vars => IInv'
  <2> SUFFICES ASSUME IInv, [Next]_vars PROVE LogIsTheNewest'
    BY TypeStep
  <2>1. CASE UNCHANGED logVars
    BY <2>1 DEF logVars, LogIsTheNewest
  <2>2. CASE Clear
    <3>1. entries' = <<>> /\ cleared' = recorded /\ recorded' = recorded /\ recorded \in Nat
      BY <2>2 DEF Clear, TypeInv, TypeOK
    <3> QED
      BY <3>1, CallsAssumption DEF LogIsTheNewest
  <2>3. CASE Records
    BY <2>3, RecordNewest
  <2> QED
    BY <2>1, <2>2, <2>3, LogMoves
<1>3. IInv => LogIsTheNewest
  OBVIOUS
<1> QED
  BY <1>1, <1>2, <1>3, PTL DEF Spec

\* What AnswersFollowRequests says, of any log, and of an entry put at its end.
Paired(e, f) == e.dir = "request" /\ e.run = f.run /\ e.id = f.id
Follows(es) == \A k \in 1..Len(es) : es[k].dir # "request" => k = 1 \/ Paired(es[k - 1], es[k])
Fits(es, e) == e.dir = "request" \/ es = <<>> \/ Paired(es[Len(es)], e)

LEMMA KeptFollow ==
  ASSUME NEW S, NEW log \in Seq(S), NEW e \in S, Follows(log), Fits(log, e)
  PROVE  LET kept == Keep(Append(log, e)) IN
         Follows(kept) /\ kept # <<>> /\ kept[Len(kept)] = e
<1> DEFINE es == Append(log, e)
           kept == Keep(es)
<1>1. /\ es \in Seq(S) /\ Len(es) = Len(log) + 1 /\ Len(log) \in Nat
      /\ es[Len(es)] = e /\ \A k \in 1..Len(log) : es[k] = log[k]
      /\ MaxEntries \in Nat \ {0}
  BY CallsAssumption
<1> HIDE DEF es
<1>2. /\ kept \in Seq(S)
      /\ Len(kept) = IF Len(es) > MaxEntries THEN MaxEntries ELSE Len(es)
      /\ \A k \in 1..Len(kept) : kept[k] = es[Len(es) - Len(kept) + k]
  BY <1>1, KeepType
<1> HIDE DEF kept
<1>3. kept # <<>> /\ kept[Len(kept)] = e
  <2>1. Len(kept) \in 1..Len(es) /\ Len(es) - Len(kept) + Len(kept) = Len(es)
    <3>1. Len(es) \in Nat \ {0} /\ MaxEntries \in Nat \ {0}
      BY <1>1
    <3>2. Len(kept) = IF Len(es) > MaxEntries THEN MaxEntries ELSE Len(es)
      BY <1>2
    <3> QED
      BY <3>1, <3>2
  <2>2. kept[Len(kept)] = es[Len(es)]
    <3>1. Len(kept) \in 1..Len(kept)
      BY <1>2, <2>1
    <3>2. kept[Len(kept)] = es[Len(es) - Len(kept) + Len(kept)]
      BY <1>2, <3>1
    <3> QED
      BY <2>1, <3>2
  <2> QED
    BY <1>1, <2>1, <2>2
<1>4. Follows(es)
  <2> SUFFICES ASSUME NEW k \in 1..Len(es), es[k].dir # "request", k # 1
               PROVE  Paired(es[k - 1], es[k])
    BY DEF Follows
  <2>1. CASE k = Len(es)
    <3>1. log # <<>> /\ es[k - 1] = log[Len(log)] /\ es[k] = e
      BY <1>1, <2>1
    <3> QED
      BY <3>1 DEF Fits
  <2>2. CASE k # Len(es)
    <3>1. k \in 1..Len(log) /\ k - 1 \in 1..Len(log)
      BY <1>1, <2>2
    <3> QED
      BY <1>1, <3>1 DEF Follows
  <2> QED
    BY <2>1, <2>2
<1>5. Follows(kept)
  <2> SUFFICES ASSUME NEW k \in 1..Len(kept), kept[k].dir # "request", k # 1
               PROVE  Paired(kept[k - 1], kept[k])
    BY DEF Follows
  <2> DEFINE i == Len(es) - Len(kept) + k
  <2>1. i \in 1..Len(es) /\ i # 1 /\ k - 1 \in 1..Len(kept) /\ Len(es) - Len(kept) + (k - 1) = i - 1
    BY <1>1, <1>2
  <2>2. kept[k] = es[i] /\ kept[k - 1] = es[i - 1]
    BY <1>2, <2>1
  <2> QED
    BY <1>4, <2>1, <2>2 DEF Follows
<1> QED
  BY <1>3, <1>5 DEF kept, es

\* While a call is on its way nothing but its request is at the end of the log.
AnswerInv ==
  /\ TypeInv /\ Follows(entries)
  /\ stage \in Calling /\ entries # <<>> => Paired(entries[Len(entries)], [run |-> run, id |-> nextID])

LEMMA RecordAnswer ==
  ASSUME AnswerInv, NEW dir, NEW id, Record(dir, id),
         dir = "request" \/ (stage \in Calling /\ id = nextID)
  PROVE  /\ Follows(entries')
         /\ dir = "request" => Paired(entries'[Len(entries')], [run |-> run, id |-> id])
<1> DEFINE entry == [n |-> recorded + 1, dir |-> dir, run |-> run, id |-> id]
<1>1. entries' = Keep(Append(entries, entry)) /\ entry.dir = dir /\ entry.run = run /\ entry.id = id
  BY DEF Record
<1>2. entries \in Seq(Entry \cup {entry})
  BY DEF AnswerInv, TypeInv, TypeOK
<1>3. Fits(entries, entry)
  <2>1. CASE dir = "request"
    BY <1>1, <2>1 DEF Fits
  <2>2. CASE stage \in Calling /\ id = nextID
    BY <1>1, <2>2 DEF AnswerInv, Fits, Paired
  <2> QED
    BY <2>1, <2>2
<1> HIDE DEF entry
<1>4. Follows(entries') /\ entries'[Len(entries')] = entry
  BY <1>1, <1>2, <1>3, KeptFollow DEF AnswerInv
<1> QED
  BY <1>1, <1>4 DEF Paired

LEMMA AnswerStep == AnswerInv /\ [Next]_vars => AnswerInv'
<1> SUFFICES ASSUME AnswerInv, [Next]_vars PROVE AnswerInv'
  OBVIOUS
<1>1. TypeInv'
  BY TypeStep DEF AnswerInv
<1>2. CASE Call
  <2>1. run' = run /\ nextID' = nextID + 1
    BY <1>2 DEF Call
  <2>2. CASE stage' = "ready" /\ UNCHANGED logVars
    BY <1>1, <2>2 DEF AnswerInv, Calling, logVars
  <2>3. CASE Record("request", nextID + 1)
    BY <1>1, <2>1, <2>3, RecordAnswer DEF AnswerInv
  <2> QED
    BY <1>2, <2>2, <2>3 DEF Call
<1>3. CASE GiveUp
  <2>1. Record("error", nextID) /\ stage \in Calling /\ stage' = "ready"
    BY <1>3 DEF GiveUp
  <2> QED
    BY <1>1, <2>1, RecordAnswer DEF AnswerInv, Calling
<1>4. CASE Receive
  <2>1. stage \in Calling /\ stage' = "ready"
    BY <1>4 DEF Receive, Calling
  <2>2. CASE UNCHANGED logVars
    BY <1>1, <2>1, <2>2 DEF AnswerInv, Calling, logVars
  <2>3. ASSUME NEW dir, Record(dir, nextID) PROVE AnswerInv'
    BY <1>1, <2>1, <2>3, RecordAnswer DEF AnswerInv, Calling
  <2> QED
    BY <1>4, <2>2, <2>3 DEF Receive
<1>5. CASE Clear
  BY <1>1, <1>5 DEF Clear, AnswerInv, Follows
<1>6. CASE (\E e \in Envs : Begin(e)) \/ Connect \/ Disconnect
  <2>1. UNCHANGED entries /\ stage' \notin Calling
    BY <1>6 DEF Begin, Connect, ConnectSSH, CreateDevice, ConfigureDevice, Disconnect, logVars,
      Calling
  <2> QED
    BY <1>1, <2>1 DEF AnswerInv
<1>7. CASE Sends \/ Arrive \/ Ends \/ Noticed \/ UNCHANGED vars
  <2>1. UNCHANGED <<entries, run, nextID>> /\ (stage' \in Calling => stage \in Calling)
    BY <1>7 DEF Sends, Reuse, Dial, Retry, Arrive, Ends, Noticed, vars, logVars, Calling
  <2> QED
    BY <1>1, <2>1 DEF AnswerInv
<1> QED
  BY <1>2, <1>3, <1>4, <1>5, <1>6, <1>7 DEF Next, Over

\* An answer or an error stands right after the request it belongs to
\* (client.go:97-132), whatever was cleared or dropped meanwhile.
THEOREM AnswersAreInOrder == Spec => []AnswersFollowRequests
<1>1. Init => AnswerInv
  <2> SUFFICES ASSUME Init PROVE AnswerInv
    OBVIOUS
  <2>1. entries = <<>> /\ TypeInv
    BY TypeInit DEF Init
  <2> QED
    BY <2>1 DEF AnswerInv, Follows
<1>2. AnswerInv => AnswersFollowRequests
  <2> SUFFICES ASSUME AnswerInv PROVE AnswersFollowRequests
    OBVIOUS
  <2>1. entries \in Seq(Entry)
    BY DEF AnswerInv, TypeInv, TypeOK
  <2>2. DOMAIN entries = 1..Len(entries)
    BY <2>1
  <2> QED
    BY <2>2 DEF AnswerInv, AnswersFollowRequests, Follows, Paired
<1> QED
  BY <1>1, <1>2, AnswerStep, PTL DEF Spec

-----------------------------------------------------------------------------
(* Connections and tunnels *)

\* What a tunnel carries lives no longer than its run.
WireInv ==
  /\ link => stage \in Up
  /\ device => stage \in Up \cup {"device"}
  /\ \A c \in idle : c.alive /\ c.via # 0 => c.via = run /\ stage \in Up
  /\ stage \in {"sent", "arrived"} /\ conn.alive /\ conn.via # 0 => conn.via = run

\* Use, death and the end of a run change nothing else about a connection, and
\* none of them brings a dead one to life.
LEMMA SameConn ==
  ASSUME NEW c \in Conn
  PROVE  /\ LET d == [c EXCEPT !.used = TRUE] IN
              d.pool = c.pool /\ d.at = c.at /\ d.host = c.host /\ d.via = c.via /\ d.alive = c.alive
         /\ ~[c EXCEPT !.alive = FALSE].alive
         /\ \A r : LET d == Carries(r, c) IN
              /\ d.pool = c.pool /\ d.at = c.at /\ d.host = c.host /\ d.via = c.via
              /\ d.alive => c.alive /\ c.via # r
BY DEF Conn, Carries

LEMMA WireStep == TypeInv /\ WireInv /\ [Next]_vars => WireInv'
<1> SUFFICES ASSUME TypeInv, WireInv, [Next]_vars PROVE WireInv'
  OBVIOUS
<1> USE DEF WireInv, Up, Calling
<1>1. idle \subseteq Conn /\ link \in BOOLEAN /\ device \in BOOLEAN
  BY DEF TypeInv, TypeOK
<1>2. ASSUME NEW e \in Envs, Begin(e) PROVE WireInv'
  BY <1>2 DEF Begin, tunnelVars
<1>3. CASE Connect
  BY <1>3 DEF Connect, ConnectSSH, CreateDevice, ConfigureDevice
<1>4. CASE Disconnect
  <2>1. ASSUME NEW d \in idle', d.alive, d.via # 0 PROVE FALSE
    <3>1. PICK c \in idle : d = Carries(run, c)
      BY <1>4, <2>1 DEF Disconnect
    <3>2. c \in Conn
      BY <1>1, <3>1
    <3>3. d.via = c.via /\ c.alive /\ c.via # run
      BY <2>1, <3>1, <3>2, SameConn
    <3> QED
      BY <2>1, <3>1, <3>3
  <2> QED
    BY <1>4, <2>1 DEF Disconnect
<1>5. CASE Call
  BY <1>5 DEF Call, tunnelVars
<1>6. ASSUME NEW c \in Usable, Reuse(c) PROVE WireInv'
  BY <1>6 DEF Reuse, Usable, tunnelVars
<1>7. CASE Dial
  <2>1. Dialled.via \in {0, run}
    BY DEF Dialled
  <2> QED
    BY <1>7, <2>1 DEF Dial, tunnelVars
<1>8. CASE Retry \/ Arrive \/ GiveUp \/ Clear
  BY <1>8 DEF Retry, Arrive, GiveUp, Clear, tunnelVars
<1>9. CASE Receive
  <2> DEFINE d == [conn EXCEPT !.used = TRUE]
  <2>1. conn \in Conn
    BY <1>9 DEF Receive, TypeInv, TypeOK
  <2>2. d.via = conn.via /\ d.alive = conn.alive
    BY <2>1, SameConn
  <2> HIDE DEF d
  <2>3. idle' \in {idle, idle \cup {d}} /\ stage = "arrived" /\ stage' = "ready" /\ UNCHANGED <<run, link, device>>
    BY <1>9 DEF Receive, tunnelVars, d
  <2> QED
    BY <2>2, <2>3
<1>10. CASE Ends
  <2>1. ASSUME conn.alive, conn' = [conn EXCEPT !.alive = FALSE],
               UNCHANGED <<run, env, stage, tunnelVars, idle, nextID, got, logVars>>
        PROVE  WireInv'
    <3>1. conn \in Conn
      BY <2>1 DEF TypeInv, TypeOK, NoConn
    <3>2. ~conn'.alive
      BY <2>1, <3>1, SameConn
    <3> QED
      BY <2>1, <3>2 DEF tunnelVars
  <2>2. ASSUME NEW c \in idle, idle' = (idle \ {c}) \cup {[c EXCEPT !.alive = FALSE]},
               UNCHANGED <<run, env, stage, tunnelVars, conn, nextID, got, logVars>>
        PROVE  WireInv'
    <3>1. ~[c EXCEPT !.alive = FALSE].alive
      BY <1>1, SameConn
    <3>2. \A d \in idle' : d \in idle \/ ~d.alive
      BY <2>2, <3>1
    <3> QED
      BY <2>2, <3>2 DEF tunnelVars
  <2> QED
    BY <1>10, <2>1, <2>2 DEF Ends
<1>11. CASE Noticed
  BY <1>11 DEF Noticed, tunnelVars
<1>12. CASE UNCHANGED vars
  BY <1>12 DEF vars, tunnelVars
<1> QED
  BY <1>2, <1>3, <1>4, <1>5, <1>6, <1>7, <1>8, <1>9, <1>10, <1>11, <1>12 DEF Next, Sends, Over

LEMMA WireInit == Init => WireInv
BY DEF Init, WireInv

\* Between runs no listener, no WireGuard device and no live connection through a
\* tunnel is left, at whatever step the last Connect failed.
THEOREM NothingIsLeftUp == Spec => []NothingLeftUp
<1> DEFINE IInv == TypeInv /\ WireInv
<1>1. Init => IInv
  BY TypeInit, WireInit
<1>2. IInv /\ [Next]_vars => IInv'
  BY TypeStep, WireStep
<1>3. IInv => NothingLeftUp
  BY DEF WireInv, NothingLeftUp, Up, Calling
<1> QED
  BY <1>1, <1>2, <1>3, PTL DEF Spec

\* Where a live connection leads to.
Leads(c) ==
  c.alive => /\ c.via = 0 => c.pool = 0 /\ Plain(c.at) /\ c.host = Direct[c.at]
             /\ c.via # 0 => c.host = env.host

\* Of the connections that are kept, those through a tunnel are of this run; the
\* others belong to the default transport and lead where their address says.
HostInv ==
  /\ stage = "device" => env.tunnel = "wireguard"
  /\ stage \in Up => (link <=> env.tunnel = "ssh")
  /\ \A c \in idle : Leads(c)
  /\ stage \in {"sent", "arrived"} => Leads(conn) /\ conn.at = env.at /\ conn.pool = Pool
  /\ \A k \in DOMAIN got : got[k].host = env.host

LEMMA HostInit == Init => HostInv
BY DEF Init, HostInv, Up, Calling

\* A connection that is dialled leads to the server of the environment.
LEMMA DialledLeads ==
  ASSUME TypeInv, HostInv, EnvsAgree, stage = "send"
  PROVE  Leads(Dialled) /\ Dialled.at = env.at /\ Dialled.pool = Pool
<1>1. /\ env \in Envs /\ run \in 1..MaxRuns /\ env.tunnel \in {"none", "ssh", "wireguard"}
      /\ link <=> env.tunnel = "ssh"
  BY CallsAssumption DEF TypeInv, TypeOK, HostInv, Up, Calling
<1>2. CASE env.tunnel = "wireguard"
  BY <1>1, <1>2 DEF Dialled, Leads
<1>3. CASE env.tunnel = "ssh"
  <2>1. env.at = env.listen
    BY <1>1, <1>3 DEF EnvsAgree
  <2> QED
    BY <1>1, <1>3, <2>1 DEF Dialled, Leads
<1>4. CASE env.tunnel = "none"
  <2>1. Plain(env.at) /\ Pool = 0 /\ ~link
    BY <1>1, <1>4 DEF Plain, Pool
  <2> QED
    BY <1>4, <2>1 DEF Dialled, Leads
<1> QED
  BY <1>1, <1>2, <1>3, <1>4

\* A connection taken from the pool that works leads there as well.
LEMMA InUseLeads ==
  ASSUME TypeInv, HostInv, EnvsAgree, stage \in {"sent", "arrived"}, conn.alive
  PROVE  conn.host = env.host
<1>1. /\ env \in Envs /\ run \in 1..MaxRuns /\ env.tunnel \in {"none", "ssh", "wireguard"}
      /\ Leads(conn) /\ conn.at = env.at /\ conn.pool = Pool
  BY CallsAssumption DEF TypeInv, TypeOK, HostInv
<1>2. CASE conn.via # 0
  BY <1>1, <1>2 DEF Leads
<1>3. CASE conn.via = 0
  <2>1. Pool = 0 /\ Plain(env.at) /\ conn.host = Direct[env.at]
    BY <1>1, <1>3 DEF Leads
  <2>2. env.tunnel = "none"
    BY <1>1, <2>1 DEF Pool, EnvsAgree
  <2> QED
    BY <1>1, <2>1, <2>2 DEF EnvsAgree
<1> QED
  BY <1>2, <1>3

LEMMA HostStep == TypeInv /\ WireInv /\ HostInv /\ EnvsAgree /\ [Next]_vars => HostInv'
<1> SUFFICES ASSUME TypeInv, WireInv, HostInv, EnvsAgree, [Next]_vars PROVE HostInv'
  OBVIOUS
<1> USE DEF HostInv, Up, Calling
<1>1. idle \subseteq Conn /\ link \in BOOLEAN /\ MaxRuns \in Nat
  BY CallsAssumption DEF TypeInv, TypeOK
<1>2. ASSUME NEW e \in Envs, Begin(e) PROVE HostInv'
  <2>1. \A c \in idle : c.alive => c.via = 0
    BY <1>2 DEF Begin, WireInv
  <2>2. \A c \in idle : Leads(c)'
    BY <2>1 DEF Leads
  <2>3. got' = <<>> /\ DOMAIN got' = {}
    BY <1>2 DEF Begin
  <2>4. stage' \notin Up \/ (stage' = "ready" /\ e.tunnel = "none" /\ env' = e /\ ~link')
    BY <1>1, <1>2 DEF Begin, WireInv, tunnelVars
  <2> QED
    BY <1>2, <2>2, <2>3, <2>4 DEF Begin
<1>3. CASE Connect
  <2>1. stage' \in {"ready", "device", "idle"} /\ UNCHANGED <<env, idle, got>>
    BY <1>3 DEF Connect, ConnectSSH, CreateDevice, ConfigureDevice
  <2>2. /\ stage' \in Up => (link' <=> env.tunnel = "ssh")
        /\ stage' = "device" => env.tunnel = "wireguard"
    <3>1. CASE ConnectSSH
      BY <3>1 DEF ConnectSSH
    <3>2. CASE CreateDevice
      BY <3>2 DEF CreateDevice
    <3>3. CASE ConfigureDevice
      BY <1>1, <3>3 DEF ConfigureDevice, WireInv
    <3> QED
      BY <1>3, <3>1, <3>2, <3>3 DEF Connect
  <2> QED
    BY <2>1, <2>2 DEF Leads
<1>4. CASE Disconnect
  <2>1. ASSUME NEW d \in idle' PROVE Leads(d)
    <3>1. PICK c \in idle : d = Carries(run, c)
      BY <1>4, <2>1 DEF Disconnect
    <3>2. c \in Conn
      BY <1>1, <3>1
    <3> QED
      BY <3>1, <3>2, SameConn DEF Leads
  <2>2. UNCHANGED <<env, got>> /\ stage' = "idle"
    BY <1>4 DEF Disconnect
  <2> QED
    BY <2>1, <2>2 DEF Leads
<1>5. CASE Call
  BY <1>5 DEF Call, tunnelVars, Leads
<1>6. ASSUME NEW c \in Usable, Reuse(c) PROVE HostInv'
  <2>1. c \in idle /\ c.at = env.at /\ c.pool = Pool
    BY DEF Usable
  <2>2. UNCHANGED <<env, run, link, got>> /\ stage = "send" /\ stage' = "sent"
        /\ conn' = c /\ idle' = idle \ {c}
    BY <1>6 DEF Reuse, tunnelVars
  <2>3. Pool' = Pool
    BY <2>2 DEF Pool
  <2> QED
    BY <2>1, <2>2, <2>3 DEF Leads
<1>7. CASE Dial
  <2>1. UNCHANGED <<env, run, link, idle, got>> /\ stage = "send" /\ stage' = "sent" /\ conn' = Dialled
    BY <1>7 DEF Dial, tunnelVars
  <2>2. Leads(Dialled) /\ Dialled.at = env.at /\ Dialled.pool = Pool
    BY <2>1, DialledLeads
  <2>3. Pool' = Pool
    BY <2>1 DEF Pool
  <2> HIDE DEF HostInv
  <2>4. Leads(conn)' /\ \A c \in idle' : Leads(c)'
    BY <2>1, <2>2 DEF Leads, HostInv
  <2> QED
    BY <2>1, <2>2, <2>3, <2>4 DEF HostInv
<1>8. CASE Retry \/ GiveUp \/ Clear
  <2>1. /\ UNCHANGED <<env, run, link, idle, got>>
        /\ \/ stage' \in {"ready", "send"} /\ stage \in Up
           \/ UNCHANGED <<stage, conn>>
    BY <1>8 DEF Retry, GiveUp, Clear, tunnelVars
  <2> QED
    BY <2>1 DEF Leads, Pool
<1>9. CASE Arrive
  <2>1. conn.host = env.host
    BY <1>9, InUseLeads DEF Arrive
  <2>2. got' = Append(got, [host |-> conn.host, via |-> conn.via])
        /\ UNCHANGED <<env, run, link, idle, conn>> /\ stage = "sent" /\ stage' = "arrived"
    BY <1>9 DEF Arrive, tunnelVars
  <2>3. \A k \in DOMAIN got' : got'[k].host = env.host
    BY <2>1, <2>2 DEF TypeInv, TypeOK
  <2> QED
    BY <2>2, <2>3 DEF Leads, Pool
<1>10. CASE Receive
  <2> DEFINE d == [conn EXCEPT !.used = TRUE]
  <2>1. conn \in Conn /\ Leads(conn)
    BY <1>10 DEF Receive, TypeInv, TypeOK
  <2>2. Leads(d)
    BY <2>1, SameConn DEF Leads
  <2> HIDE DEF d
  <2>3. idle' \in {idle, idle \cup {d}} /\ stage = "arrived" /\ stage' = "ready"
        /\ UNCHANGED <<env, run, link, got>>
    BY <1>10 DEF Receive, tunnelVars, d
  <2> QED
    BY <2>2, <2>3 DEF Leads
<1>11. CASE Ends
  <2>1. ASSUME conn.alive, conn' = [conn EXCEPT !.alive = FALSE],
               UNCHANGED <<run, env, stage, tunnelVars, idle, nextID, got, logVars>>
        PROVE  HostInv'
    <3>1. conn \in Conn
      BY <2>1 DEF TypeInv, TypeOK, NoConn
    <3>2. ~conn'.alive /\ conn'.at = conn.at /\ conn'.pool = conn.pool
      BY <2>1, <3>1 DEF Conn
    <3> QED
      BY <2>1, <3>2 DEF tunnelVars, Leads, Pool
  <2>2. ASSUME NEW c \in idle, idle' = (idle \ {c}) \cup {[c EXCEPT !.alive = FALSE]},
               UNCHANGED <<run, env, stage, tunnelVars, conn, nextID, got, logVars>>
        PROVE  HostInv'
    <3>1. ~[c EXCEPT !.alive = FALSE].alive
      BY <1>1, SameConn
    <3>2. \A d \in idle' : d \in idle \/ ~d.alive
      BY <2>2, <3>1
    <3> QED
      BY <2>2, <3>2 DEF tunnelVars, Leads, Pool
  <2> QED
    BY <1>11, <2>1, <2>2 DEF Ends
<1>12. CASE Noticed \/ UNCHANGED vars
  <2>1. UNCHANGED <<run, env, stage, link, conn, got>> /\ idle' \subseteq idle
    BY <1>12 DEF Noticed, vars, tunnelVars
  <2> QED
    BY <2>1 DEF Leads, Pool
<1> QED
  BY <1>2, <1>3, <1>4, <1>5, <1>6, <1>7, <1>8, <1>9, <1>10, <1>11, <1>12 DEF Next, Sends, Over

\* Where the environments agree with their tunnels, a request arrives at the
\* server of its own environment, whatever connections earlier runs have left in
\* the transport they share.
THEOREM RequestsReachTheirHost == Spec => []ReachesItsOwnHost
<1> DEFINE IInv == TypeInv /\ WireInv /\ (EnvsAgree => HostInv)
<1>1. Init => IInv
  BY TypeInit, WireInit, HostInit
<1>2. IInv /\ [Next]_vars => IInv'
  BY TypeStep, WireStep, HostStep DEF EnvsAgree, Plain
<1>3. IInv => ReachesItsOwnHost
  BY DEF HostInv, ReachesItsOwnHost
<1> QED
  BY <1>1, <1>2, <1>3, PTL DEF Spec

\* A connection that works and was made for an environment with a tunnel goes
\* through the tunnel of the current run.
LEMMA InUseIsCarried ==
  ASSUME TypeInv, WireInv, HostInv, EnvsAgree, stage \in {"sent", "arrived"}, conn.alive,
         env.tunnel # "none"
  PROVE  conn.via = run
<1>1. /\ env \in Envs /\ run \in 1..MaxRuns /\ env.tunnel \in {"ssh", "wireguard"}
      /\ Leads(conn) /\ conn.at = env.at /\ conn.pool = Pool
  BY CallsAssumption DEF TypeInv, TypeOK, HostInv
<1>2. conn.via # 0
  <2>1. SUFFICES ASSUME conn.via = 0 PROVE FALSE
    OBVIOUS
  <2>2. Pool = 0 /\ Plain(env.at)
    BY <1>1, <2>1 DEF Leads
  <2> QED
    BY <1>1, <2>2 DEF Pool, EnvsAgree
<1> QED
  BY <1>2 DEF WireInv

LEMMA CarriedStep ==
  TypeInv /\ WireInv /\ HostInv /\ EnvsAgree /\ ThroughTheTunnel /\ [Next]_vars => ThroughTheTunnel'
<1> SUFFICES ASSUME TypeInv, WireInv, HostInv, EnvsAgree, ThroughTheTunnel, [Next]_vars
             PROVE  ThroughTheTunnel'
  OBVIOUS
<1>1. CASE got' = <<>>
  BY <1>1 DEF ThroughTheTunnel
<1>2. CASE UNCHANGED <<run, env, got>>
  BY <1>2 DEF ThroughTheTunnel
<1>3. CASE Arrive
  <2>1. env.tunnel # "none" => conn.via = run
    BY <1>3, InUseIsCarried DEF Arrive
  <2>2. got' = Append(got, [host |-> conn.host, via |-> conn.via]) /\ UNCHANGED <<env, run>>
    BY <1>3 DEF Arrive
  <2> QED
    BY <2>1, <2>2 DEF ThroughTheTunnel, TypeInv, TypeOK
<1>4. (\E e \in Envs : Begin(e)) \/ Call => got' = <<>>
  BY DEF Begin, Call
<1>5. Connect \/ Disconnect \/ (\E c \in Usable : Reuse(c)) \/ Dial \/ Retry \/ GiveUp \/ Receive
        \/ Clear \/ Ends \/ Noticed \/ UNCHANGED vars => UNCHANGED <<run, env, got>>
  BY DEF Connect, ConnectSSH, CreateDevice, ConfigureDevice, Disconnect, Reuse, Dial, Retry,
    GiveUp, Receive, Clear, Ends, Noticed, vars
<1> QED
  BY <1>1, <1>2, <1>3, <1>4, <1>5 DEF Next, Sends, Over

\* What ssh.go:25 says of the client is so where config.yaml makes the addresses
\* agree: every request of a run with a tunnel goes through the tunnel of that
\* very run, not through one that an earlier run has left in the transport.
THEOREM TunnelsCarryTheirRuns == Spec => [](EnvsAgree => ThroughTheTunnel)
<1> DEFINE IInv == TypeInv /\ WireInv /\ (EnvsAgree => HostInv /\ ThroughTheTunnel)
<1>1. Init => IInv
  BY TypeInit, WireInit, HostInit DEF Init, ThroughTheTunnel
<1>2. IInv /\ [Next]_vars => IInv'
  BY TypeStep, WireStep, HostStep, CarriedStep DEF EnvsAgree, Plain
<1>3. IInv => (EnvsAgree => ThroughTheTunnel)
  OBVIOUS
<1> QED
  BY <1>1, <1>2, <1>3, PTL DEF Spec
=============================================================================
