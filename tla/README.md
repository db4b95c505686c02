# tcl-script-runner in TLA+

A TLA+ model of tcl-script-runner, the web app that runs a TCL batch script
against remote BECS environments one after the other, with TLC runs over small
instances and TLAPS proofs for every size. Paths below are relative to `src/`.

## 1. The system

### Components

| component | state | operations |
|---|---|---|
| **Runner** `internal/runner/runner.go` | `busy` under a mutex; per call of `RunJob`: the names still to serve, the `*Job`, the `*Environment` and the `Run` in progress | `IsBusy`, `RunJob`, `executeRun`, `buildTunnel`, `fetchOutput`, `fail` |
| **Job files** `internal/runner/job.go` | `jobs/<id>.json`, one per job | `NewJob`, `Save` (temp file, rename), `LoadJob`, `ListJobs` |
| **Config** `internal/config/config.go` | the `Environments` slice in memory, `config.yaml` | `Load`, `Save`, `FindByName` (returns a pointer into the slice), `Add`, `Update`, `Remove` |
| **Credentials** `internal/config/crypto.go` | none | `Encrypt`, `Decrypt` |
| **BECS client** `internal/becs/{client,batch,file}.go` | session id, request id | `Login`, `Logout`, `BatchRun`, `BatchInfoGet`, `Poll`, `FileRead`, `BatchList` (no caller) |
| **Recorder** `internal/becs/apilog.go` | ring buffer of 300 entries under a mutex | `Record`, `Entries`, `Clear` |
| **SSH tunnel** `internal/tunnel/ssh.go` | the SSH clients, the local listener, a goroutine that accepts and one per connection | `Connect`, `Disconnect`, `forward`, `handleConn` |
| **WireGuard tunnel** `internal/tunnel/wireguard.go` | device and user-space network stack | `Connect`, `Disconnect`, `Dialer` |
| **Web** `internal/web/*.go` | none of its own | pages, environment CRUD, `POST /run`, `/status`, API monitor |
| **Program start** `cmd/main.go` | - | `config.Load`, then serve |
| *BECS server* (not in the repository) | sessions and batches | answers the client |

### How they interact

`net/http` serves every request in a goroutine of its own. `POST /run` asks
`IsBusy`, then calls `RunJob`, which asks again under the mutex and then works
*in that goroutine* for as long as the job takes, minutes or hours. All this time
the other handlers go on. They share with it, without any lock, the `*Config`
that both `Runner` and `App` hold: `RunJob` keeps the pointer of `FindByName`
while `Add`, `Update` and `Remove` rewrite the memory it points into. `RunJob`
and the pages meet a second time in `jobs/`: the job is saved when it begins,
after every name and when it ends, and the pages read those files. All runs
without a tunnel or through SSH share one HTTP transport, `http.DefaultTransport`, and
with it the connections it keeps by address; SSH tunnels are reached at an address of
127.0.0.1, so one run may find what another has left there. Every call writes to the
recorder, which the API monitor reads and clears at any time. The only state that
survives the process is `config.yaml`, `jobs/` and what the BECS
servers hold.

### What is hard here, and the properties that make each part correct

* *Runner*: two `POST /run` between the test and the lock; every way out of
  `executeRun` must undo, in the right order, exactly what was done (tunnel, then
  session); an RPC that fails may have been executed; a save may fail; the process
  may die anywhere. Correct when jobs are serial, no tunnel and no session is
  leaked, a recorded outcome is one the server reached, the file of a job is a
  version the job had, and every request is answered.
* *Config*: names are unique, a pointer held by a job never leads nowhere and should
  not change its meaning, an edit changes what it names and nothing else, memory and
  file agree after an edit that was answered. Without a lock only the second of these
  holds when handlers overlap; of the others one must know which steps break them.
* *Job files*: a save is atomic whatever fails in it and wherever the process dies; a
  list misses no job although it is read file by file; a link shown once works, and shows
  no less than it did, until a job begun in the same millisecond takes over the id.
* *BECS client*: a request reaches the server of its own environment, through its own
  tunnel, whatever connections earlier runs have left.
* *SSH tunnel*: `Disconnect` closes what its goroutines are using; no goroutine
  outlives the tunnel or reads a field that has been cleared.
* *WireGuard tunnel*: a `Connect` that fails leaves no device.
* *Recorder*: at most 300 entries, the newest, in order, answers with their requests.

`PROJECT.json` lists under "hazards" where in the code each of these bites.

## 2. The modules

| module | models | from |
|---|---|---|
| `EnvSlice` | the environments slice as Go lays it out: backing arrays that outlive the slice header, `FindByName`'s pointer into them, and what `Add`, `Update`, `Remove` do to that memory. Pure operators, used by the next two. | `config.go` |
| `Runner` | the core: callers, `RunJob`, `executeRun`, the job files, edits of the configuration, the BECS servers, crash and restart | `runner.go`, `job.go`, `handlers.go`, `batch.go`, `client.go` |
| `JobLog` | the abstract promise of the job log; `Runner` implements it | - |
| `ConfigStore` | the handlers that edit the environments, call by call, on their own or overlapping | `handlers.go`, `config.go` |
| `EnvStore` | the abstract promise of the environment pages; `ConfigStore` implements it as long as handlers do not overlap | - |
| `SSHTunnel` | one tunnel: its owner, `forward`, `handleConn` and the copiers | `ssh.go` |
| `Tunnel` | the abstract promise of a tunnel; `SSHTunnel` implements it | `tunnel.go` |
| `JobFiles` | `Save` call by call, and the pages that read `jobs/` meanwhile | `job.go`, `handlers.go` |
| `JobStore` | the abstract promise of the directory; `JobFiles` implements it | - |
| `Calls` | the calls of successive runs: client, transport and its kept connections, tunnels (WireGuard's `Connect` in steps), recorder | `client.go`, `apilog.go`, `wireguard.go`, `runner.go` |
| `MCRunner`, `MCConfigStore`, `MCSSHTunnel`, `MCJobFiles`, `MCCalls` | values of the constants for TLC | - |
| `EnvSliceProofs` | lemmas about `EnvSlice` | - |
| `RunnerProofs`, `RunnerSafetyProofs`, `RunnerDataProofs` | the theorems about `Runner`: types and serial execution; tunnels, sessions and the log; outcomes, one environment per run, one batch at a time | - |
| `ConfigStoreProofs`, `SSHTunnelProofs`, `JobFilesProofs`, `CallsProofs` | the theorems about the module each is named after | - |

`Runner` takes `Connect` and `Disconnect` as one step each, and so it takes a save of a
job and an RPC; `SSHTunnel`, `JobFiles` and `Calls` open these steps. An edit of the
environments is opened in `Runner` itself, statement by statement, because it meets the
pointer of a run; `ConfigStore` has the same statements with what `Runner` leaves out,
passwords and answers. The modules are not composed in one state space. What
`Runner` needs from the others is that a `Connect` that fails leaves nothing
behind and a `Disconnect` leaves nothing up (`NothingLeftOpen`, `NothingLeftUp`), that a
save is one step that happens or does not (`KeepsTheStore` of `JobFiles`), and that an RPC
arrives at the run's own server (`ReachesItsOwnHost`). That it arrives there at most once
and that it ends (the 20 s of client.go:37) is net/http's part and assumed: the repository
has no retry of its own. They in turn take from `Runner` that jobs are serial. `Calls` takes an SSH tunnel for what `Tunnel` says of it: in its
`Disconnect` all connections of the run are cut in one step, as `Tunnel!Disconnect` does
and `SSHTunnel` is shown to do (`IsATunnel`). The crash of the
process that `SSHTunnel` finds is among `Runner`'s crashes, which may come anywhere.

### Runner: state and actions against the code

`Callers` are the goroutines of `POST /run`; `pc[c]` says where one is.

| place | the code at that place | actions |
|---|---|---|
| `idle` | no request | `Arrive` (handlers.go:356-384 up to the call) |
| `checked` | between `IsBusy` and the mutex of `RunJob` | `TurnAway`, `Enter` |
| `new` | `NewJob` and the first `Save` | `NewJob` |
| `next` | the head of the loop | `NotFound`, `Found`, `Finish` |
| `found` | `FindByName` has returned a pointer | `Skip`, `Start` |
| `build`, `connect` | `buildTunnel`, `Tunnel.Connect` | `Build`, `Connect` |
| `login`, `batchRun`, `poll`, `fetch` | the RPCs | `Login`, `BatchRun`, `Poll`, `Fetch` |
| `logout`, `disconnect` | the two deferred calls, last deferred first | `Logout`, `Disconnect` |
| `record` | `executeRun` has returned | `Record` |
| `release` | the deferred `busy = false`, then the redirect | `Release` |

`job[c]` is the `Job` in memory, `disk` the files; every action whose code saves
the job does so in the same step, with both outcomes (`SaveJob`). `run[c]` is the
`Run` being made; it keeps besides its fields whose name it took (`env`) and whose
host it addressed (`at`), because these are two reads through the same pointer at
two moments. `ptr[c]` is that pointer, an array and an index of `EnvSlice`.
`servers[i]` is the session and the batch that the server of the `i`-th run holds.

*Calls that fail.* Every RPC, `Connect`, `Decrypt` and save may fail. A failed
RPC was refused, or the client gave it up (20 s, client.go:37) while the server
executed it, executes it later or never: the request goes to `late`, from where
`ExecuteLate` may take it at any time or never. `lost` is a history variable: the
runs whose login or logout went that way.

*Crash.* `Crash` takes all memory, keeps `disk`, `cfgFile` and `servers`, and
restarts with what `config.yaml` holds, as `main` does; a call that was on its way
may still arrive. It doubles as a clean stop: `main` has no shutdown handler.

*Abstracted.* Script, variables, output, times other than the id, and wording. A
poll that finds the batch running changes nothing and is no step. Which file
`fetchOutput` takes and `lastlog` when that fails do not change the status.

*Edits.* `Editors` are the goroutines of the environment pages; `task[e]` says where one is
and what it holds. Any two may overlap, with each other and with a job.

| place | what comes next in the code | actions |
|---|---|---|
| `idle` | a request (routes.go:10-13) with its searches (config.go:200, 210-217, 225) | `CreateEnvironment`, `UpdateEnvironment`, `DeleteEnvironment` |
| `append`, `store`, `shift` | the one statement that changes the slice (config.go:203, 219, 229) | `AppendEnv`, `StoreEnv`, `ShiftEnvs`, or `Panics` when the index is past the end by now |
| `marshal`, `rename` | `Save`: `yaml.Marshal` of what memory shows; the file | `Marshal`, `Rename` |

### ConfigStore: state and actions against the code

`Handlers` are the goroutines of the environment pages. `envs` is the memory of
`EnvSlice`, `cfgFile` what `config.yaml` holds, and each handler has the local
variables of the code: the pointer `existing`, the `env` it is about to put in, the
index `idx` that `Update` or `Remove` found, the bytes `snap` of `yaml.Marshal`.

| place | what comes next in the code | actions |
|---|---|---|
| `idle` | a request (routes.go) | `BeginCreate`, `BeginUpdate`, `BeginDelete` (with its search, config.go:225) |
| `fill` | blank credentials are read through `existing` (handlers.go:224) | `Fill` |
| `add`, `append` | the search of `Add`; the append (config.go:200, 203) | `CheckAdd`, `AppendEnv` |
| `update`, `store` | the searches of `Update`; the assignment (config.go:210, 219) | `CheckUpdate`, `StoreEnv` |
| `shift` | the shift of `Remove` (config.go:229) | `ShiftEnvs` |
| `marshal`, `rename` | `Save`: the snapshot; the temporary file that takes the file's place, or fails; the answer | `Marshal`, `Rename` |

An index that has come to lie past the end of the slice panics, in that request alone.
`Restart` may come anywhere. The grain is one call or statement that reads or writes
the slice. There is no lock, so the code's interleavings are finer still (a search
that meets a shift, the words of a slice header). Hence the division: what
overlapping handlers are *shown* to do, they do (the two violations); what *never*
happens is claimed for requests that do not overlap (`overlapping` is FALSE), where
the grain does not matter. Three properties are about overlapping handlers as well, at this
grain: `TypeOK`, which says that pointers stay in their arrays (of an index it says
nothing), `OnlyMovesMislead` and `OnlyOvertakenDuplicate`. The last two name the step after
which something is wrong, so a finer grain may show other ways into the same state.

### SSHTunnel: state and actions against the code

`owner` is the goroutine of `executeRun`, in `Connect` at one of its failure points
(`auth`, `dial`, ..., `listen`), outside (`up`) or between two statements of
`Disconnect`. `fields` are the fields of `SSH` that are not nil and `open` the
sockets that are open; the code closes a socket and clears its field in two
statements, and other goroutines may look in between. `forward` is at the head of
its loop (where it reads `t.listener`) or in `Accept`; `handler[c]` before it reads
`t.client`, in `Dial` or waiting on `done`; `copier[c][d]` blocked in `io.Copy` or
about to send. A goroutine that uses a nil field panics, and since nothing recovers
it the process is gone (`crashed`).

Outside are the API client, the BECS host and the network, which may connect, hang
up or break at any time (`Outside`). What is copied is abstracted: a copier ends when
its source has ended (`ReadsEnd`), or earlier if its sink has and it has something to
write (`WriteFails`).

### JobFiles: state and actions against the code

`target` are the files `jobs/<id>.json`, `temp` the temp files, `stage` the call that
`Save` has reached; of a file's content it matters which version of the job it is (how
many environments were served, `Final` with `FinishedAt`), or that it is incomplete
(`Half`). `CreateTemp`, `Write`, `CloseTemp` and `Rename` are those calls with their error
paths (`MkdirAll` and `MarshalIndent`, which leave nothing, fail with `CreateTemp`);
`Return` is what `RunJob` does next, `Answer` the redirect after the last save, which with
an error is "busy" instead (handlers.go:385-387). `Crash` may come between any two.
An id is the wall clock in milliseconds (job.go:47-49), so a job may get the id of the one
before it and take over its file; `shared` remembers those ids. That the clock is not set
back, which would give away older ids too, is assumed.

A page is `reading`, `listed` or a `detail`. `OpenList` is `os.ReadDir`, which leaves the
`names` still to be read; `LoadNext` is one turn of the loop, `LoadJob` (`Load`) of the
least of them; `ShowList` is the sort (`NewestFirst`) and what `dashboard` cuts off,
`Follow` a link to `jobDetail` or `downloadRun` (a download finds its run if the version
has it). `began`
remembers what the files held when a list was asked for, and `seen` what a user was ever
shown. The dashboard ignores an error of `ReadDir` and shows no job (`Fails`); such pages
are not judged.

### Calls: state and actions against the code

Runs follow one another, each for one of `Envs`: its kind of tunnel, the address `at`
of its endpoint (`BECSHost:BECSPort`), the address `listen` of its tunnel
(`127.0.0.1:LocalPort`) and the `host` it is about. `Direct` says who is at an address
without a tunnel.

| stage | the code at that stage | actions |
|---|---|---|
| `idle` | between runs | `Begin` |
| `connect`, `device` | `Tunnel.Connect`; WireGuard's after `NewDevice` (wireguard.go:61) | `ConnectSSH`, `CreateDevice`, `ConfigureDevice` |
| `ready` | between calls | `Call` (client.go:78-97, with its two errors before anything is sent), `Disconnect` |
| `send` | `http.Client.Do`: the transport picks a connection | `Reuse`, `Dial` |
| `sent` | the request is being written | `Arrive`, `Retry` |
| `arrived` | the server has it | `Receive` (client.go:105-132) |
| any of the last three | `Do` returns an error | `GiveUp` |

`idle` (the set) are the connections the transports keep, `conn` the one in use. A
connection knows its address, the host at its far end, the run whose tunnel carries it
and whether it still works. One that does not is found out by use (`Retry`, on a new
connection, or `GiveUp`) or before (`Noticed`). What is net/http's is modelled as its
documentation and this use require: an idle connection of the same address is preferred,
and a request is written again only if the first connection had been kept and nothing
had reached it. These are assumptions; no property is about them. `entries` is the recorder; `recorded` and `cleared` number its entries.

## 3. What TLC checks

| run | question | bounds | distinct states |
|---|---|---|---|
| `runner` | a job over a tunnelled and a direct environment, with a failure anywhere, while two handlers edit both under it | 1 caller, 1 request, 2 editors, 2 edits, 1 fault, 1 id | 1.93 million |
| `runner_faults` | two racing requests, what one failure after another leaves behind, the log, and that every request is answered even so | 2 callers, 2 requests, 2 faults, 2 ids, no edit | 824 thousand |
| `runner_edits` | *violated*: a run stays with one environment | 1 caller, 1 editor, 1 edit, no fault | |
| `runner_batches` | *violated*: one batch at a time | 1 caller, 1 fault | |
| `runner_restart` | *violated*: a job shown as running is being run | 1 caller, 1 fault | |
| `config` | the pages keep what they promise, one after another; overlapping, no pointer leads nowhere and only the steps named mislead a handler or duplicate a name | 2 handlers, 3 requests, 2 faults, 3 names | 428 thousand |
| `config_update` | *violated*: an update replaces its own environment when a delete overlaps | 2 handlers, 3 environments | |
| `ssh` | a tunnel that fails or comes up, carries connections and is taken down | 2 connections, with and without a jump host | 166 thousand |
| `ssh_race` | *violated*: `Disconnect` makes `forward` return | no connection | |
| `job_files` | `Save` under failures and a crash, against lists, links and downloads | 3 jobs, which may share ids, 1 environment each, 1 fault, 1 crash, a dashboard of 2, 3 temp names | 5.12 million |
| `calls` | successive runs over kept connections, tunnels that share a port, and the recorder | 3 runs of 2 calls, 4 environments, a recorder of 3 | 1.84 million |
| `calls_example` | *violated*: what a run with a tunnel sends goes through it | config.example.yaml, 1 call | |

The properties of `Runner` (`runner` checks the first and those about tunnels, sessions,
outcomes and edits; `runner_faults` all but the first and the one about edits):

* `TypeOK`: types, and that no pointer held by a caller ever leads nowhere.
* `OneJobAtATime`: serial execution; `busy` is true exactly while somebody is in
  `RunJob`.
* `TunnelWhileCalling`: the tunnels that are up are those of the callers between
  `Connect` and `Disconnect`; so every RPC including the deferred logout is made
  inside the tunnel, and none is leaked.
* `SessionsAccounted`: a session stays open only while used or where a login, a
  logout or the process was lost.
* `RecordedOutcomeIsTrue`: *finished* or *stopped* in a file is the state the
  server's batch really ended in, for ever after.
* `OnlyMovesDisturb`: what a run has read through its pointer and what it has yet to read
  there are of one environment (`Steady`) until a shift or a write of another name takes
  effect (`Moves`), however two edits and the job overlap. A create that moves the slice
  to another array, an overwrite of the run's environment and a failed save do no harm.
* `KeepsTheLog`: `Runner` implements `JobLog`. The refinement maps the active job
  to the job of the caller that is in `RunJob` and `left` to the number of its
  names; a step of `executeRun` in the middle of a turn is a stutter.
* `EveryRequestIsAnswered`: a request that was let through is answered.

Of `ConfigStore`:

* `TypeOK`: types, and that the pointer read in `Fill` is never out of its array,
  overlapping or not.
* `NamesStayUnique`, `UpdateKeepsPassword`, `AnswerMeansSaved`: for handlers that do
  not overlap, through failed saves and restarts. The last says more than that a save
  went well: the answer also covers what an earlier save had failed to write.
* `OnlyMovesMislead`: overlapping or not, the pointer read in `Fill` goes on showing the
  environment of the request, and the slot in `StoreEnv` to be that one's, unless a delete
  or a rename takes effect.
* `OnlyOvertakenDuplicate`: overlapping or not, names are unique in memory, in the file and
  in what is on its way there, until a create or an update writes whose search has been
  overtaken (`Overtaken`: it would be refused now, or another environment is at its index).
* `KeepsTheStore`: `ConfigStore` implements `EnvStore`, a function from names to
  passwords on which a request makes its edit in one step and then has it saved or
  not. The refinement maps the slice to that function, the request of the only busy
  handler to `asked`, and the places after the change of memory to `edited`.

Of `SSHTunnel`:

* `TypeOK`: types, and that a `done` channel never holds more than its two places.
* `NothingLeftOpen`: after `Disconnect`, and after a `Connect` that failed at any
  point, no socket is open and no field set.
* `BothEndsClosed`: a connection is closed at both ends when its handler has
  returned, and by nobody before.
* `GoroutinesEnd`: after `Disconnect` all goroutines of the tunnel end, unless the
  process has crashed.
* `IsATunnel`: `SSHTunnel` implements `Tunnel`. Carried are the connections whose far end
  is open over an SSH connection that is open; the tunnel is down from the step that
  closes it.

Of `JobFiles`:

* `TypeOK`: types, and that a job file is never half-written.
* `PageShowsTheNewest`: a list has every job that had a file when it was asked for, in
  that version or a later one, newest first; the dashboard leaves out only older ones.
* `LinksHold`: a job a user has seen in a list, on its page or by the redirect is never
  a missing or half-written file; and until a later job takes its id, its file has all that
  was seen. `PageShowsTheNewest` has the same exception for the versions it speaks of.
* `NoLitter`: a temp file is in use, or was left by a crash or by a failed `Remove`.
* `KeepsTheStore`: `JobFiles` implements `JobStore`, in which a save is one step.

Of `Calls`:

* `TypeOK`: types, and that a call has one number of its run's own.
* `ReachesItsOwnHost`: a request that arrives does so at the server of its own environment,
  whatever connections are kept. It is about environments that agree with their tunnels (`EnvsAgree`: over SSH the address called is the one the
  tunnel listens on); those of the run do: its two SSH environments share a local port,
  and the WireGuard one has the address of the direct one.
* `NothingLeftUp`: between runs no listener, no device, no live connection through one.
* `LogIsTheNewest`, `AnswersFollowRequests`: the recorder holds the newest entries since
  the last `Clear`, and an answer stands right after its request (unless the request
  was just cleared or dropped).

*Why the bounds are enough.* For `Runner`, two callers are needed for the race at the
mutex, and a third behaves like the second, who is turned away; none of them needs an
edit. The run of a job meets edits whichever caller it is, so with edits one is enough: two
editors give every overlap of two edits under its pointer, a create that moves the array
and an edit of the new one included, and what a third would write is one of the moves the
property names. Two environments give a run before and a run after the one that fails, a
neighbour for `Remove` to shift, and a name for a rename to collide with (the third name is
there to be created or renamed to). Two ids let a second job start in the same millisecond
or later. One fault reaches every error path; two reach those of the recovery (a failed
logout after a failed poll, a crash after a failed save, a request that was given up and
arrives after the next run began).
For `ConfigStore`, two handlers give every pair of interleaved edits; the third
request meets what the first two and a failed save or a restart have left; two
environments and a third name give a neighbour, a name that is taken and one that is
free, and an append both within and beyond the capacity of the array. In `SSHTunnel`
connections do not know of each other; two let one be queued or starting while
another is copied. In `JobFiles` users do not meet, so one is enough; three jobs fill a
dashboard of two or, two of them under one id, let a page be read while a file is taken
over; a fault and a crash reach a failed save before or after a crash. In `Calls` the third
run meets what two kinds of earlier runs have left; two calls let the second reuse the
connection of the first; three entries are less than two calls write. Symmetry is used
between editors, handlers and temp names, in runs without liveness.

*Deadlock* is checked everywhere. Where a program that is asked nothing more may
rest, the modules say so in a stuttering action with that guard (`Waits`, `Over`).

*Fairness.* `Runner`'s `FairSpec` asks weak fairness of the steps of each caller
taken together (Go runs a goroutine that can run, and each of its steps ends: an RPC
within 20 s, file operations at once) and that a batch being polled ends. Both
`Connect` returning and the batch ending are assumptions about the outside:
`ssh.Dial` is called without a timeout (ssh.go:96) and `Poll` has no limit of its
own, it relies on the timeout given to `batchRun`. Nothing is assumed about edits,
the clock, pauses of batches, crashes or late requests, and failures may take the
place of any success. `SSHTunnel`'s asks it of `forward`, of each `handleConn`, and
of each copier when its source has ended. That a copier has something to write, that
either side hangs up, and that the tunnel is taken down at all are not assumed. The other
modules state no liveness and need no fairness.

## 4. What is proved

Every safety invariant, action property and refinement that a passing run checks is
also a theorem, proved by TLAPS for any sets of callers, handlers, names, requests,
forms, connections, users and environments and any bounds. What is left to TLC alone is
at the end of this section.

*Assumptions.* They are about constants, stated in the module that declares those, and
TLC evaluates them in the runs. `Runner`: the constants have their types, and `NoJob` is
not a job; names need not be unique.
`ConfigStore`: types, unique initial names, and that `Blank`, the empty field of a form, is
no password. `JobFiles`: the bounds are numbers, and `None` and `Half` are neither
versions nor each other. `Calls`: an environment has one of the three kinds of tunnel
and addresses, and the recorder has room for an entry. `SSHTunnel` needs none.

*How.* A theorem `Spec => []Inv` has an inductive invariant from which `Inv` follows;
TLC has checked each on the small instance before it was proved. A step lemma has one step per
action. Steps that do not touch what the invariant is about are dealt with together. A
refinement has a step lemma too: each action is a step of the abstract module or leaves
the mapped variables alone.

### EnvSlice

`EnvSliceProofs` holds the lemmas about the slice: what `FindByName` returns, that its
pointer shows the environment it looked for, what memory looks like after one element
is assigned (`Assigned`), appended (`Appended`) or shifted out (`Removed`), and that each
of these keeps the memory well formed and every pointer valid, at any index in range and
so for statements of overlapping edits too. Removing keeps names unique (`RemovedUnique`),
appending and assigning do if nothing has come between the search and the write (`AddUnique`,
`UpdateUnique`). Three more say when a pointer goes on showing the same environment: one
that `FindByName` has just returned is in the slice (`InSlice`); an append keeps what it
shows, although the slice may have moved to another array and left it behind
(`AppendedKeepsShown`); an assignment that does not rename keeps the name it shows
(`AssignedKeepsName`).

### Runner

* `RunsAreSerial` (`OneJobAtATime`). It needs only to be
  joined with the type of `pc` (`Serial`). The proof goes by where a step moves a
  caller: within `RunnerPlaces`, outside, in (`Enter`, where nobody was because
  `~busy`), out (`Release`, where it was the only one) or everyone out (`Crash`).
* `TypeCorrect` (`TypeOK`). `TypeOK` is inductive. It is split in five
  groups (`ControlType`, `CounterType`, `ConfigType`, `JobType`, `ServerType`),
  each kept by every step given the groups it reads. The part that is not routine
  is `PointerValid`: arrays are never shortened (`EnvSliceProofs`), so a pointer
  that was valid when `FindByName` returned it stays valid under every edit. What
  it shows may change, which is what `runner_edits` finds.
* `TunnelsAreUsed` (`TunnelWhileCalling`). The invariant `TunnelInv` adds
  that a run which has not connected yet has no tunnel. Serial execution is what
  makes it inductive: with one caller in `RunJob` its `Disconnect` removes the only
  element. The cardinality follows because all runs in use are one run.
* `SessionsAreClosed` (`SessionsAccounted`). The invariant `SessionInv`
  adds that a login or logout nobody waits for any more belongs to a run in
  `lost`, so a session `ExecuteLate` opens is accounted for already.
* `OutcomesAreTrue` (`RecordedOutcomeIsTrue`). What is in a file was in a
  job, and what is in a job was in a run, so `OutcomeInv` says of all three that
  *finished* or *stopped* is how the batch ended; it is inductive because a batch
  that has ended stays as it ended and is no other run's, and a `batchRun` that
  arrives late finds a batch that has not begun.
* `TheLogIsKept` (`KeepsTheLog`), the refinement of `JobLog`. `LogInv` adds to
  types and serial execution that a job which is to begin has names to serve, and
  that a job is not finished before it is about to be released. The caller in its
  job is the only one (`OfTheCaller`), so the mapped variables are that caller's
  before and after a step. Then each step is `Begin`,
  `Serve`, `Complete` or `Leave`, or leaves the three mapped variables alone.

* `OnlyMovesDisturbRuns` (`OnlyMovesDisturb`). The pointer of a run is in the slice or in an
  array the slice has left (`Consistent`), so an append does not write where it points, and
  an assignment there keeps the name unless it is one of the `Moves`. Names need not be
  unique for this, nor edits apart: it is proved statement by statement.

Three properties of `Runner` are violated (section 5); what is proved is that nothing but the
steps named in the theorem violates them.

* `OnlyDeletesAndRenamesDisturb`: `OneEnvironmentPerRun` holds in every behaviour in which no
  step is one of the `Moves` (`OnlyMovesDisturb` step after step). Between the first
  reads and the last (`HalfRead`) the pointer still shows the name the run took, and
  afterwards the two names agree.
* `OneBatchUnlessLost`: `OneBatchAtATime` holds in every behaviour in which the process
  does not die and no `batchRun` and no `batchInfoGet` fails. `BatchInv` adds to
  `OutcomeInv` that a batch which is under way is the one its caller polls, and that no
  `batchRun` is left to arrive late. Logins, logouts, tunnels and saves may fail as they like.
* `RunningUnlessLost`: `InProgressIsRunning` holds in every behaviour in which the process
  does not die and the last save of a job does not fail. `RunningInv`: the job of an
  unfinished file is that of the caller which has yet to finish it. A save that fails
  earlier leaves an earlier version of a job that is being run.

### ConfigStore

The invariant is `StoreInv`, of two parts. `TypeInv` holds however handlers overlap:
besides types it says what a handler has at each place (`Holds`), and the pointer of a
handler in `Fill` stays valid because no edit of any other shortens an array. (An index is
a number; that it may be past the end is what `Panics` is for.) `EditInv`
is about handlers that do not overlap: one at a time is at work (`Alone`), names are
unique in memory and in the file, and what a handler found is still so (`Edit`): the
slot of the name it was asked for, the environment it is to put there, the bytes it is
to write. Nothing in it survives every second handler, and TLC shows what happens then
(`config_update`); which second handlers it survives is the subject of the last three theorems.

* `TypeCorrect`, `NamesAreUnique`, `UpdatesKeepPasswords`, `AnswersAreSaved` follow from
  it (`TypeOK`, `NamesStayUnique`, `UpdateKeepsPassword`, `AnswerMeansSaved`), the last two
  as action properties.
* `TheStoreIsKept` (`KeepsTheStore`), the refinement of `EnvStore`. Three lemmas say what the slice
  is as a function from names to passwords after an append, an assignment, a shift (`AddedStore`,
  `UpdatedStore`, `RemovedStore`); unique names make it one. The busy handler is the only
  one (`TheOneBusy`), so `asked` and `edited` are its own. A search that fails is `Refuse`;
  the three statements that change memory are the edit; `Rename` saves it or not.

The last three are about handlers that overlap, one call or statement at a time, as
`ConfigStore` takes them: they say which interleavings are harmless, and nothing of
what a data race may do inside one assignment.

* `OnlyDeletesAndRenamesMislead` (`OnlyMovesMislead`). `PlaceInv` says of the pointer that it is in the
  slice, or in an array the slice has left, and shows the name asked for, and of the
  index that it is that name's. Every step of a handler but the two (`DeletesOrRenames`) keeps it
  because no name moves (`KeepsNames`, from the lemmas of `EnvSliceProofs` about appends
  and assignments). Its corollary `UpdatesStayInPlace`: in a behaviour without them `PlaceInv`
  holds for ever.
* `OnlyCrossingEditsMisplace`: `UpdateReplacesItsOwn`, which is violated (section 5), holds in
  every behaviour in which no delete and no rename takes effect and no update of the same
  environment is stored while another is under way (`Crosses`). `CurrentInv`: what the update found is what it would find
  again, the password included, though the pointer may be into an array left behind.
* `OnlyOvertakenEditsDuplicate` (`OnlyOvertakenDuplicate`): names cease to be unique only in a
  step of a handler that has been overtaken. Every other append finds its name free,
  every other assignment replaces the environment that was found, and a shift at whatever
  index adds no name. `NamesUnique` includes what is on its way from memory to `config.yaml`, for
  the renames may come in another order. Its corollary `NamesAreUniqueUntilOvertaken`: in a
  behaviour in which nobody is overtaken it holds for ever.

### SSHTunnel

* `NothingIsLeftOpen` (`NothingLeftOpen`) needs what may be open
  and set at each place of `Connect` and `Disconnect` (`OwnerInv`).
* `ConnectionsAreClosed` (`BothEndsClosed`) is inductive together with where a
  connection's ends may be at each place of its handler (`ConnState`).
* `TypeCorrect` (`TypeOK`) needs of the same invariant
  that `done` has room for every copier that is not gone.
* `ItIsATunnel` (`IsATunnel`), the refinement of `Tunnel`, needs besides that no goroutine
  exists before `Connect` has succeeded (`Quiet`), so nothing is carried by a tunnel that
  is still being built.
* `OnlyLateReadersCrash`: `DisconnectEndsForward`, which is violated (section 5), holds in
  every behaviour in which `Disconnect` does not clear a field in one of two gaps:
  `t.listener` while `forward` is between two turns, `t.client` while a `handleConn` has been
  started and has not read it. A `forward` in `Accept` and a handler in `Dial` or later are
  safe. `Readable` says for each place of the owner which fields are set and who may
  still read them; a listener that is closed starts no new handler.

### JobFiles

* `TypeCorrect` (`TypeOK`), `NothingIsLittered` (`NoLitter`) and `SaveIsAtomic` (`KeepsTheStore`, the
  refinement of `JobStore`) rest on `SaverInv`: where `Save` is, the temp file it works on
  holds, and its version against the file that is there. From `close` on
  the temp file is whole, and that makes `Rename` a step of the store.
* `ListsAreComplete` (`PageShowsTheNewest`) and `LinksAreKept` (`LinksHold`) rest on `PagesInv` as well: a file
  holds what a user has seen or a later version (`SeenInv`), and half-way through a list
  (`ReadingInv`) what has been read is in the file still or has been replaced by a later
  version, comes before all that has yet to be read, and lacks nothing unless a read
  failed. All of this is said of ids that belong to one job; of a `shared` one it is said
  only that the file is there and whole. That a file only moves to later versions, unless its id
  is shared, is a lemma about steps (`FilesGrow`), and that an id once shared stays so another
  (`SharedGrows`); that `NewestFirst` sorts (`NewestFirstSorts`) holds because what was read
  ascends, so its reverse is a witness.

### Calls

* `RequestsReachTheirHost` (`ReachesItsOwnHost`). The invariant `HostInv` says of each
  kept connection, and of the one in use, where it leads if it is alive (`Leads`): without
  a tunnel to the server at its address, through a tunnel to that run's own host.
  It needs `WireInv`, that a live connection through a tunnel is the current run's, and
  `EnvsAgree`, without which the property is false (`calls_example`).
* `TunnelsCarryTheirRuns`: `ThroughTheTunnel`, which is violated (section 5), holds as long as
  `EnvsAgree`: the address called is then one at which nobody is without a tunnel, so
  the connection leads through one (`HostInv`), and that is the current run's, because
  those of earlier runs are dead (`WireInv`).
* `NothingIsLeftUp` (`NothingLeftUp`) follows from `WireInv`.
* `TheLogIsTheNewest` and `AnswersAreInOrder` (`LogIsTheNewest`, `AnswersFollowRequests`).
  The second needs that while a call is made the last entry is its request, or there
  is none (`AnswerInv`). Both hold for a recorder of any size.
* `TypeCorrect` (`TypeOK`).

*Model-checked only.* `EveryRequestIsAnswered` and `GoroutinesEnd`: liveness under fairness
is out of the prover's reach. The six properties that are violated
have a counterexample, so what is proved about them is when they hold: each in one of the
theorems above that name a condition. Nothing in the models is
recursive in a way that a proof would need induction over data for.

## 5. Where the code and what is said of it part

* **A run may change its environment half-way** (`OneEnvironmentPerRun`).
  `executeRun` reads the name and the password, brings the tunnel up, and then
  reads host, port and user through the same pointer. A delete in between shifts
  the slice under it: the run goes to the next environment's host and is recorded
  under the first one's name. `FindByName`'s comment says the pointer is valid
  until the next `Add`, `Remove` or `Save`; `RunJob` holds it much longer.
  Only a delete, or a write that puts another name into a slot, does this
  (`OnlyMovesDisturbRuns`, `OnlyDeletesAndRenamesDisturb`).
* **Two batches may run at once** (`OneBatchAtATime`). `Poll` gives up at the
  first `batchInfoGet` that fails. The run is recorded as an error, its batch goes
  on, and the next environment's is started. Besides that it takes a `batchRun` given up
  or a crash, and nothing else (`OneBatchUnlessLost`).
* **An interrupted job is running for ever** (`InProgressIsRunning`). Nothing looks
  at `jobs/` after a restart, and the page of a job without `FinishedAt` says it is
  running. A failed last save does the same, nothing else does (`RunningUnlessLost`).
* **`Disconnect` may crash the process** (`DisconnectEndsForward`). `forward` reads
  `t.listener` at every turn; a `Disconnect` that has set it to nil before a turn
  begins makes the goroutine call `Accept` on nil. `handleConn` does the same with
  `t.client`. The comment at ssh.go:173 expects an error and a return, and
  but for these two gaps it is right (`OnlyLateReadersCrash`).
* **An update may overwrite another environment** (`UpdateReplacesItsOwn`). A delete
  between the search and the assignment shifts another one into the slot; or under
  the pointer through which a blank password is read. Of two overlapping updates of one
  environment, one with a blank password undoes the password the other has set. For the
  same reason, no lock, two overlapping creates may both find a name free and both add it.
  Only edits that are overtaken between search and write do any of this
  (`OnlyCrossingEditsMisplace`, `OnlyOvertakenEditsDuplicate`).
* **A run may go past its tunnel** (`ThroughTheTunnel`). The endpoint is
  `BECSHost:BECSPort`, the tunnel listens on `LocalPort`, and nothing compares them;
  `example-ssh` of `config.example.yaml` sends its login to whatever is at
  127.0.0.1:4499. Where they agree it does not happen (`TunnelsCarryTheirRuns`), and
  `ReachesItsOwnHost` is about such environments.

Met while modelling, and without a run: two jobs that begin within one millisecond have
one id (job.go:49), and the second takes over the file: a link to the first then shows the
second (`LinksHold` and `PageShowsTheNewest` hold up to that, `KeepsTheLog` includes it). `FileRead` asks for 100000
bytes once (file.go:16-17), so a longer report is stored cut off. A job whose last save
failed is answered "busy" although it has run (handlers.go:385-387). A delete whose save
failed is answered as done (handlers.go:248-251). Without `BECS_RUNNER_KEY`
encryption does not fail (main.go:25): it uses an empty passphrase. An answer that
cannot be decoded leaves its request in the monitor without any answer (client.go:114).

## 6. What is not modelled, and the plan

Not modelled: `crypto.go` (library cryptography without state; `Runner` keeps that
`Decrypt` may fail); the pages that render one read of memory (environments, forms,
status, API monitor) and all layout; the WireGuard device, the SSH protocol and
net/http's transport beyond what the code in `src/` relies on; the content of scripts,
outputs and messages; a power failure that loses what the system had not written to the
disk; `BatchList` and `SetPath`, which have no caller.

Planned, the most important first:

1. What the components take from one another as one statement each, so that `Runner`'s
   atomic steps rest on theorems about the modules that open them.
2. Which orders of overlapping saves leave `config.yaml` older than memory, and that the
   next save of any handler repairs it.
