# vp-utils: a verification project

`vpd` (VojtechPastyrik/vp-utils) is a command line tool in Go: a tree of cobra commands, each of
which is a process of its own. Most of them convert some text or call one other program. The ones
verified here coordinate goroutines, share a counter, a slice or a channel, or change files and
servers in several steps any of which may fail. This directory holds their TLA+ models, the TLC
configurations that check them on small instances, and TLAPS proofs of the main results for every
value of the constants.

    tlc -workers 2 -config ApiLoad.cfg MCApiLoad.tla     # a run
    tlapm ApiLoadProofs.tla                              # the proofs of a component

`PROJECT.json` lists the components, the runs with their properties, the source lines behind each
definition, the hazards and the theorems. For every property it also names a *mutant*: the change
of one definition, the kind a plausible bug would be, that makes TLC find the property violated.
The mutated forms stand in the modules right before the definition they change, each under a
comment that begins with "Fault:"; no specification uses them.

## 1. Inventory

### Components with state

| Component (source) | State | Operations | Hard behaviour | What makes it correct |
|---|---|---|---|---|
| API load test (`cmd/api/load/load.go`) | request counter, results channel, `done`, WaitGroup, signal channel, the report | start of a worker, the worker's loop, two goroutines that close `done`, one that closes the results channel, the collector, the progress ticker | workers racing on the counter, a bounded channel, close by several goroutines, requests in flight at the stop, deadlines | requests within the limit; every request ends up in the report or is dropped on purpose; the report is final; the test stops; no panic |
| Port scanner (`cmd/port/scan/scan.go`) | semaphore, mutex, slice of open ports, WaitGroup | range check, loop, one goroutine per port, sorting | append under a mutex, a token per goroutine, order of the deferred calls | never more dials than allowed; every port that answered is listed once and in order; the scan ends |
| RabbitMQ load test (`cmd/rabbitmq/load/load.go`) | exchanges, queues and bindings on the broker, two counters, `doneChan`, `done`, the channel used for set-up and cleanup | declare and bind, consumers with prefetch and drain, producers, timer, signal, statistics, cleanup | cleanup while producers and consumers still run, a channel closed by a failed operation, one timeout shared by many receivers | nothing is left on the broker; messages received are among those routed; the test ends |
| RabbitMQ functional test (`cmd/rabbitmq/function/function.go`, `utils/rabbitmq/rabbitmq_config.go`) | connection, channel, exchange, queue, binding, message | seven tasks in order, any of which may fail | a failure leaves what was created before it; a receive from a closed delivery channel | a run that succeeded leaves nothing behind; success means that the message came back |
| Queue reader and publisher (`cmd/rabbitmq/read_queue`, `cmd/rabbitmq/put_message`) | connection, consumer with automatic acknowledgement | connect, consume, stop on a signal | the signal handler closes and exits while a message is being handled | what was acknowledged was shown |
| Vaultino (`utils/vaultino/vaultino.go`, `cmd/vaultino/...`) | the vault file, a temporary plain-text file, passwords | create, decrypt, edit, get | a file overwritten in place, a failure between two writes, two commands on one file | the secret can be read back with the password last set; a wrong password changes nothing; an edit that fails does not lose the text |
| Vault initialisation (`cmd/vault/init_unseal`, `cmd/vault/unseal`, `utils/vault/vault.go`) | pods sealed or not, the key file, threshold | init on the first pod, save the keys, unseal each pod | a pod that fails in the middle; keys known only in memory | after success every pod is unsealed; the keys are saved before they are needed again |
| Mock HTTP server (`cmd/mock_http_server`) | routes, metrics, script state of a request | routing, authentication, metrics, scripts that answer | a script that answers and then fails; a request that matches several routes | one status per request; a protected route is never answered without credentials; metrics agree with answers |
| Branch cleanup (`cmd/git/clean_branches`) | local branches, merged set, age | three passes that collect and delete | a branch found by several passes, the current branch, dates in another format | protected branches survive; what is deleted meets a criterion |
| Release (`cmd/release`) | version file, index, commit, tag, remote | bump, write, checks, commit, tag, push | a stop between two steps and a second run | a tag names a commit that holds its version; a rerun does not skip a version |
| Kubernetes contexts (`cmd/k8s/add_context`, `remove_context`) | the kubeconfig file | merge, remove | read-modify-write by two commands, entries shared between contexts | no entry but the named one changes; the commands make no reference dangle |
| Cheatsheets (`cmd/cheat`) | a cache of files with a time to live | look up, fetch, list | stale entries, failed download | an entry shown is fresh or fetched |
| SSH hosts (`cmd/ssh/hosts`) | the parsed configuration | parse with `Include` | a file that includes itself | the parse ends |

Components without state of interest: the command tree (`main.go`, `cmd/root/root.go` and the parent
commands), the logger and the TLS helper, the converters, parsers and generators (base64, jwt, hash,
password, time, colour and the like: pure functions), the CPU and memory load tools (busy loops ended
by one timer), the listing of ingresses (read only), and the wrappers of other programs and services.

### Interaction

Commands do not call each other. What they share is outside the process: a file (vault,
kubeconfig, key file, version file), a repository, a broker, a cluster. Inside a command goroutines
interact through channels, an atomic counter, a mutex or a WaitGroup. So each module is closed: its
environment (server, broker, cluster, user, another developer) is part of the module, as
nondeterministic answers, and the compositions that matter are

- one command with itself, run again after a failure or run twice at once: `Vaultino`, `MockHttp`;
- the commands that meet on one object: release, clean-branches and reassign-commit on a repository
  (`GitRepository`), functional test, publisher and reader on a broker (`RabbitTools`);
- components that meet through a file: what `vpd k8s add-context` and `remove-context` write
  (`KubeConfig`) decides which cluster the `kubectl` calls of `vpd vault` reach, so `VaultUnseal`
  extends `KubeConfig` and its next-state relation interleaves the two.

`PROJECT.json` lists 40 hazards of this code with the line at which each bites. A property of a run is
about 32 of them; the notes of the others say why none is: the code does such a thing by design, or the
property nearest to it has to exclude it.

## 2. Plan

| Module | Written for | Composes or refines | Run | Proofs |
|---|---|---|---|---|
| `ApiLoad`, `MCApiLoad` | API load test | refines `LoadReport` | `api_load`, `api_report`, `api_shutdown`, `api_progress` | `ApiLoadProofs` |
| `PortScan`, `MCPortScan` | port scanner | refines `Scan` | `port_scan` | `PortScanProofs` |
| `RabbitLoad` | RabbitMQ load test | | `rabbit_load`, `rabbit_purge` | `RabbitLoadProofs` |
| `Vaultino`, `MCVaultino` | encrypted files | | `vaultino` | `VaultinoProofs` |
| `KubeConfig` | Kubernetes contexts | | `vault_unseal` | `VaultUnsealProofs` |
| `VaultUnseal`, `MCVaultUnseal` | Vault initialisation and unsealing | extends `KubeConfig` | `vault_unseal` | `VaultUnsealProofs` |
| `MockHttp`, `MCMockHttp` | mock HTTP server | | `mock_http` | `MockHttpProofs` |
| `GitRepository` | release, branch cleanup, re-authoring | | `git_repository` | `GitRepositoryProofs` |
| `RabbitTools` | functional test, publisher, reader | | `rabbit_tools` | `RabbitToolsProofs` |

All modules of the plan are written, and every invariant, safety property of steps and refinement
that a passing run checks is also stated by a theorem (section 11). What is ahead: abstract
specifications for more components (a release that is one step on tags and main, a vault file that is
one register, a test on a broker that is one step on what others own), each with the refinement
proved from the invariants there are.

## 3. `ApiLoad`: the worker pool of `vpd api load`

| Code | Model |
|---|---|
| `--requests`, `--duration` | `requests` (0 is unlimited), `hasDuration`, both fixed at the start |
| the goroutine of a worker (load.go 184-205) | `worker[w]`: unborn, rampUp, select, admit, request, send, think, exited; one action for every step between two points at which others can be observed |
| `atomic.AddInt32(&requestsCounter, 1) > FlagRequests` | `StartRequest` or `Refuse`, one atomic step each, with the wrap of the counter at `MaxCount` |
| `resultsChan`, a buffer of ten results per user | a sequence of at most `Capacity`; `SendResult` blocks when it is full and panics when it is closed |
| `close(done)` at 174 and 214 | `SignalStops`, `TimerStops`; the second one panics |
| `wg.Wait(); close(resultsChan)` | `CloseResults` |
| the collector (244-277) | `Collect` takes the head and applies the one of `Skip`, `CountError`, `CountHTTPError`, `CountSuccess` that fits; `FinishCollecting` ends at an empty closed channel |
| statistics and saved report | `Report`; the average is the operator `Average` |

`sent`, `skipped` and `lateStarts` are history: nothing in the model reads them, except for the
bound `MaxSent`. A response is a status code and a response time; an error is either the end of
its context (cancelled or past its deadline, the two are not told apart in the code either) or any
other. Body, headers, authentication and the formats of the saved file are abstracted. The ticker
of the verbose mode only prints; what it prints is the subject of `ProgressTellsRequestsSent`.

`LoadReport` is what a load test promises: requests are issued within the limit, each is counted or
dropped once, and the report is published when none is open, after which none is issued. The
refinement mapping (`Test` in `ApiLoad`) counts as open what has been issued and is neither
counted nor dropped, wherever it is.

Properties: `EveryRequestAccounted` says where every request is (with its worker, buffered,
counted, skipped). `LimitRespected` bounds requests and counter. `RunsToLimit` says that a limited
test which nobody stopped reports on exactly the requests asked for. `PanicOnlyWhenBothStop` says
that the double close of `done` is the only panic, so the results channel is never closed under a
worker. `OneLateStartPerWorker` says what "do not start new requests" amounts to. `ReportAddsUp`
relates counters, status codes, extremes and sum (`Received` is what the entries of the statusCodes map
for a set of codes add up to). `Stops` is liveness, `ImplementsLoadReport` the
refinement.

Runs:

- `api_load` (`ApiLoad.cfg`): two workers, a buffer of one result per worker instead of ten so that
  it really fills, limits 0 and 3, the counter's largest value 5 (3 requests and one refusal per
  worker, no wrap), at most 2 requests in the unlimited case; 264 146 distinct states. Two workers
  suffice to race on the counter, on the channel and on the last slot of the limit, and a limit
  above the number of workers makes one of them come round again.
- `api_report` (`ApiReport.cfg`): one worker, limit 3, six answers at both ends of the error range
  (200, 302, 399, 400, 599, 600, with response times that differ); 228 520 distinct states. The order in which answers reach the collector is what matters here, and one
  worker produces every order.
- `api_shutdown`, `api_progress`: the two findings below.

Fairness: weak fairness of each worker's steps, of main, of the goroutines that have caught a
signal, sleep or wait. The Go scheduler runs every goroutine that can run; sleeps end; a request
ends by its deadline. The arrival of a signal is not fair: no run relies on the user. Every wait
in the code is a wait for something that stays true once it is, so weak fairness is enough; two
workers that compete for a slot of the channel are never starved because main keeps reading.

## 4. `PortScan`: `vpd port scan`

`ParseRange` is the range check (an invalid range ends the command). Main's loop is two actions,
`AddToGroup` (wg.Add) and `StartProbe` (the send on the semaphore, which blocks while it is full,
and the go statement that follows at once); `Wait` is the end of the loop with wg.Wait;
`PrintPorts`
prints what `sort.Ints` makes of the slice: `SortInts`, the increasing one of its rearrangements
(`Rearranged`). The goroutine of a port dials, and on success takes the mutex and
appends, in two steps (`ReadSlice`, `WriteSlice`) because append is a read and a write of the
shared slice: what keeps a port from being lost is the mutex, not the atomicity of the model. The
deferred calls run in reverse order, `Release` and then `Finish`. `Scan` is the abstract scan:
ports leave a to-do set, those found enter a set that only grows, and the result is returned when
nothing is left to do.

`AtMostConcurrent`, `NothingLost`, `PrintedInOrder`, `ScanEnds` and `ImplementsScan` are checked
by `port_scan` (`PortScan.cfg`): ports 1 to 4, every set of answering ports, a semaphore of two,
valid and invalid ranges; 39 296 distinct states. Four ports over two tokens make main block, and
make a token pass on while two appends compete. A port that accepts connections may still miss
the timeout, so it may be reported closed: `NothingLost` speaks of the dials that succeeded.

Fairness: weak fairness of main and of each goroutine; a dial ends within its timeout.
`Concurrent` is assumed positive: with 0 the first send blocks for ever (a hazard without a
property, since nothing happens after it).

## 5. `RabbitLoad`: `vpd rabbitmq load-test`

| Code | Model |
|---|---|
| `createResources`, `cleanupResources` on main's AMQP channel | `CreateResources`, `CleanupResources`: `todo` is the operation main comes to next, `After` the one behind it, and each is an `Operate`; an operation succeeds, or fails and closes the channel, after which all the others fail |
| signals | before `signal.Notify` one kills the process (`Killed`); afterwards main's select receives it (`SelectSignal`); a later one has no effect |
| `startConsumersAndProducers` | the goroutine `runner`; `DurationExpires` closes `doneChan`, `RunnerDone` is its wg.Wait |
| a producer | `StartProducer`, `Publish` (the message is at the broker), `CountSent` (the counter follows; `Uncounted` are the producers in between), `StopProducing` |
| a consumer and its goroutine per queue | `StartConsumer`, `ConsumerReturns` (wg.Wait and the deferred close of the channel); `StartReading`, `Receive`, `StopReading`, `DrainIdle`, `DeliveriesEnd` |
| the shared `time.After` | `timeout[i]`: one value for all readers of consumer i |
| the broker | which exchanges, queues and bindings exist, how many copies a queue holds, the consumers registered on it and the copies sent to them (`Routed`, `Deliver`, `CloseChannel`) |

`StopReading` contains the start of `drainQueues`: a second consumer is registered on the same
queue while the first stays registered, so copies may still go to the one nobody receives from. A
publish to a deleted exchange succeeds in the client and closes the producer's channel at the
broker; it is counted as sent. A consumer's operation on a deleted queue closes the channel of all
its readers. Unbinding uses the empty routing key, which no binding has, and removes none.
Copies are counted, not identified; rates, sizes and contents are left out, and so is time: a
timeout may expire at any moment. The printed counters are read in one step.

`DuplicationBounded` relates the two counters through all interleavings; `StatisticsFinal` says
that after a normal end nobody counts any more; `NothingLeftBehind` says that the cleanup
removes everything even while, after a signal, producers and consumers are at work;
`TestEnds` is liveness. `NothingLeftBehind` has two conditions that the code needs: no operation of
main failed (it does not recover from one), and the test was started (a duration that does not
parse, and a signal before `signal.Notify`, leave what was created).

Runs: `rabbit_load` (`RabbitLoad.cfg`): one exchange, two queues read by one consumer, so that its
readers share a timeout; one producer and one message, of which each queue gets a copy; 106 742
distinct states. One message is what keeps the liveness check short: with two (1 051 100 states)
the same properties hold. `rabbit_purge` (`RabbitPurge.cfg`) is the finding below.

Fairness: weak fairness of main, of the goroutines and of the end of the duration; none of signals
and none of the broker's deliveries, since no wait of the code depends on a message. A reader that
always finds a message might be unfairly chosen to receive it, but producers stop with
`doneChan` and then the messages end.

## 6. `Vaultino`: `vpd vaultino`

| Code | Model |
|---|---|
| the vault file | `vault`: None, a whole `Version` (type, password, text), or a `Stump` whose header may be left |
| a process that runs create, edit, edit --change-password, decrypt or get | `pc[p]`, `op[p]`; what it holds is `base` (what it read), `key`, `text` |
| `os.ReadFile`, `readVaultFile` | `ReadSource`, `ReadVaultFile` |
| `readPassword`, `getPassword`, `encrypt`, `decrypt` | `EnterPassword`; with the wrong password or a stump the authenticated cipher refuses |
| `editVaultInternal` | `CreateTemp`, `EditorSaves` (any number of times), `EditorEnds`, `NewPassword`; `GiveUp` is every error return, with the removal of the temporary file |
| `writeVaultFile` | `TruncateVault`, then `WriteVault` or `WriteFails` |
| the plain file that decrypt writes | `TruncatePlain`, `WritePlain` |
| get's second reading of the header | `ExtractValue` |

A process may be killed between any two steps and in the middle of a write (`Kill`). Two writers may
be mixed: the end of the longer text stays behind the shorter one. A text has one key and a format,
enough for `extractValue` to succeed, to miss the key or to be given the wrong type. Salt, nonce and
the name, user and time in the header are left out: no decision of the code rests on them.

`stored` and `hist` are history. `AloneIsAtomic` is the specification of a command that has the vault
to itself: either the vault becomes what its user asked for or it stays as it was, with the one
exception that the code has, an end inside `writeVaultFile`. `PlainTextRemoved` is about all paths
out of the editor, and `NothingInvented` about any interleaving, kill or torn write: the worst that
overlapping commands do is drop an edit or leave a file that cannot be decrypted.

Run `vaultino`: two processes, three commands in a behaviour, two passwords, three types of which two
are supported, a text of each format and the cut one; 2 050 000 distinct states. Two
writers and one later reader are what it takes to mix a file and have the mixture read.

## 7. `KubeConfig` and `VaultUnseal`: `vpd k8s`, `vpd vault`

`KubeConfig` has one process per command: `AddContext` (`Merged`: entries of the same name are
replaced, a current context is kept) or `RemoveContext` (`Without`) read the file, then `Truncate` and
`Write` rewrite it. clientcmd checks nothing but the syntax, and neither do the commands, so

- the file at the beginning and the files that are merged may dangle (a current context, or the cluster
  of a context, that does not exist); `Unusable` is the set of these configurations;
- a truncated file reads as a configuration without entries, and one whose write was cut off (`Torn`) as
  what it still holds (`Cut`: entries may be missing, the last one may have lost a part of its name or of
  its value), unless it does not parse (`Broken`); what a mixed one reads as is left open.

`damaged` remembers that a configuration that cannot be used came from the user or was left by a
write that was cut off or mixed. `AlwaysUsable` says that the commands add no damage of their own,
although one may read what another is writing, and remove-context looks at no cluster and add-context at
no context. It does not say that the file survives: nothing in the code replaces it as a whole.
`OnlyNamedEntriesChange` says that a command which met no other touches only its own names.

`VaultUnseal` has a Vault at every *place*, a namespace of a server, with keys and pods of its own; pods
of different places may have the same names.

| Code | Model |
|---|---|
| flags and their check, keys from the file or from 1Password | `StartInitUnseal`, `StartUnseal`, `ExtractVaultKeys`; `Kept` is what users keep of the keys of a Vault, and a command may be given those of another one (`AllKept`) |
| `GetPods` in the order kubectl lists them | `GetPods` |
| `vault operator init` on the first pod | `VaultInit`; it may take effect and the answer be lost |
| saving the keys, or logging them when that fails | `OpenKeyFile`, `WriteKeyFile`: truncation, then a write that may fail or be mixed |
| `UnsealPod` | `GiveKey` for each of the first `ToGive` keys, `AllGiven`; `KeyRefused` if the threshold is met with a key of another Vault among them: the pod forgets them all |
| `WaitForPodReady` | `WaitForPodReady`; `Fails` is its timeout, any failing call and a killed process |
| the clusters | `vault`, `sealed`, `progress` (keys given to a pod so far), `Restart` |

Every call goes to the command's namespace on `CurrentServer`, what the kubeconfig names at that moment
(`Here`): if there is a pod of that name it takes the key, is initialised or is found ready there. `went`
remembers the places that calls of a command reached, `bounced` the pods that have forgotten keys since
it began (they have restarted or refused another command's key).

- `KeysKept`: the keys of an init are with the command that made them until they are written or logged,
  and what is written stays whole in the key file whatever commands overlap. `saved` tells the exceptions:
  an answer that got lost, a process that died before the write was done, and an init-unseal of *another*
  Vault with the same `--path`, which overwrites the file ("replaced"); one of the same Vault is refused
  by Vault before it gets there. With one `--path` per Vault only the first two are left.
- `EnoughKeysUnseal`: a command whose calls all went to one place and which gave enough keys of the Vault
  there finds the pod unsealed, although keys are counted over all commands and others may give theirs
  there or elsewhere. Keys of another Vault that another command gives may make the pod forget all; the
  pod has bounced then.
- `SuccessMeansUnsealed`: success means that every pod of the command is unsealed, or bounced, at one of
  the places its calls went to. That is the one place there is if the kubeconfig did not change under
  the command. If it did, the model has behaviours in which a command gives its keys on one cluster,
  waits for the ready pod of the other and reports success while the pod that got the keys is sealed:
  the property with every place that its calls reached is violated, and the code has nothing that would
  make it hold.

Run `vault_unseal` has two Vault commands and two commands for the kubeconfig file, two names, two servers
and two namespaces; Vaults at `<<s1, n1>>` (pods d1 and d2), `<<s1, n2>>` and `<<s2, n1>>` (a pod d1 each);
`--key-shares` and `--key-threshold` 3/2 and the invalid 1/2; one restart; and three files that are merged:
one for each server with the same names, so that merging the other one redirects the context, and one whose
context needs their cluster. In each behaviour two of the four commands take part (`TwoOfFour`: the other
two are refused at once), which gives three cases (`WhoIsWhere`):

| Who | Where | What it is for |
|---|---|---|
| two Vault commands | both namespaces of s1 | two Vaults and one key file: foreign keys, replaced key files, commands that help or hinder each other |
| one, and a change of the file | namespace n1 of s1 and of s2 | each call may go to either server, to a pod of the same name, to no pod or nowhere |
| two changes of the file | no Vault | reads of a file that is being written, cut-off and mixed writes |

The other bounds: pods are all sealed at the beginning, or all unsealed if one Vault command takes part,
the key file is whole or missing then, and no pod restarts before a command begins (`SmallStart`) or
while its Vault has no keys (`RestartsMatter`); of the damaged files that name no server a Vault command
meets those of the inputs, the empty and the broken one (`OneWithoutServer`). That is 1 550 000 distinct
states. Three commands at once, and Vaults in both namespaces while the file changes, are left to the
theorems, which have none of these bounds.

## 8. `MockHttp`: `vpd mock-http-server`

`SetUp` loads and checks the configuration, `Arrive` is gorilla/mux (the first route that matches
path and method; 404 and 405 do not reach a middleware), `AuthMiddleware` goes through all routes as
the code does, `WriteHeader` is one call of the metrics' `responseWriter` by the handler or its
script, and `MetricsMiddleware` counts after the handler has returned. `ListenFails` is a port that cannot
be listened on: `logger.Fatalf` ends both servers. Each request is a goroutine. A route's path template is the set of paths it
matches, a script the list of statuses it sets and whether it throws. `Respond` is net/http's WriteHeader below it: the
first status is the one the client gets, and only a first status that is no status (outside 100 to 999)
panics; an informational one (`Informational`) is not remembered there, so the text written next
makes it 200.

`ServedToAuthorized` relates the two independent matchings (router and middleware) and a clock that
passes the expiry of a token while requests are on their way. `CountersTellAnswers` says that
the counters are the bag of the answers, in whatever order handlers finish. Two facts about the code
that it leaves room for: a handler that sets a status twice, or an informational one, is counted with
the last status set while the client saw another, and requests that are refused (401) or match no route (404, 405) are not counted at all, although the help text speaks
of the total number of requests. A `responseCode` left out makes `WriteHeader` panic for the
request (`aborted`).

Run `mock_http`: six configurations (overlapping routes in both orders, two methods of one path, a
lower-case method, a missing code, informational statuses and an invalid second one, an unknown kind of
authentication), six kinds of credentials, two clients; 249 733 distinct states. Requests share nothing but the counters and the clock, and two
are enough to interleave on both.

## 9. `GitRepository`: `vpd release`, `vpd git`

The repository is a sequence of commits (parents, their history, the version file in them), branches,
tags, upstreams and the remote's main and tags. A release is `ReadVersion`, `WriteReleaseVersion`,
`CheckBranch`, `CommitRelease`, `CreateTag`, `WriteDevVersion`, `CommitDev`, `Push`; `ReleaseStops`
ends it anywhere, with the version file cut off if it was being written: before the end of the minor
version it is `Torn` (no release of it gets past splitting it), behind it the file reads as a version
without "-dev". clean-branches lists once
per pass and deletes one branch after the other (`DeleteBranch`, git's own refusals in `Deletes`), so
a developer's step fits between listing and deletion. Its pass over old branches removes nothing: the
dates are printed as iso8601 and parsed as RFC 3339 (clean_branches.go 67 and 89), so each branch is
skipped. reassign-commit replaces the last commit, with the version file in it or the one that is staged, or, with filter-branch, every commit from a given one on by
a copy, in the order of the history.

The environment is two developers: here one who works, branches, checks out, merges, restores the
version file and deletes upstreams, but not while a release runs; and another one who pushes to main
at any time.

`TagsAreReleases` is what running a release again after any failure must keep: a tag names a commit
that holds its version, and no version is skipped. `RemoteTagsOnMain` is what a release pipeline
relies on; it has two conditions the code needs, a rejected push (`--tags` pushes each reference for
itself, so tags arrive without main) and a replaced commit. `NoCommitLost` is about listing and
deleting at different times.

Run `git_repository`: one branch besides main, five commits, three commands; 3 870 000 distinct states. Five commits hold a
release (two), a commit of each developer and the root; three commands are a failed release, its
repetition and a command in between.

## 10. `RabbitTools`: functional test, publisher and reader

One broker with an exchange, a queue and a binding of somebody else (`Mine`), and any number of
processes that run `func-test`, `put-message` or `read-queue`. The functional test's fixed names are one
constant, `Fixed`. Its seven tasks are an action each; `GiveUp` is the error return of each of them,
without cleanup; `Receive`, `ReceiveClosed` and `Timeout` are the ways out of the select, and the
receive from a closed channel is a reception, as in the code; `CleanupFails` prints and goes on.
A process that is given an exchange creates and removes nothing. The reader's main goroutine
(`NextMessage`, `LogMessage`) and its signal handler (`ShutDown`, `OsExit`) interleave.
`ConnectToRabbitMQ` succeeds or ends the command; that it does not close the connection when the
channel cannot be opened (rabbitmq_config.go 41-44) has no effect, since every caller exits then.

`TestKeepsItsWord` says what a report of the functional test is worth and when its objects may be
left; `MessagesOfOthersKept` that no test touches objects of others unless it was given them. What
the code does and the properties make room for: a test that is given a queue is sent all its messages
with automatic acknowledgement and reads one; an exchange without a queue is accepted, although the
warning (function.go 60) says that all must be set; a publish to an exchange that does not exist is
reported as sent.

Run `rabbit_tools`: two tests, two publishers and a reader, of which three run in a behaviour;
about 5 200 000 distinct states. Two tests collide on the fixed names, and with a third process messages of
others are in play.

None of the runs of sections 6 to 10 needs fairness: their properties are about safety. They stop
checking for deadlock because their commands end; a behaviour without a further step is one in which
every command has ended, or waits for a user.

## 11. Proofs

The theorems hold for every value of the constants that meets the named assumptions: any number of
workers, ports, queues, clients, processes, pods, configurations and commands. The inductive invariants
are conjunctions of named parts, most of them facts about the place a process is at. A step of one
process leaves what the others have alone, so such a part is proved for the process that moves and
carried over, by one lemma, for the others.

`ApiLoadProofs`. The invariants are proved in layers, each one using those below it:

1. `Inv1`: the types, and that the WaitGroup equals the number of workers that are alive (without it
   `wg' = wg - 1` could leave the naturals).
2. `Inv2`: the stages (what has started and what is closed by the time main is at a given place;
   the results channel is closed only after every worker returned) and `PanicOnlyWhenBothStop`.
3. the accounting of `EveryRequestAccounted`, which needs that a worker does not send after the close.
4. `Inv4`: the counter is the number of requests plus that of the workers refused, and a worker
   leaves without `done` only when refused. It assumes `NoWrap`: each limit plus the number of
   workers is at most `MaxCount`. The code needs that too; a limit close to the largest int32 is a
   listed hazard.
5. the late starts: once `done` is closed only a worker already past the select has one left.
6. `PoolImplementsReport`: initial states map to initial states and every step to a step of
   `LoadReport` or a stutter, from the layers above.
7. `ReportInv`: the tallies (each counted answer raises one code and one side of the total) and the
   extremes, where `successful * minimum <= sum <= successful * maximum` is what bounds the average.
   `ReportIsConsistent` assumes `WithinAnHour`: no response takes longer than the hour at which the
   smallest time starts, as in the code. What a sum over a finite set does when one entry grows
   (`SumBumps`) is proved from the definition of the fold by a smallest counterexample, since
   induction over data is not available.

`PortScanProofs` proves one invariant with seven parts: the types, the position of the loop (which
ports have no goroutine yet), what the semaphore and the WaitGroup count, that the holder of the
mutex is the only one between `Lock` and `Unlock`, that the slice it has read is the current one,
and that the slice lists exactly the connected ports whose append is done, each once. From it:
`ConcurrencyBounded`, `NoPortLost` and the refinement `ProbesImplementScan`. `InOrderPrinted` needs
that an increasing rearrangement exists: the map from an index to its `Rank` (how many entries do not
come after it) is a bijection, and its inverse sorts the slice.

`RabbitLoadProofs`. `RabbitInv` has six parts: the types; `Script` (which operations main is at, and
what it has not come to yet); `Created` (while no operation failed, what main declared so far exists);
`Removed` (likewise, what it deleted so far does not, which nobody can undo, since only main declares);
`Waited` (whoever was waited for has exited: the consumer outlives its readers, the runner both); and
`Copied`: what was received plus the copies on their way (ready, or sent to one of the two consumers of a
queue) is at most the number of messages published, counted or not, times the number of queues. The
copies are numbered so that their number is a cardinality, and moving one is a bijection.

`VaultinoProofs` holds for any number of processes, commands, texts, types and passwords:

1. `Typed`: the types, and what a process holds at each place. From its password on a command has
   read a header with a type; a text, a password or a temporary file is there where the next step
   needs it. `TempRemoved` is inductive with it.
2. `Undisturbed`: while no other command has run since a command began, `Owes` says at each place how
   what it holds and what is in the vault relate to what its user asked for. `AloneIsAtomic` compares
   only the ends of a command, so it needs this relation in between; the step that ends a command
   (`EndsWell`) then has nothing left to owe. `TypeCorrect` follows here, since the type of the history
   is that of what is owed.
3. `Known`: a whole vault is one that was stored, and so is what a process decrypted, because the
   cipher refuses anything else. A torn file has no text, which is why `OnlyStoredComesOut` holds
   however commands overlap.

`VaultUnsealProofs` is about both modules of section 7.

- `KubeInv`: unless a configuration that cannot be used came from outside (`damaged`) the file is usable,
  and so is what any command is about to write (`MadeUsable`), whatever it read; `FileUsable` and
  `NamesChangedOnly` are theorems of `KubeSpec`, which `Spec` implies. While a command has run alone (`AloneSoFar`) the file is as it read it, or truncated by itself.
- `VaultInv`: the types; `Waiting` (a pod holds keys only while sealed, and then fewer than the
  threshold); `Local` (the list of pods a command has left, the keys given so far); `Arrived` (if the
  calls of a command went to one place, the keys it gave to the pod in work are there, and each pod it
  is done with is unsealed at a place its calls went to, unless they bounced); `Custody` (until they are
  written the keys of an init are with exactly one command, because a Vault is initialised once). A step
  of one command takes nothing from the others but by a pod that bounces (`Others`, `Forward`).
  `SuccessIsUnsealed` follows where the list is empty, `EnoughKeys` where the last key has arrived: it
  cannot leave the pod sealed, since `Waiting` then has too many keys.

`MockHttpProofs` (also for infinitely many clients and requests). What is `Known` of a request: the
route matched (`Routed`), its credentials were good when it arrived (`Permitted`), and while in the handler which
statuses it has written (`Progress`), so that the status remembered is the last and the client's the
first. `Tally` adds that finitely many requests are done and that the counters are the bag of their
answers; the step that counts adds one element to it.

`GitRepositoryProofs`. First the histories: a commit on top of others, a merge and a rewritten history
are again rooted and closed under ancestors (`Rooted`, `History`), whose maximal commits the model's
operators choose. Then `Sourced` (each version in the file, in a commit or in a release under way is the
first, or next to a tagged one, `Grounded`), `Releasing` (what is settled at each step of a release),
`Tagged` (a tag names a release of its version on main, and no two have one version) and `OnRemote`. `TagsReleases` and
`TagsOnMain` follow. `NoneLost` is a property of steps and rests on the types and on
`DeletionKeeps`: what git lets `branch -d` delete is contained in its upstream or in the current branch.

`RabbitToolsProofs`. `Control` (the place of a process and its flags), `Broker` (only two bindings can
ever exist, and what is somebody else's always does), `Consumers` (whom the broker has registered, and
who was sent something), `Lonely` and `ReceivedIsOwn` (a test that met no other process finds only
its own message), `Left` (a fixed name that exists has a test which still owes its removal or failed;
a successful one has removed it), and `Kept` (a message routed to somebody else's queue is there, with
a reader, logged, lost with a reader that was cut off, or taken by a test that was given this queue).

Assumptions: the named ASSUMEs of the modules. They say that workers are finitely many, that buffers,
semaphores and the numbers of exchanges, queues, keys and clients are positive, that limits, clocks and
bounds are natural numbers, that answers are records of naturals with finitely many codes (a status has
three digits), that pods are listed by name and flags are pairs of naturals, that routes are finite
lists with integer codes, and that the names standing for nothing, "main", and the processes of
different commands differ from one another; of the inputs of `KubeConfig` only that they are
configurations. `NoWrap` and `WithinAnHour` are hypotheses of the theorems that need them, not
assumptions of a module.

Only model-checked: the liveness properties `Stops`, `ScanEnds` and `TestEnds`, because ENABLED and
reasoning from fairness are out of the prover's reach. The findings of section 12 are counterexamples
that TLC finds.

## 12. Findings

- **Interrupting a timed test may panic** (`api_shutdown`, load.go 174 and 214). "Graceful
  shutdown" on a signal closes `done`, and so does the timer. If the workers are still in their
  last request or think time when the duration ends, `done` is closed twice: the process panics and
  there is no report.
- **The progress line of an unlimited test stays at 0** (`api_progress`, load.go 197 and 227). The
  counter is incremented on the right of `FlagRequests > 0 && ...`, which is not evaluated without
  `--requests`.
- **An interrupted RabbitMQ load test is not stopped** (`rabbit_purge`, rabbitmq/load/load.go 201,
  265). The signal ends main's select, but nothing closes `doneChan`: the producers publish into
  queues that have just been purged "to remove remaining messages".

## 13. Not modelled

Components: converters, parsers and generators (library calls on one input: no state and no order of
steps), wrappers of one call, the logger, the command tree and the registration of flags. The
cheatsheets (one read and at most one write of a cached page per command), the SSH hosts (a
parser; its unbounded recursion through `Include` shows in one test), the CPU and memory tools (loops
ended by one timer) and the listing of ingresses (read only) have nothing a model checker adds to.

In the modelled commands: the ticker (it only prints), the contents of requests and messages, rates
and profiles, bodies and headers of the mock server, the text of a range that is not two numbers (it
ends the command as an invalid range does), the users of a kubeconfig (merged as clusters are), and
a `filter-branch` over merges or one that fails half way with its temporary script (reassign-commit
is partly modelled for this reason: git refuses a second one in the same repository). A version is its
minor part and whether it ends in "-dev": a file cut off in its patch part counts as that version, under
whose odd name the release would go on. Staging is not a state of its own: a commit takes the work
tree's version file, an amended one this or its own.

Of Vault and Kubernetes: a pod is ready exactly while it is unsealed (the probe takes some seconds, in
which kubectl wait may still see the state before), a pod that is in no list is never unsealed, and the
storage of a Vault is its own (a `vault operator init` on a pod of a Vault that others of its pods
belong to is refused). Nobody rekeys a Vault or removes it.

The Go memory model is used only as far as the code relies on it: operations on channels, atomics,
mutexes and WaitGroups are single steps, and the one shared variable without such protection of its
own, the slice, is read and written in separate steps. Files are truncated and written in separate
steps, and what a torn write leaves is a choice.
