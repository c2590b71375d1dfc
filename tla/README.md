# TLA+ specifications and proofs for GETweb

GETweb (`myhttpd`) is a small HTTP/HTTPS server in C++.  `src/main.cc` reads the
options, installs the signal handlers and builds an acceptor; `src/server.cc` runs
one of four loops over it: sequential (no option), a process per request (`-f`), a
thread per request (`-t`) or a pool of N threads (`-pN`), over TCP or, with `-s`, TLS.
All four call the same `Server::handle()`.  The repository has a second program, the style
checker `cpplint.py` that `make lint` runs over the sources (`Makefile:58`).  Paths of the server are relative to
the repository's `src/` directory; `cpplint.py` is at the top of the repository.

## 1. Inventory

| Component | Code | State | Operations | Interaction |
|---|---|---|---|---|
| connections and sockets | `tcp.cc`, `tls.cc`, `socket.cc` | listening socket and its backlog (50, or 1 with TLS), one descriptor per connection, owned by a `unique_ptr` | accept, SSL_accept, recv, send, close on destruction | called by every loop and by `handle()`; the constructor of `TCPSocket` writes `http-root-dir/loghelp` |
| fork mode | `server.cc` `run_fork`, `main.cc` `zomb` | children, their copies of descriptors, the pending SIGCHLD | accept, fork, close, handle, `_exit`, reap | the kernel calls `zomb()` between any two steps of the parent; children inherit its listening socket and both of its handlers |
| thread mode | `server.cc` `run_thread`, `callHandle` | detached threads, each with a moved socket | accept, spawn and detach, handle, destroy | one address space: an uncaught exception in a thread ends all |
| pool mode | `server.cc` `run_thread_pool`, `dispatchThread` | the semaphore `sema`, N + 1 looping threads | wait, accept, handle, post, destroy | the semaphore is held through accept *and* handle |
| sequential mode, statistics, log | `server.cc` `run_linear`, `updateStat`, `logProcess` | `ctr`, `min`, `max`, `min1`, `max1`; globals `a`, `m`, `s`, `route`, `responseCode`; files `stat.txt`, `myhttpd.log`, `loghelp` | accept, handle, update, log; restart | files survive the process, variables do not; `handle()` leaves its result in globals |
| request handling and response | `server.cc` `handle`, `file_finder`; `http_messages.cc` | `HttpResponse` (its `len` is not initialised), `route`, `responseCode` | check credentials, route, read a file, format | calls listing, CGI and module code; returns results as strings that also serve as markers |
| directory listing | `server.cc` `dirHtmlBuild` | none kept | sort by name or date | called by `handle()`; not modelled |
| CGI programs | `routes/cgi_bin.cc` `handle_cgi_bin` | a pipe, a child | pipe, fork, waitpid, copy the output | meets `zomb()` and, in thread mode, other forks |
| loadable modules | `routes/cgi_bin.cc` `loadableModulesHandler` | the map `loaded` | find, dlopen, dlsym, insert, fork, run | the map is shared by threads without a lock; its key is not NUL-terminated |
| request reader | `parse_request`, `tokenize`, `readline()` | none kept | read to the empty line, split the first | blocks on the socket; not modelled byte by byte |
| start-up, OpenSSL set-up, `misc.cc`, route stubs, examples | | | | run once, or not called; not modelled |
| style checker: what is printed | `cpplint.py` `main`, `ParseArguments`, `ProcessFile`, `ProcessConfigOverrides`, `ProcessFileData`, `Error`, `CheckForHeaderGuard` | options, filters and their backup, suppressions, counts: globals shared by all files | parse options, read `CPPLINT.cfg` files, check a file, print, count | `make lint` uses the exit status |
| style checker: state kept from line to line | `NestingState`, `_IncludeState`, `_FunctionState` | the stack of blocks and the stacks saved at `#if`; sections and lists of headers; the size of a function | one update per line, checks at the end | `ProcessLine` calls all three for each line |
| style checker: text and brackets | `CleansedLines`, `CleanseRawStrings`, `CloseExpression`, `ReverseCloseExpression` | none kept | remove comments and literals, find partners | every check of a line reads the result |
| style checker: checks of a single line | `CheckStyle`, `CheckLanguage`, `CheckSpacing`, ... | none kept | match regular expressions | not modelled |

What is hard here:

* *interleaving*: SIGCHLD against the parent's steps and against the handler's own loop;
  signals that coalesce; the pool's post before the close;
* *ownership*: descriptors that fork duplicates, the listening socket included, and of a threaded server those of all its
  threads into each program that one of them starts; sockets moved between threads;
* *failure*: a reset, SIGPIPE or an unparsable request is an uncaught exception or a
  fault: it costs a child in fork mode and the server in the others, and in a TLS handshake the parent of fork mode too; fork, thread and
  descriptor limits; SIGINT at any time, to a whole process group; a restart that finds old files and torn lines;
* *waiting*: for a handshake, a request, a client that does not read, a program that does not end, with a semaphore held
  or a descriptor open elsewhere;
* *stale state*: globals and `loghelp` that some paths of `handle()` or of the
  constructors do not write;
* *boundaries*: a time of 0 ms that is also the mark of no time, int microseconds,
  Content-Length off by some; programs that write just as much as a pipe holds, or more;
* *globals of the style checker*: filters, suppressions and options that each file changes and that must be restored on
  every way out of `ProcessFile`, and comments that count only from the moment their line has been parsed;
* *incomplete parsing*: a line is judged by a stack and a cleansed text that heuristics build, over conditionals whose
  branches are all read, with angle brackets that may be operators.

What makes each component correct: nobody but the process or thread that serves a
connection, and programs that are waited for, has it open, and it is closed after that (sockets); each connection is
handled once at most and, if its client does its part, at least once (modes); no zombie is
left and nothing that a child meets ends the parent (fork); the semaphore is neither lost nor posted
twice (pool); the figures in `stat.txt` and the lines of the log are those of the
connections that were served (sequential mode); the announced length, the status
and the logged code agree with what is sent (responses); an answer has all the output of its own program, and no request
waits for ever because of what threads, children and handlers do at the same time (CGI); what is printed of a file is due to the
command line, the configurations above it and the file itself, and the counts are those of what is printed (style
checker); the stack, the lists of headers, the sizes and the cleansed lines are those that C++ has.
`PROJECT.json` lists the hazards one by one, with their lines and properties.

## 2. Modules

```
Service            what every mode promises of its connections
   ^  ^  ^         (refined by the three modes)
Sockets            clients, backlog, descriptors; accept, recv, send, close as seen by callers
   ^-- ForkServer, ThreadServer, PoolServer        one MC module each
Respond            operators: one exchange through handle(), file_finder(), to_string()
   ^-- LinearServer                                one MC module
CgiBin             programs behind pipes, modules behind a map             MCCgiBin
LintErrors         operators: categories, filters, suppressions, counts
   ^-- LintGuard   operators: header guards
   |      ^-- LintRun                              the whole program       MCLintRun
   ^-- LintNesting (and LintBrackets), LintIncludes    operators: the state kept from line to line
          ^-- LintFile                             one file, line by line  MCLintFile
LintBrackets, LintCleanse    operators: partners of brackets; comments and literals removed
   ^-- LintText                                    every short text        MCLintText
SocketsProofs      theorems about Sockets and Service
   ^-- ForkServerProofs, ThreadServerProofs, PoolServerProofs    theorems about each mode
LinearServerProofs, CgiBinProofs, LintRunProofs, LintFileProofs    theorems about the module of that name,
                                                                   the last about LintBrackets too
```

**Sockets.**  `link[c]` and `prog[c]` are the client's side of connection `c`: whether it is
up, up but not reading (`deaf`), half-closed or reset, and how much it sent (nothing, the TLS handshake, a
request, or a request `handle()` cannot parse).  `backlog` is the kernel's queue,
`holders[c]` the processes or threads of the server with an open descriptor, `handled[c]` a history
counter.  `copies[c]` are those of them whose program, forked in `handle()`, has inherited the connection: no descriptor is
close-on-exec.  `up` says that the process that accepts is there, `listening` that somebody has the listening socket open, be it a child
or a program; the backlog goes with the last of them (`Listens`).
Clients in `Prompt` send a request and wait; those in `Faulty` may also reset or
garble; the others may stop at any point, shut down, or stop reading the answer, and perhaps read on
later until its end, which then is as if they had shut down.  A client that closes its end altogether counts as one that resets, since the server's next
write finds the same.  A closed connection
may be opened again, so the behaviours are unbounded in length although the set is finite.
`Served` and `Status` say which state of `Service` a connection is in, and `Svc` is `Service` under that mapping, the same for all
modes.  `ReadsRequest`, `ReadsNothing`, `ReadFails`, `WriteReturns` and `WriteFails` are what the
calls in `tcp.cc` and `tls.cc` can find: reading a missing token is undefined behaviour,
so a garbled request may either be read or be fatal; `TLSSocket::write` ignores the
result of `SSL_write`, so over TLS a write to a reset connection may return.  `HandshakeBreaks` is the write of `SSL_accept` to a client
that has reset: SIGPIPE has its default action, and ends the process that accepts.  `StartProgram` and `StopProgram` are a program's start, with
copies of what its process has open, and its end, of which nobody can be sure.

**ForkServer.**  `pc` and `cur` are the parent's place in the loop and its local `sock`;
`pstate[p]`, `job[p]` a child's.  `Fork` copies *every* descriptor the parent has (the code
closes nothing in the child), `CloseSock` is the destructor at the end of the
iteration, `ForkFails` the `perror` branch.  SIGCHLD is one bit; `Deliver`, `Reap`,
`ReapEnds`, `HandlerReturns` are `zomb()`, one `waitpid` at a time.  While it runs the
parent makes no step of its own, and children die at any moment.  A child reads, and then replies or runs a program
(`ChildForks`, `ProgramEnds`, `ChildHasWaited`; `ChildForkFails` with `ForkMayFail`).  `Sigint` is the set of processes that SIGINT may reach: for ctrl-C it is the
group, and children have inherited `signal_handler()`, which ends them in the middle of `handle()` (`ChildInterrupt`).  When the parent ends
(`Interrupt`, `AcceptBreaks`) the backlog stays as long as a child or a program lives, and new clients may still join it: nobody will serve them.

**ThreadServer.**  `Accept` .. `Spawn` are the main thread, `Reads` .. `Ends` a thread.
`MaxFds` and the size of `Threads` are the limits at which `accept()`, `fopen()` or the
constructor of `std::thread` fail; nobody catches that, so `AllDie`.  `HandleFds` are the
descriptors that `handle()` opens for files and pipes while it builds a reply.  `Forks`, `ProgramEnds` and `HasWaited` are a program or module: it starts with
copies of the sockets of *all* threads.  Two more steps end the server: `ForkFails`, the `exit(1)` after a failed `fork()`, and `Race`, two
requests for modules in the unlocked map at once.  `Modules`, `ForkMayFail` and `MayStop` say whether these and SIGINT can happen, so that a
property can say what holds without them.

**PoolServer.**  One iteration of `dispatchThread` step by step, from `SemWait` to
`CloseSock`, which comes after `SemPost` because `sock` is destroyed at the end of the
block.  The main thread is one more worker.  A program that one worker forks has copies of what others have still to close.
`handle()` runs with the semaphore held, so whoever keeps one worker waiting keeps all: `Stalling` is a client that has not completed its handshake or
request or does not read, `Running` a program that has not ended, and `PromptHandled` has as its premise that neither is for ever.

**Respond.**  No state: `Part` is the order of the tests in `handle()`, `Lengths` the values
`resp.len` can have (a set, `Garbage`, where it was never written), `ToString` the tests on
marker strings in `HttpResponse::to_string()`, in the order of the code, `Replies`, `RouteAfter` and `CodeAfter` what is
sent and what stays in the globals.  Names, contents and sizes are reduced to what these
tests tell apart.

**CgiBin.**  A thread in `handle_cgi_bin` is `Pipe`, `Fork` or `ForkFails`, `Waited`, `Closes`, `Reads`, `ReadsEnd`; in
`loadableModulesHandler` `Find`, `DlOpen`, `Insert`, `DlSym` and the fork again.  `writers[t]` has everybody with the write end of the
thread's pipe open: the server from `pipe()` to `close()`, and *every* child that was forked in between.  `Zomb` may
reap a child before its thread does.  Two threads inside the map, one of them inserting, is undefined behaviour: `Race` lets the server crash,
the other steps let it go well.  Bytes are counted, and so are those before the first NUL (`Text`), as `std::string(op)` ends there (`UpToNul`); `op[10000]` is taken to be long enough.
Nothing terminates the array `pth` that a module's name is copied to: `name[t]` is what it holds, out of the names in `Pth` for that module, and it is the name
that is looked up, opened and kept.  A library may have no `httprun` (`bare`).  A failed fork is `ForkFails`: the end of the server for a program, of the request for a module.

**LinearServer.**  The loop of `run_linear` as `Top`, `Accept`, `HandleReturns`, `Stats`
(`NewFirst`, `NewLow`, `NewHigh`, `NeitherNew`: the three branches and the missing
`else`), and `logProcess` as `LogOpens` and a `LogWrites` for each of the five parts of a line, then `Counts`; `Dies` between any two steps and `Restart`.
So a crash can tear a line, and the next one, of the restarted server, goes on behind it in the file.  `loghelp` may not exist (`NoFile`), and
then `fgetc(NULL)` ends the process where the address should be written.  With `-s` (the loads in `Https`) nobody writes `loghelp`.  Time is a pair
of numbers of a connection: the wait in `accept()` and the stay in `handle()`;
`ToInt` is the conversion to `int`.  `served`, `since`, `lasts` and `starts` are history variables.  A crash within `updateStat` leaves a torn `stat.txt` only until
the top of the loop of the next process, which writes it anew before anybody is served, so it is one step here; one within the constructor of `TCPSocket` leaves an empty
`loghelp` only until the next connection.

**Service.**  Connections are accepted in order, handled at most once and only while
open, closed only by the server, its children and programs included.  Once the process that accepts has gone, connections may still be established while `listening`, but none is accepted.  `ForkServer`, `ThreadServer` and `PoolServer` each
have it as the property `ImplementsService`, under the mapping `Status` of `Sockets`.

**LintErrors, LintGuard, LintRun.**  `LintErrors` has `_ShouldPrintError`, `IsErrorSuppressedByNolint`,
`ParseNolintSuppressions` and `IncrementErrorCount` as operators on filters (a sign and the category they are about), suppressions (pairs of a category and a line) and
counts; a category is the sequence of its parts, so that a filter's prefix is `IsPrefix`.  `LintGuard` has the path a guard is named after and what is wrong with the
guard.  An extension made valid by a `headers` line of some configuration stays valid for the files after it: `ExtsUpTo` is what can have become valid.  In `LintRun` a run of the program is a `TakeOption` for each option and `ParseArguments` at their end; then for each file
`BeginFile`, a `LookUp` for each directory upwards with an `Exclude` or a `TakeSetting` for each line of its `CPPLINT.cfg` and `CloseConfig` at its end,
and `ApplyFilters`; then `Unreadable`, `Ignored`, or `StartFile`, a `ProcessLine` per line and `FinishFile`; and at the end `Finish`.
`state` is what `_cpplint_state` keeps of the options but for the filters, `opt` what the module's globals keep; `at`, `keep`, `found` and `row` are
`abs_filename`, `keep_looking`, `cfg_filters` and the line or option that is next.  What
regular expressions find in a line is given with the file (`faults`); which of it is printed is computed.  `used`,
`log` and `said` are history: the options a file was checked with, the errors printed, the lines on standard output.

**LintBrackets, LintNesting, LintIncludes, LintFile.**  A text is a sequence of lines and a line a sequence of tokens, of which
one stands for as much as the code tells apart (`class` for a class head with its name, `namespace a`, `access:`, `w` for any other word).
Besides its tokens a line has what other parts of the code read of it: its indent, the signs in its string literals (`strings`, which `CheckForFunctionLengths`
still sees, in `Shows`), and `back`, what stands behind the place where `InTemplateArgumentList` begins, which after a namespace on the line is too far to the left.
`Forward` and `Backward` are one token of `FindEndOfExpressionInLine` and `FindStartOfExpressionInLine`; `Update` is
`NestingState.Update` with its parts in the code's order (`UpdatePreprocessor`, `CountParentheses`, `TakeNamespaces`, `TakeClass`,
`AccessErrors`, `Consume`); `CheckIncludeLine` and `CheckForIncludeWhatYouUse` work on a header's directory, base, extension and place in the
alphabet; the suffixes that `FilesBelongToSameModule` compares are whole components of a path, and `public` or `internal` is taken out only between two others (`WithoutDir`).  `LintFile` has the three states as variables, `ProcessLine` and `FinishFile` as actions, and collects all errors; `skipped` is
a history of the lines in assembly, where the code does not look at directives.  `Pair` in `LintBrackets` is not code but what two brackets
have to be to belong together: between them a matching can be chosen.

**LintCleanse, LintText.**  `Elided` is `CleansedLines.elided`: `RemoveMultiLineComments`, `CleanseRawStrings`, `CleanseComments` and
`CollapseStrings` one after another, on characters.  `LintText` types a text token by token; `Pair`, `AnglePair` and `Lexed` say what C++
makes of it.

## 3. Runs

Run one with `tlc -config fork.cfg MCForkServer` and so on.

| Run | Instance | Checks | Shows |
|---|---|---|---|
| `fork` | TLS, 3 clients (two prompt, one faulty), 2 children, backlog 1, SIGINT to children, `fork()` may fail in them; symmetric children and prompt clients | `TypeOK`, `NoLostZombie`, `ServedOnce`, `OwnDescriptorsOnly`, `ParentSurvives`, `ImplementsService` | every interleaving of parent, children, their programs, handler and clients keeps zombies, descriptors and connections accounted for; only a reset in a handshake ends the parent |
| `fork_live` | TCP, a prompt and a slow client, SIGINT possible to the parent and all children but one | `ZombiesReaped`, `PromptClosed`, `ChildrenFinish` | zombies go, a slow client does not hold up a prompt one, a child finishes without its parent and without the children that the same SIGINT ends |
| `thread` | TLS, 3 clients, 2 threads, 4 descriptors; programs, modules, a `fork()` that fails, SIGINT possible | `TypeOK`, `SoleOwner`, `ServedOnce`, `ImplementsService` | in the server a socket has one owner, at the limits and at the process's end too, and outside it only programs that are waited for have copies |
| `thread_live` | TCP, a prompt and a slow client, enough threads and descriptors, none of what ends the server without a faulty client | `OutlivesSlowClients`, `PromptHandled` | threads do not pile up; slow clients do not stop prompt ones |
| `pool` | TLS, 3 clients (one prompt, one slow, one faulty), 3 workers, backlog 1; programs, a `fork()` that fails, SIGINT possible | `TypeOK`, `OneInside`, `ServedOnce`, `ImplementsService`, `PromptHandled` | the semaphore counts, a socket still open after the post is its worker's alone, and no post is lost: a prompt client is served unless another client stalls or a program runs for ever |
| `linear` | three loads: 3 connections with short and long waits; 2 connections with every exchange `Respond` tells apart; 2 over TLS; `loghelp` there or not; 2 starts | `TypeOK`, `StatsTrackExtremes`, `BothUnitsAgree`, `StatFileFresh`, `LogNamesClients`, `CodeOfAuthorized`, `NeverShort` | exactly what the figures are, overflow and restart included; what the log has after crashes, in the middle of a line too; lengths never exceed what is sent |
| `linear_min` | 2 connections | `MinIsMinimum`, **violated** | times under 1 ms are forgotten |
| `cgi` | 2 threads, a program that fills a pipe and has a NUL in its output, one that writes a byte more, a module whose name may have something behind it in `pth` and that may be installed late, 3 requests | `OutputWhole`, `AnsweredUnlessStuck`, `VerdictsStand` | an answer has all of its own program's output up to the first NUL and leaves nothing behind; the only thing to wait for without end is a program that writes more than a pipe holds; what `dlopen()` said first of a name stands |
| `lint_run` | 8 command lines and 6 that are refused, configurations in two directories, two or three files of two or three lines | `ReportsAreOwn`, `CheckedAreIncluded`, `CountsAgree`, `QuietIsQuiet` | filters and suppressions do not leak from file to file; exactly what can be read, is not excluded and has a valid extension is checked, where an extension may have become valid by an earlier file's configurations; counts, exit status and `--quiet` agree with what is printed |
| `lint_width` | the same | `WidthOfNearest`, **violated** | a parent's line length overrides a nested one, and stays for later files |
| `lint_file` | all texts of 3 to 6 lines from lines about branches, heads, namespaces, functions and headers; those with headers in a .cc and in a .h file | `StackIsOfPath`, `BlocksAreBraces`, `FunctionsMeasured`, `IncludesJudged` | the state kept from line to line is that of C++ in texts that are regular, and nothing of a branch that is over remains |
| `lint_text` | all texts of 4 to 7 tokens from eight alphabets | `BracketsPair`, `ElidedIsCode` | the two searches agree with each other and with what is a pair; what is left of a line is its code |

Bounds.  Three connections let one be served, one be closed and one wait in the backlog at
the same time, with clients of different manners (a faulty client does all that a slow one may); since a connection may be reopened,
no run of a mode is bounded in length.  Two children or threads are the fewest for which one dies
while another lives and one fails to be created; three workers are the fewest with one
inside, one that closes after its post and one that waits.  With 4 descriptors and one
file per reply both limits of `thread` are reached: descriptors when a thread has a file open, threads when
none has.  A backlog of 1 is the code's
own value over TLS; 2 stands for 50 over TCP, where no property depends on its size.
In `linear` three connections are the fewest that have a maximum, a minimum and
one that is neither, and `Milli` = 2, `IntSpan` = 12 with waits of 0 and 5 and stays of 0 and 2 give 0,
1, 2 and 3 ms, two of which (5 and 7 microseconds in a span of -6..5) reach and cross the edge
of an `int`.  The second load has a second connection so that each exchange
follows one that left something different in the globals, and a second start for the
crash between `handle()` and the log.

In `cgi` two threads are what it takes for a fork between another's `pipe()` and `close()`, and for two inside the
map; three requests let one thread have one that follows another while the second is at work, so that something left behind would be met.  A pipe of 2 bytes tells apart full, partly full and empty;
the programs write `PipeCap` and `PipeCap` + 1 bytes, the boundary.  In `lint_run` two files in two directories are the fewest where one
can leave something behind that the other's configuration would not give it; the lines' `NOLINT`s are put before, at and after the line of each
kind of error.  The texts of `lint_file` have room for a conditional with two `#else`, or one in another, for a head over three lines, and for assembly inside of a
function; with `NormalTrigger` = 1 and `Verbose` = 1 functions of two and three lines are just within and just
beyond the limit.  In `lint_text` an alphabet's length is the longest that leaves the run within minutes; each has all the signs that one branch of the code looks at.

`linear` and `linear_min` stop when a load is over, `cgi` after `MaxRequests` requests or with a crash, the `lint` runs at the
end of a text or of the program, and `fork`, `fork_live`, `thread` and
`pool` after SIGINT or what else ends the server, so these do not check deadlock; `thread_live`, whose server nothing ends, does.

Symmetry (of the children and of the two prompt clients) is used in `fork` only, which has no liveness property.

Fairness.  Weak fairness of the parent, of each child, thread or worker: the kernel
schedules what can run.  Weak fairness of the handler: a pending SIGCHLD is delivered and
`zomb()` runs to its end.  Weak fairness of the request of each client in `Prompt`, which is the
premise of the properties about prompt clients.  Nothing is assumed of other
clients, of programs that a request starts, of SIGINT or of failures.  No strong fairness is used: `sem_wait` gives none, and
`PromptHandled` of the pool does not need it as any worker will do.  What a property needs of others is its premise: that the prompt client's own
program ends (`PromptClosed`, `ChildrenFinish`, `PromptHandled` of the thread mode), and, in the pool, that no other client stalls and no program runs
for ever, as its `handle()` keeps the semaphore.  Each of these premises is `[]<>` of the contrary, so a client may stall and resume as often as it likes.  In `cgi` the threads, the children
and the delivery of SIGCHLD are weakly fair; a child that waits for room in its pipe is not enabled, so fairness does not
help it.  The style checker's properties are safety properties.

## 4. Proofs

Every safety property of the runs of the server is proved for every value of the constants, and of the style checker all but the four that the
end of this section names.
All sets (connections, children, threads, workers, clients, programs, modules, inputs) are arbitrary, and
only the connections and the threads of the thread mode have to be finite, as they are counted.

| Module | Theorem | Statement |
|---|---|---|
| `ForkServerProofs` | `TypeCorrect`, `DescriptorsOwned`, `HandledOnce`, `ZombiesNotLost`, `ParentEndsInTwoWays` | `Spec => []TypeOK`, `[]OwnDescriptorsOnly`, `[]ServedOnce`, `[]NoLostZombie`, `ParentSurvives` |
| | `ForkImplements` | `Spec => ImplementsService` |
| `ThreadServerProofs` | `TypeCorrect`, `SocketOwned`, `HandledOnce`, `Outlives` | `Spec => []TypeOK`, `[]SoleOwner`, `[]ServedOnce`, `[]OutlivesSlowClients` |
| | `ThreadImplements` | `Spec => ImplementsService` |
| `PoolServerProofs` | `TypeCorrect`, `MutualExclusion`, `HandledOnce` | `Spec => []TypeOK`, `[]OneInside`, `[]ServedOnce` |
| | `PoolImplements` | `Spec => ImplementsService` |
| `LinearServerProofs` | `TypeCorrect`, `NothingIsCutShort`, `LogHasTheStatus`, `LogIsComplete` | `Spec => []TypeOK`, `[]NeverShort`, `[]CodeOfAuthorized`, `[]LogNamesClients` |
| | `ExtremesAreRight`, `UnitsAreOfOne`, `FileIsFresh` | `Spec => []StatsTrackExtremes`, `[]BothUnitsAgree`, `[]StatFileFresh` |
| `CgiBinProofs` | `TypeCorrect`, `OutputIsWhole`, `VerdictsAlwaysStand` | `Spec => []TypeOK`, `[]OutputWhole`, `VerdictsStand` |
| `LintRunProofs` | `TypeCorrect`, `CountsAreRight`, `ExclusionIsObeyed`, `QuietRunsAreQuiet` | `Spec => []TypeOK`, `[]CountsAgree`, `[]CheckedAreIncluded`, `[]QuietIsQuiet` |
| | `FiltersAreRestored`, `NearestDecides` | `Spec => []FiltersInv /\ OneBackup`, `Spec => []OffInv` |
| | `ReportsAreTheirOwn` | `Spec => []ReportsAreOwn` |
| `LintFileProofs` | `StackFollowsPath`, `IncludesAreJudged` | `Spec => []StackIsOfPath`, `[]IncludesJudged` |
| | `PartnersAreFound` | of every sequence of tokens: `CloseExpression` and `ReverseCloseExpression` find `Pair` |

All but `LinearServerProofs` and `LintFileProofs` have the invariant that these follow from as a theorem `Invariance`, `Spec => []IInv`.  `TypeOK` of `CgiBin` and of
`LintRun`, `FiltersAreRestored`, `NearestDecides` and `PartnersAreFound` are proved without being listed in a run.

Assumptions.  `SocketsAssumption` (prompt and faulty clients are disjoint sets of connections, the backlog has room for one),
`ForkAssumption`, `ThreadAssumption`, `PoolAssumption` (the parent or main thread is not one of its children or threads, `None` no connection, SIGINT reaches some of the
server's processes; the thread mode's sets are
finite and its limits numbers), `LinearAssumption` (a load is a sequence of sets of visits; `Milli`, `IntSpan` and `MaxStarts` are at
least 1), `RespondAssumption` (sizes and garbage are numbers), `CgiAssumption` (outputs are numbers, with no more before the first NUL than in all; a module has some names in `pth`; the pipe holds a byte), `InputsAssumption` (a file has a
name, lines, and in each line finitely many faults; configurations and options have their lists), `LintFileAssumption` (a text is a sequence of lines and a line one of tokens).  Each is a fact about the environment, and TLC evaluates it on every run.

**Sockets and Service.**  `SocketsProofs` has what `Tail` and `Append` do to a sequence without repetitions (`OldestLeaves`, `NewestJoins`), and
that clients and `accept()` keep the state of the connections well typed and the backlog sound.  Its second half is the refinement, once for all modes: what
`accept()`, a return of `handle()`, a client's step and a hidden step are in `Service` (`AcceptRefines`, `HandleRefines`, `ClientRefines`,
`HiddenRefines`), and every step in which somebody gains copies or gives up descriptors, copies or the listening socket: `ReleaseRefines`, of which a program's
start, its end and the death of the process are cases (`StartReleases`, `StopReleases`, `DeathReleases`).  `SocketsInv` has that the socket is open while the
server is up or a program runs (`ListeningOK`) and that nothing is left of a connection that no client has opened (`UnopenedOK`).  Each mode has only to say which of these its steps are, and that their premises hold.

**ForkServer.**  `OwnDescriptorsOnly` is not inductive: `Fork` copies *all* the parent's
descriptors, and only if the parent never has more than the one in `sock` does the child get
just its own; that is `CurInv`, and `HolderInv` and `CopyInv` say the same of the child and of its program.  `ListenInv` has every child keep the listening socket open, so that the backlog goes only with the last process.  `ServedOnce` needs that no two children live for the same
connection (`ChildInv`), which `Fork` keeps because what the parent holds has no child yet
(`OfferedInv`), which `Accept` keeps because what comes from the backlog has no
holder and has not been handled (`BacklogOK`), which a client's `Connect` keeps because
a connection without a client's end has no holder and is not queued (`UnopenedOK`).
`NoLostZombie` is proved apart, with the fact that zombies exist only while the parent
lives (`ZombieInv`): a child's death sets the pending bit again, and the handler leaves its loop
only when there is no zombie.

**ThreadServer.**  The same chain with ownership that moves instead of being copied: `HoldersInv` says that the owners of a connection are its
thread, or the main thread as long as it offers it, `JobInv` that no thread outlives the process, and `CopyInv` that while it lives copies are those of programs whose thread
waits, the connection of that thread among them.  `Outlives` has the invariant `UpInv`:
under the premise of the property the process is up, as no client has done what only a faulty one does (`MannersInv`, `ThreadSucceeds`).  Its proof counts: the threads that live have different connections (`JobsCounted`), none of them the
one the main thread is about to accept or to move, so a thread is free and the descriptors suffice (`AcceptSucceeds`, `SpawnSucceeds`).

**PoolServer.**  `IInv` gives each connection one worker from `accept()` to the close, which is after the post, and copies to the program of the one worker inside.  `MutualExclusion` needs
only `TypeOK` and `SemaInv`: the workers inside and the semaphore's value add up to one as long as the process lives.

**LinearServer.**  No single invariant; the parts build on `TypeInv`.  `RepliesOf` is about `Respond`: of every exchange, whatever `len` contains,
a 200 announces no more than is sent and goes only to the right credentials.  `LogInv` has a line for each connection that is `Due` one (`HasLine`), all whole but the one being written and those that a crash tore, which are the last of
their process's; `LinesAreOfServed` that their addresses are the clients'.  `CodeInv` follows the code through the globals: where something was sent, it is the status of that.  `Highest` and `Lowest` say what the longest and the least time of a sequence are, by elements and not by `Max` and `Min`;
`HighestGrows` and `LowestGrows` what one more connection does to them; `CountedGrows`, `CountedKept` and `CountedAfresh` which steps count one.
From these `ExtremesInv` is inductive, with `LowestTyped` as the reason that the code's test for the first
time is right from the first millisecond on: the extremes are 0 together exactly as long as nothing longer was counted.

**CgiBin.**  `JobInv` has a thread's place agree with what it was asked for.  `PipeInv` is the account of the bytes: what a thread has read, what is in its pipe and what its child has still to write add up
to its program's output, and a pipe is empty when a program begins.  `VerdictInv` has a thread's knowledge of its name (`begun`, and the `lib` it found) agree with
the map, which holds as nobody overwrites an entry (`Inserted`).

**LintRun.**  `TodoInv` has the files that are left as the rest of the command line.  `LookInv` is about the search upwards: the directories below
the present one were all read and none excluded the file or stopped the search (`Searched`), and so were the lines above the present
one (`Reading`); at its end this is the definition of `Excluded`, which is in terms of the tree alone (`ExcludedAt`).  For `ExclusionIsObeyed` `UsedInv` has also which files were
checked (`Included`), and `ExtsInv` which extensions are valid: those of the command line (`ValidInv`), those of configurations that were read, for this file (`ScopeInv`, `ReadInv`) or,
as the list is global, for one before.
`CountInv` needs that every error reported is a new one, as the log is a set: `LogInv` has, of the file in process, only errors of the
lines that were processed.  `old` is the number of errors of the files before (`CountedSince`), on which `--quiet` depends (`SaidInv`).  `FiltersInv` says that
whichever way a file was left, the next begins with the filters that the first began with.

`ReportsAreOwn` compares what was printed with `Off`, which is about the tree of configurations and the command line alone, and so needs to know where each filter list
came from.  `BaseInv` has the filters a file begins with as those of the command line, `FoundInv` says of the lists that
`LookUp` and `TakeSetting` have gathered that the first to say anything of a category is the strongest of those read so far (`Gathered`), and `OffInv` that the filters in
force while a file is checked turn off what `Off` says: the nearest directory that says anything decides, and the command line only if none does (`NearestDecides`).
`SuppInv` has the suppressions in force as those of the file's own lines that were parsed.  Then `OwnLog` says of each error of the log, not only of the present file, what
`ReportsAreOwn` says of the finished ones; an error can only be added for the present file, by its own filters and suppressions.  The filters are a fold
over a list (`Filtered`).  What a fold is after one more element, and that a fact kept by each step holds at the end, is proved for each fold on its own from a
least counterexample (`WFMin` of the natural numbers), as a general induction theorem would have an operator as a parameter.

**LintFile.**  `StackIsOfPath` is proved from `NestAt`, which `NestingState.Update` keeps from line to line.  `PPIs` says that the entries of the preprocessor's stack are, in order,
the conditionals that have the line (`OpenAs`), and of each entry (`BranchesAt`) that `beforeIf` is the stack of the path up to its `#if` and `beforeElse` that
of the path through its first branch (`PathBut`).  The proof is about `Path`: which lines of it a directive changes (`OtherLine`, `IfLine`, `InnerLine` and `EndifLine`
for the four kinds of line), and that `StackOf` depends only on the lines that are on it.

`IncludesJudged` has `IncludesInv`: the section is the greatest rank of the headers since the last directive (`SectionIs`); what is listed was included, in the last list
since the last `#if` or `#else`, and no `#else` has left it out since (`ListIs`, `EntryIs`); what was included is listed unless an `#else` with no `#if` in between
has left it out (`Kept`, `Dropped`).  Of duplicates `RepeatAt` has the exact law: a header is reported unless each earlier one was dropped, nested conditionals and stray `#else` included; that the report is right without these
follows from what an `#else` in between says about the branches of the two lines.  `Judged` adds that what the property says of the lines so far stays true, for which the errors about headers
have to be of lines that are over (`ErrorsAre`).

`PartnersAreFound` is about the two searches as one: either reads a sequence of signs (`Reads`), from left to right or from right to left, and
differs from the other in which brackets open and which tokens it skips (`Rightwards`, `Leftwards`).  One half follows the search: its stack
has the positions that wait for a partner, and everything between two of them is settled, so where it stops there is a pair.  The other half
starts from a matching: at every position, those that wait are exactly those whose partner is still to come, so the search can neither fail nor stop early.
`Carried` moves a matching from the signs as they were read to the positions in the text.  This is what `BracketsPair` says of round, square
and curly brackets, here without a bound on the text, and with every `<` and `>` in it.

What proving changed.  Some definitions were wrong or narrower than they looked, and the small instances did not show it:
`OutlivesSlowClients` did not say that a client that hangs up during its handshake ends a server over TLS; `StatsTrackExtremes` and `StatFileFresh` did not exclude times whose
milliseconds overflow an `int`; the addresses of `LogNamesClients` are only right over TCP, as over TLS nobody writes `loghelp`; two arms of a `CASE` in `Respond` and in `LintBrackets` could hold
at once; in `LintRun` the options and a whole configuration were one step each, by a fold, where now each option and each line is one; `IncludesJudged` held of texts with
directives in assembly only as none was checked, and now says which lines it is not about; its half about headers that are missing had only .cc files to
be checked on, of which it says nothing, and is now checked on a .h file too.  `StackOf` is a fold over all lines and `Pair` the existence of a matching, where recursive
definitions were.

Only model-checked:

* liveness (`ZombiesReaped`, `PromptClosed`, `ChildrenFinish`, `PromptHandled`, `AnsweredUnlessStuck`): fairness and `ENABLED` are
  beyond the proof system;
* `BlocksAreBraces` and `FunctionsMeasured`: they hold of texts that are written as those of the run are.  The code knows heads, assembly and functions by
  patterns of a line, which other texts get around: after `;`, `asm {` in the middle of a line begins assembly as well, and `InAsm` does not have that;
* `BracketsPair` for angle brackets, and `ElidedIsCode`: `LintCleanse` and `LintText` use recursive operators, with which the proof system cannot work.

## 5. Where code and comments part

Two runs expect a violation.

* `linear_min`: `min == 0 && max == 0` (`server.cc:232`) stands for "no request yet" but holds
  also after requests of 0 ms, so `min` is not the minimum, against the comment above it.  `StatsTrackExtremes` says what it is.
* `lint_width`: the usage text (`cpplint.py:186`) has a configuration count for the files below it "unless overridden by a nested
  configuration file", but the walk goes upwards and assigns `linelength` to a global each time (`cpplint.py:5993`): the
  outermost wins, and the value stays for files elsewhere.  Filters are collected and reversed for this reason; the line length, the
  root and the headers are not.  `ReportsAreOwn` therefore takes these three as they were, and shows that nothing else leaks.

Seen while modelling, in the modules as the code has them, without a run of their own:

* `stat.txt` has the URI of the minimum on the line of the maximum and the reverse, when it is written at
  `server.cc:211`, `:244` or `:249` (`m` and `s` are exchanged in the calls of `updateStat`, `:80`); the total
  counts the connection that is awaited (`:202`, `:211`); the time of a request includes the wait for
  it (`start_p` at `:215` precedes `accept_connection()`).
* A 401 returns (`server.cc:697`, `:709`) before `responseCode` is set, so the log has the code of the request
  before (`CodeOfAuthorized` says when it is right); listings, 401s and missing nested files are logged as `/logs` (`:666`).
* Over TLS nobody writes `loghelp`, so the log has an old address or none (`tls.cc:68`, read at `server.cc:159`).  If the file does not exist, `fopen()` gives `NULL`
  and the first request ends the server.
* A crash between the writes of `logProcess` (`server.cc:168-187`) leaves a line without an end, and the next server writes its first one behind it.
* SIGPIPE keeps its default action (`main.cc`): a client that resets in its handshake can end the process that accepts, the parent of fork mode too (`tls.cc:204`), and one that resets while
  it is answered over TCP ends what answers it.
* Children of fork mode keep the listening socket (`server.cc:270`) and `signal_handler()` (`main.cc:73`): ctrl-C ends them in the middle of an
  answer, and a SIGINT to the parent alone leaves a socket on which clients are queued and never accepted until the last child has ended.
* Programs and modules inherit every socket of the process (`cgi_bin.cc:120`, `:207`), in thread and pool mode those of other clients too: such a client sees the end of its answer only when
  the program of somebody else has ended.
* In pool mode `handle()` runs with the semaphore held: a program that does not end, or a client that does not read, stops all workers.
* Content-Length is one more than a file's size while four bytes follow the body (`server.cc:453`,
  `http_messages.cc:224`), and uninitialised when neither a file nor a listing was tried (`http_messages.hh:22`).
* A nested URI with a `?` lists a directory that need not exist (`server.cc:758`).
* A file whose content is one of the marker strings is answered as an error (`http_messages.cc:188`).
* In pool mode one connection is served at a time, and over TLS `SSL_accept` blocks the accepting loop of
  every mode (`tls.cc:204`): a client that stalls there stops the others.
* What a program prints behind a NUL is not answered, as the buffer is returned as `std::string(op)` (`cgi_bin.cc:245`).
* The array `pth` has no NUL at its end (`cgi_bin.cc:51`, `:64-67`), so a module may be looked for under its name with something behind it, found or not, and kept under that.
* A program that writes more than a pipe holds never ends, as `waitpid()` comes before the read (`cgi_bin.cc:223`), and its
  request never does; so do requests whose pipe was open when it was forked (`:191`).
* A failed `dlopen()` is kept as `NULL` and the module is not tried again (`cgi_bin.cc:96`).  A failed `fork()` ends the server if it is for a
  program (`:221`), and only the request if it is for a module.

And in `cpplint.py`:

* By the usage text (`:174`, `:193`) `exclude_files` is matched against a file name, in the directory of the configuration and all its subdirectories.  The
  code takes the part of the path just below that directory (`:5981`), so for a file further down it is a subdirectory's name that counts, and one whose own name matches is
  checked.  The comment in the code (`:5973`) has it as it is, and so has `Excluded`, on which `CheckedAreIncluded` rests.
* The position `end_declaration` is one in what is left of the line after its namespaces (`:2668`), but `InTemplateArgumentList` indexes the
  whole line.  In `namespace a {template <class T> class X {` it starts among the parameters, and the class is not put on the stack.  `lint_file` has this line;
  `BlocksAreBraces` leaves out texts where the search
  meets anything but a brace first (`SearchedRight`), and says that otherwise the wrong position does no harm.
* The list of headers that an `#else` starts again is that of the innermost `#if` seen (`:766`), which after a nested one is not the
  `#else`'s, so that a header in each of two branches is said to be "already included".  `DuplicatesFound` has the rule of the code, for all texts; `DuplicatesJudged` that
  it is right without nested conditionals.
* `operator>` is recognised backwards but not forwards, where the slice lacks a character (`:1573`, `:1669`).
* All up to the first brace is taken for the head of a namespace, another namespace included (`:2628`).
* `NOLINTNEXTLINE` is of no use for a header guard, as the line of the guard is all that is parsed (`:1941`, `:1948`); an unknown category in the `NOLINT` on that line
  is reported twice; a comment that is not closed is reported one line late (`:1399`).
* `--extensions` after `--headers` drops the extensions that the latter added (`:577`); `--quiet` is about standard output only (`:6107`, `:6225`).
* A comment over several lines is looked for in lines that end with `*/`: with code behind its end, all up to the next such
  line is removed without a word (`:1374`).  `/*/` is taken for closed (`:1377`).  Quotes, backslashes and raw strings in
  comments are read as if they were code, and a string that ends in `R`, followed by `"(`, as a raw string (`:1338`).
* The lines of a raw string become `""`, where the comment has them blank (`:1287`, `:1324`).
* A filter without a sign, as `FOO` in the usage text of `--filter`, is refused by `AddFilters`.  The module does as the code does; no property is about it.
* The search for the body of a function reads lines with their strings (`:3068`, `:3088`): a `;` or `}` in a literal of the head makes it a declaration, which is not measured.
* In the paths of a file and a header only `/public/` and `/internal/` with both slashes are replaced (`:5450`): `public/f.h` is not of the module of `d/f.cc`.
* At a class head `InTemplateArgumentList` reads on over the lines behind, those of another branch included.  `StackIsOfPath` does so on both of its sides, and so says nothing of this.

## 6. Not modelled

* Directory listing and the byte-level request reader: planned, see below.  `Respond` has when
  they are reached and what `handle()` does with their result.
* The globals as written by several threads at once: in thread and pool mode nothing reads `a`, `route` and `responseCode`;
  only `run_linear` does, and it runs alone.
* Content types and the layout of headers, pages and log lines: formatting.
* Start-up, option parsing and OpenSSL set-up: straight-line code that runs once; `misc.cc` and the route stubs, which
  nothing calls; `examples/`, `http-root-dir/cgi-src/`: not part of the server.
* What the program or module of a request does but write, keep descriptors open and end; an output longer than `op[10000]`.
* In `cpplint.py` the checks of a single line (spacing, casts, names, and others): each is a set of regular expressions
  without state.  `LintRun` takes what they find as given.  Of the classes on the stack the `DISALLOW` macros, the end line, `is_derived` and
  access within classes; in cleansing, blanks, the quotes of `#include` lines and continued lines; the output formats.

## 7. Plan

Done: `Sockets`, `Service`, `ForkServer`, `ThreadServer`, `PoolServer`, `Respond`, `LinearServer`, `CgiBin`, and of the style checker
`LintErrors`, `LintGuard`, `LintRun`, `LintBrackets`, `LintNesting`, `LintIncludes`, `LintFile`, `LintCleanse`, `LintText`; proofs about `Sockets`,
the three concurrent modes and their refinement of `Service`, `LinearServer` with `Respond`, `CgiBin`, `LintRun`, `LintFile` and `LintBrackets`.

Next, models: `RequestReader` (the three `readline()`s and `tokenize()` against a reference split over short inputs) and
`DirListing` (the comparators `comp` and `comp1` and the four modes against the set of entries).

Next, proofs: `FunctionsMeasured`, once `InAsm` has assembly that begins in the middle of a line; and `LintCleanse` as functions instead of
recursive operators, which would open `ElidedIsCode` to proof.
