# wye: a specification

wye-service starts, watches and stops the worker processes of streaming jobs.
Clients ask it over HTTP, one JSON request per connection; a worker tells it
over a pipe how its start went. This directory holds TLA+ modules for the parts
of the service that are hard to test, the TLC configurations that check them,
and proofs of the properties that matter most.

Paths below are relative to the repository.

## 1. The system

### Components

| component | code | state | operations |
|---|---|---|---|
| manager | `src/manager.C`, `job.C`, `worker.C` | map of workers, map of jobs, `workers_mutex`, `jobs_mutex` | `create_job`, `create_worker`, `delete_worker`, `delete_job`, three read-only requests, `run` (monitor thread), `stop` |
| worker process object | `src/process.C`, `application_process.C` | `proc` (child object or null), `state` RUNNING/STOPPED, `inputs` | `run`, `run_process`, `is_running`, destructor |
| service | `src/main.C` | event loop, one-shot signal handler, acceptor | accept, dispatch, SIGINT/SIGTERM |
| connection | `src/connection.C` | coroutine per client, HTTP socket, message | read a request, handle it, reply, close |
| HTTP socket | `http/include/boost/http/socket-inl.hpp` | read and write state, a fixed buffer (256 bytes in the service), the place of the parser in it, `keep_alive` | `async_read_request`, `async_read_some`, `async_read_trailers`, `async_write_response` and its parts |
| HTTP parsers | `reader/request.ipp`, `reader/response.ipp`, `syntax/` | state, body type and size, place and size of a token | `set_buffer`, `next`, `value`, `puteof`, `set_method`, `reset` |
| HTTP file server | `file_server.hpp`, `algorithm/header.hpp` | the ranges, the place in the file and in the text of a multipart answer | `async_response_transmit_dir`, `async_response_transmit_file`, their two loops |
| child processes | `process/boost/process` | pids, descriptor tables, pipes | `posix_launch`, `launch`, `launch_pipeline`, `posix_start`, `terminate`, `wait`, `wait_children`, `systembuf::underflow` |
| worker runtime | `python/wye/func.py`, `examples/` | control pipe (descriptor 3), ZeroMQ sockets | `INIT`, `INPUT`, `RUNNING`, data |
| client library | `python/wye/__init__.py`, `context.py` | job and workers under construction | `Job.implement`, `Worker.implement`, deletes |
| utilities | `utils/` | none | one request each |

### How they interact

    client --HTTP--> connection --call--> manager --owns--> process --fork, kill, waitpid--> worker
                                            ^  workers_mutex                                  |
                     main's signal handler -+                                                 |
                     monitor thread --------+            control pipe, fd 3  <----------------+

* The main thread runs `ios.run()`: every coroutine and the signal handler.
  `manager::handle` never yields, so requests exclude each other, and a request
  that blocks (a read of the control pipe, a wait in a destructor) blocks all
  clients and the signal handler.
* The monitor thread takes `workers_mutex` once a second and calls
  `is_running` on every worker.
* Worker processes run, speak and die at any moment.

### What is hard in it

* Two threads call `waitpid` for the same children. The `waitpid` that reaps a
  dead worker *succeeds*, so the worker stays RUNNING with a child object that
  names a dead, reusable pid until a later sweep fails on it
  (`process.C:243-257`).
* Erasing a worker runs its destructor, which signals, waits and may throw; an
  exception that leaves a destructor or the monitor thread ends the service.
* `create_worker` puts the worker in the map before it starts it and leaves it
  there when the start fails.
* `delete_job` and `stop` are loops of blocking erases which must look atomic.
* A signal interrupts blocked system calls (no SA_RESTART): a read then looks
  like an end of file, a wait throws.
* The handshake crosses two buffers, and processes started by a worker inherit
  the pipe.
* A message comes in pieces cut anywhere; the parser keeps a place in a buffer
  that is moved and refilled between two tokens, and lengths and ranges are
  numbers of limited width.
* A child of a launch begins with all descriptors of the service and sorts them
  out by itself, one after the other, while launches fail halfway.
* An answer of the file server is read from a file that changes meanwhile, after
  its head has promised a size.
* `Job.implement` is a sequence of requests of which any may fail, take effect
  unnoticed, or meet a delete by another client.

The `hazards` of `PROJECT.json` list these one by one, with the line where each
bites and the properties that watch it.

### What makes each component correct

| component | properties |
|---|---|
| manager | no iterator of the monitor dangles; a deleted job leaves no worker and no process; requests are atomic for clients; requests end; SIGTERM ends the service, and when it ends it cleanly no process is left |
| process objects | no child is lost between the two threads; STOPPED means dead; a dead worker becomes STOPPED; only a removed worker is killed |
| handshake | the reply follows the first decisive line; the inputs in it are those announced before; a decided start is answered |
| connection | the socket is called in order; a request is handled only when its whole body is there; a complete request is answered; only a client that breaks its exchange ends the service |
| HTTP parsers | what is reported is what the sender meant, whatever the cuts; all of it, once it has come; no number is misread |
| HTTP socket | the application gets the message; no read stalls or fails for want of room unless something really does not fit; replies are whole and in turn; the connection stays open when both sides want it |
| launch | a program begins with the streams it was promised and no other; the service leaks no descriptor; outputs end and waits return |
| file server | the client gets the bytes it asked for; every call ends, its handler is called no more than once and told what the client can have got |
| client library | a job that is returned is the one defined; none is wired to another; a deleted job stays deleted |

## 2. The modules

| module | models | kind |
|---|---|---|
| `Processes` | the kernel's view of the service's children | component |
| `Manager` | both threads of the service over `Processes` | composition |
| `Registry` | what clients are promised: atomic jobs and workers | abstract specification |
| `ManagerRegistry` | the refinement mapping `Manager` -> `Registry` | refinement |
| `Handshake` | one start over the control pipe | component |
| `Start` | what a start promises | abstract specification |
| `Connection` | the coroutines of all clients over the HTTP socket | component |
| `HttpSyntax` | symbols, line ends, numbers, lists and transfer codings | algorithms |
| `TokenReader` | what both parsers share: the token in the buffer, `set_buffer`, bodies and chunks | component |
| `RequestReader`, `ResponseReader` | `request::next` and `response::next`, state by state | component |
| `Messages`, `Requests`, `Responses` | messages as their sender means them: their bytes, and what must be understood | abstract specification |
| `RequestStream`, `ResponseStream` | a stream of messages, cut into pieces and closed, fed to a parser | composition |
| `Readers` | both streams, and the decoders alone | composition |
| `HttpSocket` | the server socket over `RequestReader` | composition |
| `PosixLaunch` | descriptor tables around launches, owners of descriptors, waits | component |
| `JobClient` | the python client library over `Registry` | composition |
| `HttpHeaders` | numbers, dates, entity tags and ranges of header fields | algorithms |
| `FileServer` | one call of the file server, with socket and file | component |
| `MCManager`, `MCHandshake`, `MCConnection`, `MCReaders`, `MCHttpSocket`, `MCPosixLaunch`, `MCJobClient`, `MCFileServer` | instances for TLC | model checking |
| `ManagerProofs` | type correctness and safety of `Manager`; it implements `Registry` | proofs |
| `WorkerStartProofs` | safety of `Handshake` and of `PosixLaunch`, the two halves of starting a worker; `Handshake` implements `Start` | proofs |
| `ConnectionProofs` | type correctness and safety of `Connection` | proofs |
| `RequestReaderProofs` | what one call of `request::next` may do (lemmas for the next two) | proofs |
| `HttpSocketProofs` | types, places and order of what is read, order of replies of `HttpSocket` | proofs |
| `ReaderProofs` | type correctness of both parsers; their tokens lie in their buffers, what is looked at before an empty value is of its field | proofs |
| `JobClientProofs` | safety of `JobClient` | proofs |
| `FileServerProofs` | what the handler of `FileServer` is told | proofs |

### Processes

`pstat[p]` is a pid's life: `unused`, `alive`, `zombie` (dead, not waited for),
`gone` (waited for; the kernel may give the pid to another fork if it is in
`Reusable`). `Existing` is what `waitpid` can name. `powner` is a history
variable: the worker a child was forked for; the code does not know it, the
properties need it. `signalled` is the set of children sent SIGTERM. `posix_start`,
`terminate`, `Reap` and `Exit` are the calls of `src/process` and the death of
a process. A failing `execve` is a child that exits at once, as in
`posix_start`. Pids that are not children of the service are not modelled:
`kill` and `waitpid` fail on them.

### Manager

| variable | code |
|---|---|
| `workers`, `job`, `state`, `proc` | keys of `manager::workers`, `worker::job_id`, `worker::state`, `process::proc` (a pid or `NoPid` for null) |
| `reply` | how the create-worker request of an id was answered (history; `unborn`: the id was never given out) |
| `jobs`, `issued` | keys of `manager::jobs`; every job id given out |
| `mutex` | holder of `workers_mutex` |
| `pc`, `cur`, `after`, `target` | the main thread's place in a request, the worker it starts or destroys, where the destructor returns to, the job being deleted |
| `pipe` | what the control pipe of the worker being started amounts to, as in `Start` |
| `todo` | the rest of the monitor's sweep |
| `sigpending`, `svc` | a queued signal; the service `up`, `exited` by its handler, or `aborted` |

One action per handler, split where the code blocks or another thread can run:

| code | actions |
|---|---|
| `manager::create_job` | `create_job` |
| `manager::create_worker`, `process::run`, `run_process` | `create_worker` (with `LaunchFails`, `LaunchApplication`, `LaunchAndRead`), `WorkerReports`, `ReadReport` |
| `manager::delete_worker` | `delete_worker`, `FinishDestroy` |
| `manager::delete_job` | `delete_job`, `PurgeWorker`*, `FinishDestroy`*, `PurgeDone` |
| signal handler, `manager::stop` | `Signal`, `stop`, `ClearWorker`*, `FinishDestroy`*, `ClearDone` |
| `manager::run`, `process::is_running` | `SweepBegin`, `SweepWorker`*, `SweepEnd` |
| `process::~process` | `Destroy` (kill, or the throw), `FinishDestroy` (wait) |
| `main.C`, `connection.C` | `connection_throws`: the acceptor fails or an exception leaves a coroutine |

Simplifications, and why they are sound:

* `jobs_mutex` is left out: only the main thread takes it.
* Read-only requests, and requests refused by their validation, are stuttering.
* `std::map` iteration order is a free choice of the next worker; ids are
  random uuids, so every order occurs.
* `delete_job` holds a copy of the shared pointer while it erases the entry, so
  the destructor runs after the erase and before the next pass, with the same
  locks: `PurgeWorker` does both.
* Ids are fresh: `create_worker` needs `reply[w] = "unborn"`, `create_job` an id
  never used, not even as the job of a worker. A worker may be created for a
  job that does not exist (the README of the repository does it).
* After a reset of the service nothing is kept: `Down` stutters.

### Registry and ManagerRegistry

`Registry` is a state machine of six actions without threads, processes or
locks. `ManagerRegistry` maps the manager to it: a worker of the job that a
running `delete_job` removes is gone already, and so is every worker once
`stop` has begun, because no client can be served before those end.
`ReportStopped` is the one thing a client sees change by itself.

### Handshake and Start

`Handshake` has the writers of descriptor 3 (the worker and a helper it may
start), the kernel's pipe of bounded capacity, the stream buffer, and the
`getline` loop of `run_process`. `underflow` moves any non-empty part of the
pipe to the buffer; `Interrupted` is a read cut short by a signal, after which
the stream is at eof. Lines are records of a kind; the three kinds of line that
fail a start are kept apart because the code takes three paths.
`Start` is the view `Manager` has of it: announcements, one verdict, one answer.
The mapping computes the verdict from everything written so far, so the property
says that buffering, helpers and signals make no difference to it.

### Connection

One step per completion the event loop serves. A client's stream is a sequence
of tokens: `head` or `expecting head` (all tokens up to the end of the headers),
`chunk`, `eob`, `eom` (the parser's `end_of_body`, `end_of_message`) and `bad`
(anything the parser refuses, or the buffer cannot hold).
`on_async_read_message` takes any number of them in one read, but never past the
end of a message, as the parser is then given an empty buffer. `istate`,
`wstate` and `got` are `basic_socket::istate`, `writer_helper` and
`message.body()`; `target` is the template argument of the pending read. A read
whose batch does not hold what it was for stays pending.

The calls of the socket check its state as the code does and fail with
`out_of_order`; `NeverOutOfOrder` says that this never happens. `Throw` is the
end of the coroutine by an exception: silent for an end of file on a read, the
end of the service for anything else. `manager::handle` never yields and is one
step here; that it ends is `RequestCompletes` of `Manager`. How it ends (200,
400, 500, or with the service) is a free choice.

### HttpSyntax, TokenReader, RequestReader, ResponseReader

Text is a sequence of symbols from a small alphabet: one symbol for each class
of characters a branch of the parser tells apart (a digit, `cr`, `lf`, `sp`,
`comma`, a letter), and one for each whole word the code compares with
(`chunked`, `Content-Length`, `close`). `DigitValue`, `Decode` and `MaxSize`
keep the width of numbers: 64 bits in the code, a small bound here.
`decode_field_value` takes the buffer and the place of a value in it, because
for an empty value its counter wraps and it looks back at what is before the
value (`Downwards`), out of the buffer when the cut came after the colon
(`LeavesBuffer`). What it finds there makes no difference to the result, so what lies
before the buffer is not modelled.

The readers have the variables of the C++ classes: `state`, `body_type`,
`body_size`, `code`, `idx`, `token_size`, `ibuffer`, and `eof` or `version`. One call of
`next()` is one step. The code's recursive calls of `next()`, which report
no token between, are folded into the state they pass to.

`Messages`, `Requests` and `Responses` are written from the rules the code
quotes (RFC 7230), without buffers or states: `StreamBytes` is what a message
is sent as, and the events it should be reported as, up to the first error, are
computed from its fields alone. `RequestStream` and `ResponseStream` feed a
parser with such streams. One of `Cut` comes in pieces of every length, with
the stream closed at any place; one of `Uncut` comes whole. `ReportsTheMeaning`
compares what was reported with what was meant; `AllIsReported` says that
nothing of it is held back.

### HttpSocket

`basic_socket` as a whole: the buffer of `size` symbols and `used_size` (the
length of `buffer`), `nparsed`, the place of a field name that waits for its
value, `keep_alive`, `flags` and `target` of the pending handler, `istate`,
`wstate`. The completion handler runs to its end by itself; here one token of
its loop is one step (`NextToken`), then `Compacted` moves the rest to the front and
`EndOfRead` completes the operation, reads on, or fails with `buffer_exhausted`.
The write operations check `writer_helper` and append to `wire`.

What the library does not fix is taken as its documentation asks: the
application performs one operation at a time and reads the next request when
the last has been answered. `Connection` above is the service's own application,
on many sockets at once and in less detail: there a read takes any batch of
tokens.

### PosixLaunch

`table[p]` is the descriptor table of process `p`, a function from numbers to
open files; a fork copies it, an `execve` keeps it. `local` and `owns` say which
C++ object would close a descriptor of the service. `plan` has the contexts of
the launch under way. Steps are: `Launch` (what is asked for), `MakeLink` (one
pipe between two children of a pipeline), `MakeStream` (one stream of the
`info_map`s, inputs before outputs and each map in order), `Fork`, in the child
`Setup` (one stream; redirections when the others are in their places) and
`Execve`, and `Return` (what the service closes, and what the child object
takes). A failing `pipe` or `fork` is `Throw`, with the destructors of
everything made so far; the child ends at any call of its that fails, or
earlier (`Exit`). `memory` is what a child was given of the maps, `left` which of
its streams are not set up; `want` and `apart` are history variables. `CloseInputs`,
`ReadToTheEnd` and `wait_children` are what a program does with a launch then;
several launches may be under way one after the other, with children of earlier
ones alive. Children end when their input does or when nobody reads their
output, or at once.

The library gives no guard against a stream being put on a number that another
stream's pipe happens to have: `setup_input` and `setup_output` go through the
maps in order. Nor does it look at what an inherited number is: it may be a
pipe that was made for another child of the same pipeline; and a redirection may
name a number that the map does not connect. `GetsWhatWasAsked` is stated for
children whose streams are `apart` in all three senses (`Apart`); the context of `process::run` (1 and 2 inherited, 3
captured) always is, as `MCPosixLaunch` begins with services that have their
standard descriptors open or closed. The same reading shows what is no
violation but worth knowing: a service started with closed standard
descriptors passes its own pipe ends to workers as "inherited"; a
pipeline that fails halfway leaves children that nobody waits for; workers have
no standard input at all.

### JobClient

Programs with one `Job` object each call `implement` again and again, against the
atomic registry that `Manager` is proved to implement. Requests are refused, their
replies are lost after they took effect, workers are left behind by a failed
start, others delete, the service goes. `Definition` gives workers with
connections, instances and whether they report an address. An address is named
by the instance that listens there. `early` notes the jobs that were deleted
while being built: a worker may still be created for one of them, as
`create_worker` does not ask whether the job exists.

### HttpHeaders and FileServer

`HttpHeaders` has the functions of `algorithm/header.hpp` the file server uses:
`from_decimal_string` digit by digit with its overflow checks, dates in three
forms, entity tags, `is_valid_range`. `FileServer` is one call, from
`async_response_transmit_dir` or `async_response_transmit_file` to its handler, or to the
exception it leaves with (`Throw`: the file given to the second is gone when its
date and size are asked for; the handler is never called). `len` is
the file's length, which `Resize` changes at any time (`Gone`: removed). An
error found before the socket is used is posted; an operation of the socket
completes or fails. `process` and `process_multi` are the loops: the second
copies one text or range of a multipart answer a step, as much of it as the
buffer holds. A read beyond the end of the file as it is now may
fail; it may also succeed, from what the stream has buffered. What a file
holds at a position is taken not to change.

## 3. The runs

| run | question | bounds |
|---|---|---|
| `safety` | no dangling iterator, lost child, false STOPPED or unjustified throw; complete purges; a clean exit leaves nothing; the registry is implemented | 3 workers, 3 pids, 2 jobs; pids reused, launches fail |
| `live` | does every request end, does SIGTERM end the service, is a dead worker found out, is only a removed worker killed? | 2 workers, 2 pids, 2 jobs; one pid reused, launches fail |
| `handshake` | does a start keep its promise? | 2 inputs, 2 addresses, 1 helper, a pipe of 2 lines, 3 lines written |
| `connections` | is each exchange right, do connections disturb each other, who can end the service? | 2 connections, of 6 tokens and 1 |
| `readers` | do parsers report what was meant, wherever streams are cut? | heads of up to 3 framing fields (responses 2); lengths up to 15; texts of up to 4 symbols for the decoders |
| `socket` | does the application get the message, whatever the buffer; are replies whole and connections kept? | buffers of 3, 4, 5, 6, 7 and 20 symbols; streams of up to 2 requests; 4 items written before the last chunk |
| `launch` | do children get their streams, does nothing leak, do waits return? | 10 descriptors, 3 children, 2 tables, 5 kinds of launch |
| `jobs` | what is built, and what is left of it, after failures and deletes? | 2 clients, 2 calls each, 5 workers, 3 jobs |
| `files` | does the client get what it asked for, is the handler told the truth, does every call end? | files of up to 5 bytes, buffers of 1 to 40, an integer type up to 37 |
| `failed_start`, `failed_launch`, `stop_aborts` | three comments of the code that the code does not keep | 2 workers, 2 pids, 1 job |

Why these bounds show something:

* `safety`, `live`: three workers give a sweep and a purge a first, a middle and
  a last element, with one of another job or none; worker ids are never used
  again, so three of them also bound the length of a history. Two or three pids
  make reuse necessary once a pid was given back, and exhaust the process table.
  Two jobs let one be purged while a worker of the other, or of a job that does
  not exist, stays. Symmetry of workers, pids and jobs is used in the safety
  runs only; the code compares them for equality only.
* `handshake`: a pipe of two lines with three written makes the pipe full, the
  buffer hold more than one line, and `RUNNING` follow or precede two
  announcements of the same input.
* `connections`: six tokens let a batch hold none, one or several chunks with
  and without the head and the end, or a second head; the other connection is
  there for what one can do to the service.
* `readers`: a parser's state at a cut depends on the token it is in, and every
  token of both grammars, each line end, and each kind of body occurs in
  a stream that is cut everywhere. What framing fields mean depends on pairs
  (two lengths, a length and a coding, two codings), and all short combinations
  occur. 15 is below and above some of the numbers sent.
* `socket`: buffers from one that holds no token at all to one that holds a
  whole request; in between every field, value or trailer is one symbol too
  long for some size and fits another.
* `launch`: ten descriptors are enough for one pipeline of three with nothing
  else open and too few while the service holds the streams of other children,
  so `pipe(2)` fails early and late; three children are a pipeline of three,
  or one of two while an earlier child is alive. What leaks or is mixed up would do
  so for one child of a launch, and safety is proved for any number (section 4).
* `jobs`: a sink of two instances and a source that writes to both, and another
  program; one call that fails at any request and one that follows it; five
  workers and three jobs, so that identifiers run out only at the end.
* `files`: 37 makes "34" fit, "40" fail in its product and "100" in its weight;
  buffers shorter than, as long as and longer than every text of a multipart
  answer; a file of five bytes has ranges before, at and after its end.

`OnlyRemovedKilled` and `DeadWorkerMarked` are stated for pids that are not
in `Reusable`: with reuse the code may signal the process of another worker,
because a sweep leaves the pid of a reaped worker in its child object for a
second or more.

### Fairness

* `WF(Monitor)`, `WF(Continue)`: both threads are scheduled.
* `SF(stop)`: asio serves its queue in order, so a pending signal gets its turn
  although requests keep coming, and the monitor sleeps a second with the mutex
  free between sweeps. Weak fairness would not do: `stop` is disabled whenever a
  request runs or the monitor sweeps.
* `WF(Report)`: a worker that is being started says something or closes its
  pipe. The workers of `python/wye/func.py` and `examples/` do. The service
  itself does not ensure it: one that stays silent blocks the service for ever.
* `WF(p \in signalled /\ WorkerExit(p))`: SIGTERM ends a worker. Python's
  default action does; a worker that ignores it blocks the destructor for ever.
* `Handshake`: `WF(Reader)`, the main thread runs. Workers are under no fairness
  there; `DecidedIsAnswered` claims an answer only once one is decided.
* `Connection`: `WF(Complete(c))`, the event loop serves what is ready on every
  connection. Clients are under no fairness: they may stop anywhere.
* `PosixLaunch`: the service reads and waits (`ReadToTheEnd`, `wait_children`),
  a forked child gets to its `execve` or exits, and a child that is waited for
  ends once its input has ended or its reader is gone. Children of other
  launches are under no fairness: a descriptor one of them held by mistake
  would be held for ever.
* `FileServer`: the call goes on, the event loop runs what is posted, and an
  operation of the socket completes or fails. `LooksAt` and `Sends` are
  `transmit_file` and `send_file` by their effect on `pc`, which is cheaper to
  check.

Nothing obliges requests, signals, failures and deaths to happen.

### Findings

* `failed_start`: `process.C:125` and `:131` say that a process whose start
  fails goes out of scope and is terminated. The map still holds it.
* `failed_launch`: `manager.C:377` says that failed workers are just marked as
  STOPPED. A worker whose launch failed before the fork is not when the
  monitor comes to it: `is_running` throws on the null proc, which ends the service.
  The trace is that launch, `SweepBegin` and the worker's `SweepWorker`.
* `stop_aborts`: `manager.C:408` says that destructors will kill the processes.
  One that throws ends the service before the others run.

What modelling the library showed besides, in the models as the code has it:

* The multipart loop seeks to the first byte of a range in every buffer
  (`file_server.hpp:715`): a part that does not fit one buffer begins again in
  the next. The ghost `resumed` marks such answers: `SendsWhatIsAsked` compares
  their texts, places and number of bytes, but not which bytes of the file
  they have (`Alike`); with equality TLC finds the wrong body.
* `etag()` strips the quotes of the server's entity tag, the elements of
  `if-match` and `if-none-match` keep theirs (`file_server.hpp:981`, `1044`): a
  well-formed tag never matches, so the one is always answered 412 and the other
  never 304. An `if-range` with an entity tag is ignored and the range sent.
* `rfc1036` reads a year of two digits as one of the 1900s
  (`algorithm/header.hpp:197`).
* `last_write_time` and `file_size` throw out of `async_response_transmit_file`
  when the file is gone (`file_server.hpp:964`; the `catch` at 1382 takes only
  `ios_base::failure`), and the handler is never called, although
  `async_response_transmit_file.adoc:247` says that it is when the operation
  completes. `AlwaysAnswered` allows for this end (`thrown`) and no other.
  `async_response_transmit_dir` passes the error to the handler.
* A `range` header that is malformed is answered 416, not ignored.
* `async_response_transmit_dir.adoc` accepts the write state `empty` only; the
  code accepts `continue_issued` as well.
* `server_socket_concept.adoc:232` has the write of a reply with `connection:
  close` end with `stream_finished`; the code passes on what the write ended with.
* `reader/detail/common.hpp:32` says that every field has a character that is no
  white space, and `socket_concept.adoc:225` that no empty value is inserted.
  The parser accepts an empty value, `decode_field_value` then looks at the
  bytes before it, back to the first that is no white space, and the socket inserts
  it. `TokenInBuffer` says where that ends: at the colon of the same field, or before
  the buffer if the colon came in an earlier one (a read of memory that is not
  the buffer's). What comes out is empty either way. A single `Expect` other than 100-continue stays among the headers;
  a trailer `connection: close` counts for the connection.
* After `puteof` within a token the response reader answers
  `error_insufficient_data` for ever; a 204 to CONNECT is not taken for a tunnel.

## 4. The proofs

TLAPS checks every theorem below for all values of the constants that satisfy
the assumptions named; `PROJECT.json` lists them. A run finds the same
properties true on its small instance. Each module proves that the initial
states satisfy an inductive invariant and that every step keeps it, action by
action, and derives the property from it.

**Manager** (`ProcessesAssumption`, `ManagerAssumption`: the null values are not
members, the switches are Booleans; any workers, pids and jobs, with or without
reuse of any pids and failing launches). `TypeOK`, `SweepValid`,
`NoLeakedChild`, `StoppedIsDead`, `NullProcFailed`, `StopReapsAll`,
`PurgeComplete`, `OnlyRemovedKilled`. Of these only `TypeOK` is inductive. `IInv`
adds what the threads rely on:

* `Locked`: the main thread holds the mutex exactly when it is inside a
  request. So a monitor step finds the main thread idle, and cannot reap what a
  destructor is about to wait for or mark the worker being started.
* `Reaping`: the process a destructor waits for exists and its worker has left
  the map. It needs `Locked` to survive sweeps.
* `Unborn`: an id not given out has no trace anywhere. So a fork never
  overwrites the child object of a live process, the step in which
  `NoLeakedChild` could fail.
* `Starting`, `StoppedNoProc`: the worker being read is in the map and pending;
  a STOPPED worker has no child object.

`StopReapsAll` then follows from `NoLeakedChild` at the step to `exited`: the
map is empty and no destructor runs, so no child has an owner.
`OnlyRemovedKilled` needs `Named`: a child object names the process it was made
for, or one that is over, unless the kernel reused the pid. That the manager implements `Registry`
(`ImplementsRegistry`) takes two more conjuncts: `target` is a job of the map exactly
while a `delete_job` runs, and a worker has a job once its id is given out. One lemma
per request shows that it maps to an action of `Registry`; the other steps map
to its end or to none.

`WorkerStartProofs` has both halves of starting a worker, the launch of its process and
the handshake with it, and so two invariants that share nothing:

**Handshake** (`HandshakeAssumption`; any capacity of the pipe, helpers, names and
addresses). `TypeOK`, `InOrder` and `ImplementsStart`. The invariant `Flow` says where
each line is: the next line `getline` sees is the one after the last it has read,
of all that were said, through pipe and buffer; what it has recorded is the last
address of each name among those before. The refinement maps the verdict of
`Start` to the first decisive line that was said; a write of it is the step that decides, the
`getline` that reads it the step that answers, and an end of the pipe or a signal
is answered only when no decisive line was left to read. A line is one record
here: cuts inside a line, which `getline` puts together, are not modelled.

**PosixLaunch** (`LaunchAssumption`: descriptors are numbers, a plan is a nonempty
sequence of contexts, a pipeline's contexts leave alone the streams that link its
children, only outputs are redirected; any tables, plans, descriptors and number of
children). `LaunchesLeakNothing` proves `NoneLeaks` from `ServiceInv`: every
descriptor of the service that it did not begin with has one owner (`Owned`), and
at each point of a launch the ends not yet closed are where its plan says, each
the end of the pipe made for it (`Launching`, `Made`, `Connected`). That is needed at
`Return`: it closes some ends of the maps and hands on others, and two different
ends are on different descriptors only because they are ends of different files.
`ProgramsGetWhatWasAsked` proves `GetsWhatWasAsked`, which says nothing before an
`execve`: `ChildInv` says which streams of a forked child are in their places, and
that what the others will be made from is still where the map says. It
begins with what `ServiceInv` says of the table at the fork. `Apart` is what
its step needs: putting one stream in its place takes away nothing another one
has or waits for.

**Connection** (`ConnectionAssumption`: every client has a bound on its tokens; any number
of connections). `TypeOK`, `NeverOutOfOrder`, `WholeBody`, `OnlyBrokenPeers`. Coroutines
share only the service, so the invariant is about each connection alone:
`Exchange` ties the place where its coroutine waits to the state of the socket
and to how much of the stream was read. `WholeBody` counts the tokens of a kind in a
piece of the stream (lemmas on cardinalities of sets of positions).

**Readers** (`MaxSizeAssumption`; `StreamsAssumption`: what is sent are symbols; any
messages, cuts and ends of stream). `TypeOK` and `TokenInBuffer`. Every rule of both
`next()` finds a token, or an error, of at most what is left of the buffer
(`Step` in `RequestReaderProofs`, `ResponseCall`), and `set_buffer` keeps what is unread. The
decoded lengths are bounded by `MaxSize` (`DecodeType`): the loop over digits is a
recursive function whose existence and range are proved from the least number
at which they would fail (`LoopExists`, `LoopType`). `Readers` has the parsers as
instances; `ReaderProofs` first shows their operators equal to those the lemmas
are about.

The second part of `TokenInBuffer`, about what lies before an empty value, needs
`BehindInv`: in the states from a colon to the end of its value there is only
white space back to that colon or to the beginning of the buffer. Each rule of both parsers is
shown to come to those states only by a colon and to stay there by white
space or by asking for more (`Shown`), which keeps it (`ShownKeeps`), as a new buffer does
(`ArrivalKeeps`); `LookBack` then says where the loop of `decode_field_value` ends.

**HttpSocket** (`SocketAssumption`: buffers are not empty, as the constructor checks; what is sent are symbols).
`PlacesInBuffer` proves `PlaceInv`: what has been parsed, the name that waits for its value, and the token
begun all lie in the buffer, whatever its size and wherever it was compacted. It
is what makes the index arithmetic of `on_async_read_message` safe. `RepliesInTurn`
proves `AnswersInTurn`, from `FlowInv` (`PlaceInv`, the phase of the
parser in which each operation waits, and what the pending handler is for) and
`WireInv`: the state of the writer fixes the last item written, and replies begun,
chunked and ended never outrun the heads read. `NeverWaitsInVain` proves
`WaitsWithRoom`, the part of `ReadsToTheEnd` that needs no meaning of a request: with
`RoomInv`, the channel is asked for more only while there is room; with `FlowInv`, only for a
part of the message that has not come.

`NothingIsLost` proves `InSequence`: what the buffer holds beyond what was parsed (`Ahead`),
followed by what has not arrived, is the rest of the stream, and while tokens are
read it is what the parser sees. It needs `PlaceInv`, since a drop of symbols is
only exact when that many are there, and lemmas on drops of concatenations
(`DropAll`, `DropTwice`, `DropFirst`). `SocketTypes` proves `TypeOK`. The conjunct that
is not inductive says that the message has nothing but fields: a name is read back from the buffer when
its value comes, often after a compaction that moved it. `NameInv` says that what lies at its
place is made of name characters while a value is expected: `FieldTokens` gives it when
the name is found, `EndOrder` across a compaction. `ValueInv` says that the parser
is between a name and its value only while the name is kept (`ValueFollowsName`), so a
value never takes its name from a place left by an earlier field. `Others` is a
recursive function, whose existence is `LoopExists` again.

**JobClient** (`DefinitionAssumption`: a worker is connected to workers defined
before it and has at least one instance, a job has a worker; any number of
programs and attempts). `BuiltAsDefined` and the action property `DeletedForGood`. `Progress` says of each client
that the workers up to the one being implemented are built as defined from the
addresses of this attempt. It survives the steps of others because a worker,
once in the registry, keeps its job and its outputs (`Extends`).

**FileServer** (any requests, files and buffers). `TellsTheTruth`, from `Told`: until
the status line no error can be one that means the answer broke off, and
afterwards it cannot be one that means nothing was sent; an exception leaves the
call only before.

Only model-checked, because out of the reach of the prover:

* All liveness (`Fairness` below each specification) and `ENABLED`.
* What a recursive or folded definition computes from data of every length:
  `ReportsTheMeaning`, `AllIsReported`, `DecodesTheNumber`, `ChunkedOnceAndLast` (`Readers`),
  `MessageDelivered`, `KeptOpenAsAgreed` and the rest of `ReadsToTheEnd` (`HttpSocket`, whose meaning of
  a request is computed from its fields), `SendsWhatIsAsked` (`FileServer`).

## 5. Not modelled

* The wording of replies, logs and `describe`; argument lists of the worker
  models; option parsing.
* The ZeroMQ traffic between workers, which never reaches the service.
* `process::terminate` (`process.C:47-58`): nothing calls it.
* In the socket: formatting of replies, the implicit `content-length`,
  `connect_request`.
* In the readers: a text of more than one symbol that is a keyword by accident
  (a word is one symbol, and never cut).
* In `src/process`: `launch_shell`, `find_executable_in_path`, `self`, the writing
  half of `systembuf`, argument and environment vectors, the win32 half.
* In the file server: a file or buffer beyond the address space (`max_size`,
  `safe_add`), coalescing of ranges (a TODO there), dates as text.
* A start whose last line is cut short by the end of the pipe (`process.C:129`):
  `Handshake` has whole lines, and both cases are answered with an error.
* The polymorphic sockets, which forward every call; the utilities, which send
  one request each; tests, packaging and build files.
* Exceptions of memory allocation, and of starting the monitor thread.

## 6. Plan

Done: `Processes`, `Manager`, its safety, liveness and findings; `Registry`, the
refinement and both proofs; `Handshake`, `Start`; `Connection`; the readers and
`HttpSocket`; `PosixLaunch`; `JobClient`; `FileServer`.

Proved since: the safety of `Handshake`, `PosixLaunch`, `Connection`, `JobClient`, the
readers, and in part `HttpSocket` and `FileServer` (section 4).

Next, in this order:

1. Of `ReadsToTheEnd` of `HttpSocket`, that only what does not fit exhausts the buffer,
   as far as it is about counts of symbols.
2. That `HttpSocket` implements the batches of `Connection`, if a mapping of
   its buffer to them can be stated without recomputing the parser.
